---------------------------- MODULE PriceProofs ----------------------------
(***************************************************************************)
(* Proofs about the price models (Prices): the bid returned is feasible    *)
(* and the best of its curve; the market band is ordered, within its       *)
(* sample, and ignores no point of it; a competitor's band is honest about *)
(* the two samples it is pooled from; the facts shown behind a band are    *)
(* rows on record; calibration scores what is served; the review of a      *)
(* sheet is fair and accuses no line without cause.                        *)
(*                                                                         *)
(* A behaviour follows one model.  For each there are a lemma that its     *)
(* initial states satisfy the inductive invariant its module states, a     *)
(* lemma that its steps preserve it, and lemmas that it implies the        *)
(* properties that are not among its conjuncts.                            *)
(***************************************************************************)
EXTENDS Prices, EvidenceProofs, TLAPS

-----------------------------------------------------------------------------
(***************************************************************************)
(* Explanation: what is shown was on record.  m1 .. m8 are awards, lastId, *)
(* vendors, asked, answer, harvests, ever and moved.                       *)
(***************************************************************************)
\* The sets of the model, which this module's operators do not change.
LEMMA ShownCardinality == \A S : Explained!Cardinality(S) = Cardinality(S)
  BY DEF Explained!Cardinality, Cardinality

\* The first of a set of award rows is one of them, and none of an empty set.
LEMMA FirstIsARow ==
  ASSUME NEW S \in SUBSET Explained!Rows
  PROVE  /\ S = {} => Explained!First(S) = Explained!NoAward
         /\ S # {} => Explained!First(S) \in S
<1>1. CASE S = {}
  BY <1>1 DEF Explained!First
<1>2. CASE S # {}
  <2> DEFINE ids == {r.id : r \in S}
  <2>1. ids \in SUBSET Nat /\ ids # {}
    BY <1>2, ShownAssumption DEF Explained!Rows, Explained!Ids
  <2>2. \E x \in ids : \A y \in ids : x <= y
    BY <2>1, LeastExists
  <2>3. \E r \in S : \A s \in S : r.id <= s.id
    BY <2>2
  <2> QED BY <1>2, <2>3 DEF Explained!First
<1> QED BY <1>1, <1>2

\* A retrieved award is a row of the tender with a value, if there is one, and so is a cited one.
LEMMA RetrievedIsARow ==
  ASSUME m1 \in [ShownTenders -> SUBSET Explained!Rows], NEW t \in ShownTenders
  PROVE  /\ Explained!Retrieved(t) = Explained!Cited(t)
         /\ Explained!Retrieved(t).value \in {0} \cup ShownValues
         /\ Explained!Retrieved(t).value # 0 =>
              Explained!Retrieved(t) \in m1[t] /\ Explained!Retrieved(t) \in Explained!Rows
<1> DEFINE S == {r \in m1[t] : r.value # 0}
<1>1. S \in SUBSET Explained!Rows
  OBVIOUS
<1>2. Explained!Retrieved(t) = Explained!First(S) /\ Explained!Cited(t) = Explained!First(S)
  BY DEF Explained!Retrieved, Explained!Cited
<1>3. CASE S = {}
  BY <1>1, <1>2, <1>3, FirstIsARow DEF Explained!NoAward
<1>4. CASE S # {}
  <2>1. Explained!First(S) \in S
    BY <1>1, <1>4, FirstIsARow
  <2>2. Explained!First(S) \in m1[t] /\ Explained!First(S) \in Explained!Rows
    BY <1>1, <2>1
  <2> QED BY <1>2, <2>2 DEF Explained!Rows
<1> QED BY <1>3, <1>4

\* A list of candidates has one comparable per tender, with the retrieved value.
LEMMA CandidatesAreComparables ==
  ASSUME m1 \in [ShownTenders -> SUBSET Explained!Rows], NEW late \in SUBSET ShownTenders
  PROVE  /\ Explained!Candidates(late) \in SUBSET Explained!Comparable
         /\ \A s, r \in Explained!Candidates(late) : s.tender = r.tender => s = r
         /\ \A s \in Explained!Candidates(late) : s.value = Explained!Retrieved(s.tender).value
         /\ \A t \in ShownTenders : \E s \in Explained!Candidates(late) : s.tender = t
<1>1. \A t \in ShownTenders : Explained!Retrieved(t).value \in {0} \cup ShownValues
  BY RetrievedIsARow
<1>2. ASSUME NEW s \in Explained!Candidates(late) PROVE s \in Explained!Comparable
  <2>1. PICK t \in ShownTenders :
          s = [tender |-> t, value |-> Explained!Retrieved(t).value,
               excluded |-> t \in late \/ Explained!Retrieved(t).value = 0]
    BY <1>2 DEF Explained!Candidates
  <2> DEFINE value == Explained!Retrieved(t).value
             excluded == t \in late \/ value = 0
  <2>2. value \in {0} \cup ShownValues /\ excluded \in BOOLEAN
    BY <1>1
  <2>3. s = [tender |-> t, value |-> value, excluded |-> excluded]
    BY <2>1
  <2> HIDE DEF value, excluded
  <2> QED BY <2>2, <2>3 DEF Explained!Comparable
<1>3. \A s \in Explained!Candidates(late) : \E t \in ShownTenders :
        s = [tender |-> t, value |-> Explained!Retrieved(t).value,
             excluded |-> t \in late \/ Explained!Retrieved(t).value = 0]
  BY DEF Explained!Candidates
<1>4. \A t \in ShownTenders :
        [tender |-> t, value |-> Explained!Retrieved(t).value,
         excluded |-> t \in late \/ Explained!Retrieved(t).value = 0] \in Explained!Candidates(late)
  BY DEF Explained!Candidates
<1>5. \A s, r \in Explained!Candidates(late) : s.tender = r.tender => s = r
  <2> DEFINE of(t) == [tender |-> t, value |-> Explained!Retrieved(t).value,
                       excluded |-> t \in late \/ Explained!Retrieved(t).value = 0]
  <2>1. \A t : of(t).tender = t
    OBVIOUS
  <2>2. \A s \in Explained!Candidates(late) : \E t \in ShownTenders : s = of(t)
    BY <1>3, Zenon
  <2> HIDE DEF of
  <2> QED BY <2>1, <2>2
<1>6. \A s \in Explained!Candidates(late) : s.value = Explained!Retrieved(s.tender).value
  <2> SUFFICES ASSUME NEW s \in Explained!Candidates(late)
               PROVE  s.value = Explained!Retrieved(s.tender).value
    OBVIOUS
  <2>1. PICK t \in ShownTenders :
          s = [tender |-> t, value |-> Explained!Retrieved(t).value,
               excluded |-> t \in late \/ Explained!Retrieved(t).value = 0]
    BY <1>3
  <2>2. s.tender = t /\ s.value = Explained!Retrieved(t).value
    BY <2>1
  <2> QED BY <2>2
<1>7. ASSUME NEW t \in ShownTenders PROVE \E s \in Explained!Candidates(late) : s.tender = t
  <2>1. [tender |-> t, value |-> Explained!Retrieved(t).value,
         excluded |-> t \in late \/ Explained!Retrieved(t).value = 0].tender = t
    OBVIOUS
  <2> QED BY <1>4, <2>1
<1> QED BY <1>2, <1>5, <1>6, <1>7

\* The request at rest, and no answer yet.
LEMMA RestingHasType ==
  /\ Explained!Resting \in Explained!Request /\ Explained!NoAnswer \in Explained!Explanations
  /\ Explained!Resting.stage = "off" /\ Explained!Resting.similar = {}
  /\ Explained!Resting.market = "suppressed" /\ Explained!Resting.facts = {}
  /\ \A v \in ShownVendors : Explained!Resting.field[v] = "none"
<1>1. Explained!NoField \in [ShownVendors -> Explained!Grades]
  BY DEF Explained!NoField, Explained!Grades
<1>2. Explained!Resting \in Explained!Request
  BY <1>1 DEF Explained!Resting, Explained!Request
<1>3. Explained!NoAnswer \in Explained!Explanations
  BY <1>1 DEF Explained!NoAnswer, Explained!Explanations
<1> QED BY <1>2, <1>3 DEF Explained!Resting, Explained!NoField

\* No answer claims nothing.
LEMMA NoAnswerIsSound ==
  ASSUME m5 = Explained!NoAnswer
  PROVE  /\ Explained!ObservedWasOnRecord /\ Explained!SampleIsShown
         /\ Explained!BlindBandIsWarned
<1>1. m5.observed = {} /\ m5.usable = {} /\ m5.named = {} /\ m5.predicted = {} /\ m5.untraceable = 0
  BY DEF Explained!NoAnswer
<1>2. Explained!Cardinality({}) = 0
  BY ShownCardinality, FS_EmptySet
<1>3. Explained!ObservedWasOnRecord
  BY <1>1, <1>2 DEF Explained!ObservedWasOnRecord
<1>4. Explained!SampleIsShown
  BY <1>1 DEF Explained!SampleIsShown
<1> QED BY <1>3, <1>4 DEF Explained!BlindBandIsWarned

\* The initial states.
LEMMA ExplainedInit == ASSUME Explained!Init PROVE Explained!ShownInv
<1>1. /\ \A t \in ShownTenders : m1[t] = {}
      /\ m1 \in [ShownTenders -> SUBSET Explained!Rows]
  BY DEF Explained!Init
<1>2. Explained!OnRecord(m1) = {}
  BY <1>1 DEF Explained!OnRecord
<1>3. Explained!TypeOK
  <2>1. m6 \in 0..ShownVisits
    BY ShownAssumption DEF Explained!Init
  <2>4. m8 \in BOOLEAN
    BY DEF Explained!Init
  <2>2. m4 \in Explained!Request /\ m5 \in Explained!Explanations
    BY RestingHasType DEF Explained!Init
  <2>3. m2 = 0 /\ m3 = ShownVendors /\ m7 = {}
    BY DEF Explained!Init
  <2> QED BY <1>1, <2>1, <2>2, <2>3, <2>4 DEF Explained!TypeOK
<1>4. Explained!RecordInv
  BY <1>2 DEF Explained!Init, Explained!RecordInv
<1>5. m4 = Explained!Resting /\ m5 = Explained!NoAnswer
  BY DEF Explained!Init
<1>6. Explained!SimilarInv
  BY <1>5, RestingHasType DEF Explained!SimilarInv
<1>7. Explained!FactsInv
  BY <1>5, RestingHasType DEF Explained!FactsInv
<1>8. Explained!BandInv
  BY <1>5, RestingHasType DEF Explained!BandInv
<1> QED BY <1>3, <1>4, <1>5, <1>6, <1>7, <1>8, NoAnswerIsSound DEF Explained!ShownInv

\* What a request holds survives rows that come and go, once they are said to have moved.
LEMMA RowsMove ==
  ASSUME Explained!ShownInv, UNCHANGED <<m4, m5>>, m8' = TRUE, m7 \subseteq m7'
  PROVE  /\ (Explained!SimilarInv /\ Explained!FactsInv /\ Explained!BandInv)'
         /\ (Explained!ObservedWasOnRecord /\ Explained!SampleIsShown
             /\ Explained!BlindBandIsWarned)'
<1>1. Explained!SimilarInv'
  BY DEF Explained!ShownInv, Explained!SimilarInv
<1>2. Explained!FactsInv'
  <2>1. Explained!Usable(m4.similar)' = Explained!Usable(m4.similar)
    BY DEF Explained!Usable
  <2> QED BY <2>1 DEF Explained!ShownInv, Explained!FactsInv
<1>3. Explained!BandInv'
  BY DEF Explained!ShownInv, Explained!BandInv
<1>4. Explained!ObservedWasOnRecord'
  BY DEF Explained!ShownInv, Explained!ObservedWasOnRecord, Explained!Cardinality
<1>5. Explained!SampleIsShown' /\ Explained!BlindBandIsWarned'
  BY DEF Explained!ShownInv, Explained!SampleIsShown, Explained!BlindBandIsWarned
<1> QED BY <1>1, <1>2, <1>3, <1>4, <1>5

\* A harvest replaces the rows of a tender, and a bidders' page removes them.
LEMMA ExplainedHarvest ==
  ASSUME Explained!ShownInv, NEW t \in ShownTenders,
         Explained!Harvest(t) \/ Explained!Unaward(t)
  PROVE  Explained!ShownInv'
<1>1. /\ m1 \in [ShownTenders -> SUBSET Explained!Rows] /\ m2 \in {0} \cup Explained!Ids
      /\ m3 \subseteq ShownVendors /\ m4 \in Explained!Request
      /\ m5 \in Explained!Explanations /\ m6 \in 0..ShownVisits
      /\ m7 \subseteq Explained!Fact /\ m2 <= 2 * m6 /\ Explained!OnRecord(m1) \subseteq m7
  BY DEF Explained!ShownInv, Explained!TypeOK, Explained!RecordInv
<1>2. /\ UNCHANGED <<m3, m4, m5>> /\ m8' = TRUE /\ m6' = m6 + 1 /\ m6 < ShownVisits
  BY DEF Explained!Harvest, Explained!Unaward
<1>3. /\ m1' \in [ShownTenders -> SUBSET Explained!Rows] /\ m2' \in {0} \cup Explained!Ids
      /\ m2' <= 2 * m6' /\ m7' \subseteq Explained!Fact /\ m7 \subseteq m7'
      /\ Explained!OnRecord(m1') \subseteq m7'
  <2>1. CASE Explained!Harvest(t)
    <3>1. PICK first \in {0} \cup ShownValues, second \in {-1} \cup ShownValues :
            LET rows == {[id |-> m2 + 1, value |-> first]}
                          \cup (IF second < 0 THEN {} ELSE {[id |-> m2 + 2, value |-> second]})
            IN m1' = [m1 EXCEPT ![t] = rows] /\ m2' = m2 + Explained!Cardinality(rows)
      BY <2>1 DEF Explained!Harvest
    <3> DEFINE a == [id |-> m2 + 1, value |-> first]
               b == [id |-> m2 + 2, value |-> second]
               rows == {a} \cup (IF second < 0 THEN {} ELSE {b})
    <3>2. m1' = [m1 EXCEPT ![t] = rows] /\ m2' = m2 + Cardinality(rows)
      BY <3>1, ShownCardinality
    <3>3. m2 + 1 \in Explained!Ids /\ m2 + 2 \in Explained!Ids
      BY <1>1, <1>2, ShownAssumption DEF Explained!Ids
    <3>4. rows \subseteq Explained!Rows
      <4>1. a \in Explained!Rows
        BY <3>3 DEF Explained!Rows
      <4>2. second \in ShownValues => b \in Explained!Rows
        BY <3>3 DEF Explained!Rows
      <4> HIDE DEF a, b
      <4> QED BY <4>1, <4>2
    <3>5. Cardinality(rows) \in 1..2
      <4> HIDE DEF a, b
      <4>1. rows = {a} \/ rows = {a, b}
        OBVIOUS
      <4>2. Cardinality({a}) = 1
        BY FS_Singleton
      <4>3. Cardinality({a, b}) \in 1..2
        <5>1. IsFiniteSet({a}) /\ {a, b} = {a} \cup {b}
          BY FS_Singleton
        <5>2. Cardinality({a} \cup {b}) = IF b \in {a} THEN Cardinality({a}) ELSE Cardinality({a}) + 1
          BY <5>1, FS_AddElement
        <5> QED BY <4>2, <5>1, <5>2
      <4> QED BY <4>1, <4>2, <4>3
    <3> HIDE DEF rows, a, b
    <3>6. m1' \in [ShownTenders -> SUBSET Explained!Rows]
      BY <1>1, <3>2, <3>4
    <3>7. m7' = m7 \cup Explained!OnRecord(m1')
      BY <2>1 DEF Explained!Harvest
    <3>8. Explained!OnRecord(m1') \subseteq Explained!Fact
      BY <3>6 DEF Explained!OnRecord, Explained!Fact
    <3>9. m2' \in {0} \cup Explained!Ids /\ m2' <= 2 * m6'
      BY <1>1, <1>2, <3>2, <3>5, ShownAssumption DEF Explained!Ids
    <3> QED BY <1>1, <3>6, <3>7, <3>8, <3>9
  <2>2. CASE Explained!Unaward(t)
    <3>1. m1' = [m1 EXCEPT ![t] = {}] /\ UNCHANGED <<m2, m7>>
      BY <2>2 DEF Explained!Unaward
    <3>2. m1' \in [ShownTenders -> SUBSET Explained!Rows]
      BY <1>1, <3>1
    <3>3. \A u \in ShownTenders : m1'[u] \subseteq m1[u]
      BY <1>1, <3>1
    <3>4. Explained!OnRecord(m1') \subseteq Explained!OnRecord(m1)
      BY <3>3 DEF Explained!OnRecord
    <3>5. m2' <= 2 * m6'
      BY <1>1, <1>2, <3>1, ShownAssumption DEF Explained!Ids
    <3> QED BY <1>1, <3>1, <3>2, <3>4, <3>5
  <2> QED BY <2>1, <2>2
<1>4. Explained!TypeOK'
  <2>1. m6' \in 0..ShownVisits
    BY <1>1, <1>2, ShownAssumption
  <2> QED BY <1>1, <1>2, <1>3, <2>1
          DEF Explained!TypeOK, Explained!Rows, Explained!Ids, Explained!Fact, Explained!Request,
              Explained!Explanations, Explained!Comparable, Explained!Grades
<1>5. Explained!RecordInv'
  BY <1>3 DEF Explained!RecordInv, Explained!OnRecord
<1> QED BY <1>2, <1>3, <1>4, <1>5, RowsMove DEF Explained!ShownInv

\* The merge of vendors removes a vendor.
LEMMA ExplainedMerge ==
  ASSUME Explained!ShownInv, NEW v \in ShownVendors, Explained!Merge(v)
  PROVE  Explained!ShownInv'
<1>1. UNCHANGED <<m1, m2, m4, m5, m6, m7>> /\ m8' = TRUE /\ m3' \subseteq m3
  BY DEF Explained!Merge
<1>2. Explained!TypeOK'
  BY <1>1 DEF Explained!ShownInv, Explained!TypeOK, Explained!Rows, Explained!Ids, Explained!Fact,
              Explained!Request, Explained!Explanations, Explained!Comparable, Explained!Grades
<1>3. Explained!RecordInv'
  BY <1>1 DEF Explained!ShownInv, Explained!RecordInv, Explained!OnRecord
<1> QED BY <1>1, <1>2, <1>3, RowsMove DEF Explained!ShownInv

\* The types, that no step's primed state redefines.
LEMMA ShownTypesAfter ==
  /\ m1' \in [ShownTenders -> SUBSET Explained!Rows] /\ m2' \in {0} \cup Explained!Ids
  /\ m3' \subseteq ShownVendors
  /\ m4' \in Explained!Request /\ m5' \in Explained!Explanations
  /\ m6' \in 0 .. ShownVisits /\ m7' \subseteq Explained!Fact /\ m8' \in BOOLEAN
  => Explained!TypeOK'
  BY DEF Explained!TypeOK, Explained!Rows, Explained!Ids, Explained!Fact,
         Explained!Request, Explained!Explanations, Explained!Comparable, Explained!Grades

\* A request begins.
LEMMA ExplainedFind ==
  ASSUME Explained!ShownInv, Explained!FindSimilar
  PROVE  Explained!ShownInv'
<1>0. Explained!TypeOK /\ m1 \in [ShownTenders -> SUBSET Explained!Rows]
  BY DEF Explained!ShownInv, Explained!TypeOK
<1>1. UNCHANGED <<m1, m2, m3, m6>> /\ m5' = Explained!NoAnswer /\ m7' = Explained!OnRecord(m1)
  BY DEF Explained!FindSimilar
<1>2. /\ m4' \in Explained!Request /\ m4'.stage = "market" /\ m4'.facts = {}
      /\ m4'.market = "suppressed" /\ \A v \in ShownVendors : m4'.field[v] = "none"
      /\ m8' \in BOOLEAN
      /\ \A s, r \in m4'.similar : s.tender = r.tender => s = r
      /\ \A s \in m4'.similar : s.value = Explained!Retrieved(s.tender).value
      /\ ~m8' => \A t \in ShownTenders : \E s \in m4'.similar : s.tender = t
  <2> USE DEF Explained!Request
  <2>1. CASE m4' = [Explained!Resting EXCEPT !.stage = "market"] /\ m8' = TRUE
    BY <2>1, RestingHasType
  <2>2. CASE m8' = FALSE /\ \E late \in SUBSET ShownTenders :
               m4' = [Explained!Resting EXCEPT !.stage = "market",
                                               !.similar = Explained!Candidates(late)]
    <3>1. PICK late \in SUBSET ShownTenders :
            m4' = [Explained!Resting EXCEPT !.stage = "market",
                                            !.similar = Explained!Candidates(late)]
      BY <2>2
    <3> DEFINE all == Explained!Candidates(late)
    <3>2. /\ all \in SUBSET Explained!Comparable
          /\ \A s, r \in all : s.tender = r.tender => s = r
          /\ \A s \in all : s.value = Explained!Retrieved(s.tender).value
          /\ \A t \in ShownTenders : \E s \in all : s.tender = t
      BY <1>0, CandidatesAreComparables
    <3>3. m4' = [Explained!Resting EXCEPT !.stage = "market", !.similar = all]
      BY <3>1
    <3> HIDE DEF all
    <3> QED BY <2>2, <3>2, <3>3, RestingHasType
  <2> QED BY <2>1, <2>2 DEF Explained!FindSimilar
<1>3. Explained!TypeOK'
  <2>1. m7' \subseteq Explained!Fact
    BY <1>1, <1>0 DEF Explained!OnRecord, Explained!Fact
  <2> QED BY <1>0, <1>1, <1>2, <2>1, RestingHasType, ShownTypesAfter DEF Explained!TypeOK
<1>4. Explained!RecordInv'
  BY <1>1 DEF Explained!ShownInv, Explained!RecordInv, Explained!OnRecord
<1>5. Explained!SimilarInv'
  <2>1. \A t : Explained!Retrieved(t)' = Explained!Retrieved(t)
    BY <1>1 DEF Explained!Retrieved, Explained!First, Explained!NoAward
  <2> QED BY <1>2, <2>1 DEF Explained!SimilarInv
<1>6. Explained!FactsInv'
  BY <1>2 DEF Explained!FactsInv
<1>7. Explained!BandInv'
  BY <1>2 DEF Explained!BandInv
<1>8. (Explained!ObservedWasOnRecord /\ Explained!SampleIsShown /\ Explained!BlindBandIsWarned)'
  <2>1. m5'.observed = {} /\ m5'.usable = {} /\ m5'.named = {} /\ m5'.predicted = {}
        /\ m5'.untraceable = 0
    BY <1>1 DEF Explained!NoAnswer
  <2>2. Explained!Cardinality({}) = 0
    BY ShownCardinality, FS_EmptySet
  <2>3. Explained!ObservedWasOnRecord'
    BY <2>1, <2>2 DEF Explained!ObservedWasOnRecord, Explained!Cardinality
  <2>4. Explained!SampleIsShown'
    BY <1>2 DEF Explained!SampleIsShown
  <2> QED BY <1>1, <2>3, <2>4 DEF Explained!BlindBandIsWarned, Explained!NoAnswer, Explained!NoField
<1> QED BY <1>3, <1>4, <1>5, <1>6, <1>7, <1>8 DEF Explained!ShownInv

\* The answer stands while a request is under way.
LEMMA AnswerStands ==
  ASSUME Explained!ShownInv, UNCHANGED <<m5, m7>>, m4'.stage # "off"
  PROVE  (Explained!ObservedWasOnRecord /\ Explained!SampleIsShown /\ Explained!BlindBandIsWarned)'
<1>1. Explained!ObservedWasOnRecord'
  BY DEF Explained!ShownInv, Explained!ObservedWasOnRecord, Explained!Cardinality
<1>2. Explained!SampleIsShown'
  BY DEF Explained!SampleIsShown
<1>3. Explained!BlindBandIsWarned'
  BY DEF Explained!ShownInv, Explained!BlindBandIsWarned
<1> QED BY <1>1, <1>2, <1>3

\* The market and the field are assessed.
LEMMA ExplainedBands ==
  ASSUME Explained!ShownInv, Explained!MarketQuantiles \/ Explained!CompetitorField
  PROVE  Explained!ShownInv'
<1>0. /\ Explained!TypeOK /\ m4 \in Explained!Request
      /\ m1 \in [ShownTenders -> SUBSET Explained!Rows]
  BY DEF Explained!ShownInv, Explained!TypeOK
<1>1. UNCHANGED <<m1, m2, m3, m5, m6, m7, m8>> /\ m4.stage \in {"market", "field"}
  BY DEF Explained!MarketQuantiles, Explained!CompetitorField
<1>2. /\ m4' \in Explained!Request /\ m4'.stage \in {"field", "facts"}
      /\ m4'.similar = m4.similar /\ m4'.facts = m4.facts
      /\ m4'.market = "priced" /\ ~m8 => Explained!Usable(m4.similar) # {}
      /\ \A v \in ShownVendors : m4'.field[v] # "none" => m4'.market = "priced"
  <2> USE DEF Explained!Request
  <2>1. CASE Explained!MarketQuantiles
    <3>1. PICK sample \in Explained!Sampled, market \in {"suppressed", "priced"} :
            /\ market = "priced" => sample # {}
            /\ m4' = [m4 EXCEPT !.stage = "field", !.market = market]
      BY <2>1 DEF Explained!MarketQuantiles
    <3>2. /\ m4' \in Explained!Request /\ m4'.stage = "field" /\ m4'.market = market
          /\ m4'.similar = m4.similar /\ m4'.facts = m4.facts /\ m4'.field = m4.field
      BY <1>0, <3>1
    <3>3. market = "priced" /\ ~m8 => Explained!Usable(m4.similar) # {}
      <4>1. CASE m4.similar # {}
        BY <3>1, <4>1 DEF Explained!Sampled
      <4>2. CASE m4.similar = {} /\ ~m8
        <5>1. PICK late \in SUBSET ShownTenders : sample = Explained!Usable(Explained!Candidates(late))
          BY <3>1, <4>2 DEF Explained!Sampled
        <5>2. ShownTenders = {}
          BY <2>1, <4>2 DEF Explained!ShownInv, Explained!SimilarInv, Explained!MarketQuantiles
        <5>3. sample = {}
          BY <5>1, <5>2 DEF Explained!Usable, Explained!Candidates
        <5> QED BY <3>1, <5>3
      <4> QED BY <4>1, <4>2
    <3>4. \A v \in ShownVendors : m4.field[v] = "none"
      BY <2>1 DEF Explained!ShownInv, Explained!BandInv, Explained!MarketQuantiles
    <3> QED BY <3>2, <3>3, <3>4
  <2>2. CASE Explained!CompetitorField
    <3>1. PICK field \in [ShownVendors -> Explained!Grades] :
            /\ \A v \in ShownVendors : field[v] # "none" => v \in m3 /\ m4.market = "priced"
            /\ m4' = [m4 EXCEPT !.stage = "facts", !.field = field]
      BY <2>2 DEF Explained!CompetitorField
    <3>2. /\ m4' \in Explained!Request /\ m4'.stage = "facts" /\ m4'.market = m4.market
          /\ m4'.similar = m4.similar /\ m4'.facts = m4.facts /\ m4'.field = field
      BY <1>0, <3>1
    <3> QED BY <3>1, <3>2 DEF Explained!ShownInv, Explained!BandInv
  <2> QED BY <2>1, <2>2
<1>3. Explained!TypeOK'
  BY <1>0, <1>1, <1>2, ShownTypesAfter DEF Explained!TypeOK
<1>4. Explained!RecordInv'
  BY <1>1 DEF Explained!ShownInv, Explained!RecordInv, Explained!OnRecord
<1>5. Explained!SimilarInv'
  <2>1. \A t : Explained!Retrieved(t)' = Explained!Retrieved(t)
    BY <1>1 DEF Explained!Retrieved, Explained!First, Explained!NoAward
  <2> QED BY <1>1, <1>2, <2>1 DEF Explained!ShownInv, Explained!SimilarInv
<1>6. Explained!FactsInv'
  BY <1>1, <1>2 DEF Explained!ShownInv, Explained!FactsInv, Explained!Usable
<1>7. Explained!BandInv'
  BY <1>1, <1>2 DEF Explained!BandInv, Explained!Usable
<1> QED BY <1>1, <1>2, <1>3, <1>4, <1>5, <1>6, <1>7, AnswerStands DEF Explained!ShownInv

\* The awards are read again.
LEMMA ExplainedFacts ==
  ASSUME Explained!ShownInv, Explained!ObservedComparables
  PROVE  Explained!ShownInv'
<1>0. /\ Explained!TypeOK /\ m4 \in Explained!Request
      /\ m1 \in [ShownTenders -> SUBSET Explained!Rows]
  BY DEF Explained!ShownInv, Explained!TypeOK
<1>1. UNCHANGED <<m1, m2, m3, m5, m6, m7>> /\ m4.stage = "facts"
  BY DEF Explained!ObservedComparables
<1> DEFINE usable == Explained!Usable(m4.similar)
           all == {[tender |-> s.tender, row |-> Explained!Cited(s.tender)] : s \in usable}
           facts == {f \in all : f.row.value # 0}
<1>2. usable \in SUBSET m4.similar /\ m4.similar \in SUBSET Explained!Comparable
  BY <1>0 DEF Explained!Usable, Explained!Request
<1>3. \A s \in usable : s.tender \in ShownTenders /\ s.value # 0
  BY <1>2 DEF Explained!Comparable, Explained!Usable
<1>4. \A f \in facts : \E s \in usable : f.tender = s.tender /\ f.row = Explained!Cited(s.tender)
                                       /\ f = [tender |-> s.tender, row |-> Explained!Cited(s.tender)]
  OBVIOUS
<1>5. facts \subseteq Explained!OnRecord(m1)
  <2> SUFFICES ASSUME NEW f \in facts PROVE f \in Explained!OnRecord(m1)
    OBVIOUS
  <2>1. PICK s \in usable : f = [tender |-> s.tender, row |-> Explained!Cited(s.tender)]
    BY <1>4
  <2>2. Explained!Cited(s.tender).value # 0 /\ s.tender \in ShownTenders
    BY <1>3, <2>1
  <2>3. Explained!Cited(s.tender) \in m1[s.tender]
    BY <1>0, <2>2, RetrievedIsARow
  <2> HIDE DEF facts, all, usable
  <2> QED BY <2>1, <2>2, <2>3 DEF Explained!OnRecord
<1>6. \A f, g \in facts : f.tender = g.tender => f = g
  BY <1>4
<1>7. ~m8 => facts = all
  <2> SUFFICES ASSUME ~m8, NEW s \in usable PROVE Explained!Cited(s.tender).value # 0
    OBVIOUS
  <2>1. s.value = Explained!Retrieved(s.tender).value
    BY <1>1, <1>2 DEF Explained!ShownInv, Explained!SimilarInv
  <2>2. Explained!Retrieved(s.tender) = Explained!Cited(s.tender)
    BY <1>0, <1>3, RetrievedIsARow
  <2> QED BY <1>3, <2>1, <2>2
<1>8. Explained!OnRecord(m1) \subseteq m7 /\ m7 \subseteq Explained!Fact
  BY DEF Explained!ShownInv, Explained!RecordInv, Explained!TypeOK
<1>9. /\ m4' \in Explained!Request /\ m4'.stage = "vendors" /\ m4'.market = m4.market
      /\ m4'.similar = m4.similar /\ m4'.field = m4.field
      /\ \/ m4'.facts = facts /\ m8' = m8
         \/ m4'.facts = m4.facts /\ m8' = TRUE
  <2> USE DEF Explained!Request
  <2>1. CASE m4' = [m4 EXCEPT !.stage = "vendors", !.facts = facts] /\ m8' = m8
    <3>1. facts \in SUBSET Explained!Fact
      BY <1>5, <1>8
    <3> HIDE DEF facts
    <3> QED BY <1>0, <2>1, <3>1
  <2>2. CASE m4' = [m4 EXCEPT !.stage = "vendors"] /\ m8' = TRUE
    BY <1>0, <2>2
  <2> QED BY <2>1, <2>2 DEF Explained!ObservedComparables
<1>10. Explained!TypeOK'
  <2>1. m8' \in BOOLEAN
    BY <1>0, <1>9 DEF Explained!TypeOK
  <2> QED BY <1>0, <1>1, <1>9, <2>1, ShownTypesAfter DEF Explained!TypeOK
<1>11. Explained!RecordInv'
  BY <1>1 DEF Explained!ShownInv, Explained!RecordInv, Explained!OnRecord
<1>12. Explained!SimilarInv'
  <2>1. \A t : Explained!Retrieved(t)' = Explained!Retrieved(t)
    BY <1>1 DEF Explained!Retrieved, Explained!First, Explained!NoAward
  <2>2. ~m8' => ~m8
    BY <1>9
  <2> QED BY <1>1, <1>9, <2>1, <2>2 DEF Explained!ShownInv, Explained!SimilarInv
<1>13. Explained!FactsInv'
  <2>1. Explained!Usable(m4.similar)' = usable
    BY <1>9 DEF Explained!Usable
  <2>2. \A t : Explained!Cited(t)' = Explained!Cited(t)
    BY <1>1 DEF Explained!Cited, Explained!First, Explained!NoAward
  <2>3. CASE m4'.facts = facts /\ m8' = m8
    <3>1. \A f \in facts : \E s \in usable : s.tender = f.tender
      BY <1>4
    <3>2. facts \subseteq m7
      BY <1>5, <1>8
    <3>3. ~m8 => facts = {[tender |-> s.tender, row |-> Explained!Cited(s.tender)'] : s \in usable}
      BY <1>7, <2>2
    <3> HIDE DEF facts, usable, all
    <3> QED BY <1>1, <1>6, <2>1, <2>3, <3>1, <3>2, <3>3 DEF Explained!FactsInv
  <2>4. CASE m4'.facts = m4.facts /\ m8' = TRUE
    BY <1>1, <2>1, <2>4 DEF Explained!ShownInv, Explained!FactsInv
  <2> QED BY <1>9, <2>3, <2>4
<1>14. Explained!BandInv'
  BY <1>1, <1>9 DEF Explained!ShownInv, Explained!BandInv, Explained!Usable
<1> QED BY <1>1, <1>9, <1>10, <1>11, <1>12, <1>13, <1>14, AnswerStands DEF Explained!ShownInv

\* The answer is given.
LEMMA ExplainedBuild ==
  ASSUME Explained!ShownInv, Explained!BuildExplanation
  PROVE  Explained!ShownInv'
<1>0. /\ Explained!TypeOK /\ m4 \in Explained!Request /\ m3 \subseteq ShownVendors
  BY DEF Explained!ShownInv, Explained!TypeOK
<1> DEFINE usable == Explained!Usable(m4.similar)
           facts == m4.facts
           used == Explained!Cardinality(facts)
           untraceable == Explained!Cardinality(usable) - used
           excluded == Explained!Cardinality({s \in m4.similar : s.excluded})
           predicted == Explained!Predicted
           warnings == Explained!Warnings(untraceable, used)
<1>1. UNCHANGED <<m1, m2, m3, m6, m7, m8>> /\ m4.stage = "vendors" /\ m4' = Explained!Resting
  BY DEF Explained!BuildExplanation
<1>2. PICK named \in {{}, m3 \ Explained!Graded("none")} :
        m5' = [observed |-> facts, named |-> named, untraceable |-> untraceable,
               used |-> used, excluded |-> excluded, predicted |-> predicted,
               warnings |-> warnings, usable |-> usable, field |-> m4.field]
  BY DEF Explained!BuildExplanation
<1>3. /\ m4.similar \in SUBSET Explained!Comparable /\ usable \in SUBSET m4.similar
      /\ \A s, r \in m4.similar : s.tender = r.tender => s = r
      /\ facts \in SUBSET Explained!Fact /\ facts \subseteq m7
      /\ \A f \in facts : \E s \in usable : s.tender = f.tender
      /\ \A f, g \in facts : f.tender = g.tender => f = g
  BY <1>0 DEF Explained!ShownInv, Explained!SimilarInv, Explained!FactsInv, Explained!Request,
              Explained!Usable
<1>4. /\ ~m8 => facts = {[tender |-> s.tender, row |-> Explained!Cited(s.tender)] : s \in usable}
      /\ ~m8 => \A s \in usable : s.value = Explained!Cited(s.tender).value
  <2>1. ~m8 => facts = {[tender |-> s.tender, row |-> Explained!Cited(s.tender)] : s \in usable}
    BY <1>1 DEF Explained!ShownInv, Explained!FactsInv
  <2>2. ~m8 => \A s \in m4.similar : s.value = Explained!Retrieved(s.tender).value
    BY <1>1 DEF Explained!ShownInv, Explained!SimilarInv
  <2>3. \A t \in ShownTenders : Explained!Retrieved(t) = Explained!Cited(t)
    BY RetrievedIsARow DEF Explained!ShownInv, Explained!TypeOK
  <2> HIDE DEF usable, facts
  <2> QED BY <1>3, <2>1, <2>2, <2>3 DEF Explained!Comparable
<1>5. /\ m4.market = "priced" /\ ~m8 => usable # {}
      /\ \A v \in ShownVendors : m4.field[v] # "none" => m4.market = "priced"
      /\ m4.field \in [ShownVendors -> Explained!Grades] /\ m4.market \in {"suppressed", "priced"}
  BY <1>0 DEF Explained!ShownInv, Explained!BandInv, Explained!Request
<1>6. /\ IsFiniteSet(m4.similar) /\ IsFiniteSet(usable) /\ IsFiniteSet(facts)
      /\ Cardinality(facts) <= Cardinality(usable)
  <2> DEFINE ofTender == [s \in m4.similar |-> s.tender]
             behind == [f \in facts |-> CHOOSE s \in usable : s.tender = f.tender]
  <2>1. ofTender \in Injection(m4.similar, ShownTenders)
    <3>1. ofTender \in [m4.similar -> ShownTenders]
      BY <1>3 DEF Explained!Comparable
    <3>2. \A s, r \in m4.similar : ofTender[s] = ofTender[r] => s = r
      BY <1>3
    <3> HIDE DEF ofTender
    <3> QED BY <3>1, <3>2 DEF Injection, IsInjective
  <2>2. IsFiniteSet(m4.similar)
    BY <2>1, ShownAssumption, FS_Injection
  <2>3. IsFiniteSet(usable)
    BY <1>3, <2>2, FS_Subset
  <2>4. behind \in Injection(facts, usable)
    <3>1. \A f \in facts : behind[f] \in usable /\ behind[f].tender = f.tender
      BY <1>3
    <3>2. behind \in [facts -> usable]
      BY <3>1
    <3> HIDE DEF behind
    <3> QED BY <1>3, <3>1, <3>2 DEF Injection, IsInjective
  <2> HIDE DEF behind, ofTender, usable, facts
  <2> QED BY <2>2, <2>3, <2>4, FS_Injection
<1>7. /\ used \in Nat /\ used = Cardinality(facts) /\ Explained!Cardinality(usable) \in Nat
      /\ untraceable \in Nat /\ excluded \in Nat /\ (used = 0 <=> facts = {})
  <2>1. Cardinality(facts) \in Nat /\ Cardinality(usable) \in Nat
        /\ (Cardinality(facts) = 0 <=> facts = {})
    BY <1>6, FS_CardinalityType, FS_EmptySet
  <2>2. Cardinality({s \in m4.similar : s.excluded}) \in Nat
    <3>1. IsFiniteSet({s \in m4.similar : s.excluded})
      BY <1>6, FS_Subset
    <3> QED BY <3>1, FS_CardinalityType
  <2>3. used = Cardinality(facts) /\ Explained!Cardinality(usable) = Cardinality(usable)
        /\ excluded = Cardinality({s \in m4.similar : s.excluded})
    BY ShownCardinality
  <2> HIDE DEF usable, facts, excluded
  <2> QED BY <1>6, <2>1, <2>2, <2>3
<1>8. /\ predicted \in SUBSET ({"market"} \cup ShownVendors)
      /\ m4.market = "priced" => "market" \in predicted
      /\ m4.market # "priced" => predicted = {}
  BY <1>5 DEF Explained!Predicted, Explained!Graded
<1>9. /\ warnings \in SUBSET {"no number", "untraceable", "thin", "no comparables", "competitors"}
      /\ used = 0 => "no comparables" \in warnings
      /\ m4.market = "suppressed" => "no number" \in warnings
  BY DEF Explained!Warnings
<1>10. /\ named \in SUBSET ShownVendors /\ \A v \in named : m4.field[v] # "none"
  BY <1>0, <1>2 DEF Explained!Graded
<1> HIDE DEF usable, facts, untraceable, excluded, predicted, warnings
<1>11. Explained!TypeOK'
  <2>1. m5' \in Explained!Explanations
    <3>1. usable \in SUBSET Explained!Comparable
      BY <1>3
    <3> HIDE DEF used
    <3> QED BY <1>2, <1>3, <1>5, <1>7, <1>8, <1>9, <1>10, <3>1 DEF Explained!Explanations
  <2> QED BY <1>0, <1>1, <2>1, RestingHasType, ShownTypesAfter DEF Explained!TypeOK
<1>12. Explained!RecordInv'
  BY <1>1 DEF Explained!ShownInv, Explained!RecordInv, Explained!OnRecord
<1>13. Explained!SimilarInv'
  BY <1>1, RestingHasType DEF Explained!SimilarInv
<1>14. Explained!FactsInv'
  BY <1>1, RestingHasType DEF Explained!FactsInv
<1>15. Explained!BandInv'
  BY <1>1, RestingHasType DEF Explained!BandInv
<1>16. Explained!ObservedWasOnRecord'
  <2>1. /\ m5'.observed = facts /\ m5'.usable = usable /\ m5'.untraceable = untraceable
        /\ m5'.named = named /\ m5'.field = m4.field
    BY <1>2
  <2>2. Cardinality(facts) + untraceable = Explained!Cardinality(usable)
    BY <1>7 DEF untraceable
  <2>3. Explained!Cardinality(facts) = Cardinality(facts)
    BY ShownCardinality
  <2>4. /\ facts \subseteq m7
        /\ \A f \in facts : \E s \in usable : s.tender = f.tender
    BY <1>3 DEF facts, usable
  <2> QED BY <1>1, <1>10, <2>1, <2>2, <2>3, <2>4
          DEF Explained!ObservedWasOnRecord, Explained!Cardinality
<1>17. Explained!SampleIsShown'
  <2>1. /\ m5'.observed = facts /\ m5'.usable = usable /\ m5'.predicted = predicted
    BY <1>2
  <2>2. ASSUME ~m8
        PROVE  /\ {[tender |-> f.tender, value |-> f.row.value] : f \in facts}
                    = {[tender |-> s.tender, value |-> s.value] : s \in usable}
               /\ "market" \in predicted => facts # {}
    <3>1. facts = {[tender |-> s.tender, row |-> Explained!Cited(s.tender)] : s \in usable}
      BY <1>4, <2>2
    <3>2. \A s \in usable : s.value = Explained!Cited(s.tender).value
      BY <1>4, <2>2
    <3>3. {[tender |-> f.tender, value |-> f.row.value] : f \in facts}
            = {[tender |-> s.tender, value |-> s.value] : s \in usable}
      <4> DEFINE fact(s) == [tender |-> s.tender, row |-> Explained!Cited(s.tender)]
                 shown(f) == [tender |-> f.tender, value |-> f.row.value]
                 sampled(s) == [tender |-> s.tender, value |-> s.value]
      <4>1. \A s \in usable : shown(fact(s)) = sampled(s)
        BY <3>2
      <4>2. facts = {fact(s) : s \in usable}
        BY <3>1
      <4> HIDE DEF fact, shown, sampled
      <4>3. {shown(f) : f \in facts} = {sampled(s) : s \in usable}
        BY <4>1, <4>2
      <4> QED BY <4>3 DEF shown, sampled
    <3>4. "market" \in predicted => usable # {}
      BY <1>5, <1>8, <2>2
    <3>5. usable # {} => facts # {}
      BY <3>1
    <3> QED BY <3>3, <3>4, <3>5
  <2>3. ~m8' => ~m8
    BY <1>1
  <2> QED BY <2>1, <2>2, <2>3 DEF Explained!SampleIsShown
<1>18. Explained!BlindBandIsWarned'
  <2>1. /\ m5'.observed = facts /\ m5'.warnings = warnings /\ m5'.predicted = predicted
    BY <1>2
  <2>2. facts = {} => "no comparables" \in warnings
    BY <1>7, <1>9
  <2>3. "market" \notin predicted => "no number" \in warnings /\ predicted = {}
    BY <1>5, <1>8, <1>9
  <2> QED BY <2>1, <2>2, <2>3 DEF Explained!BlindBandIsWarned
<1> QED BY <1>11, <1>12, <1>13, <1>14, <1>15, <1>16, <1>17, <1>18 DEF Explained!ShownInv

\* A step of the request, or of the jobs beside it, keeps the invariant.
LEMMA ExplainedStep ==
  ASSUME Explained!ShownInv, Explained!Next \/ UNCHANGED Explained!vars
  PROVE  Explained!ShownInv'
<1>1. CASE UNCHANGED Explained!vars
  <2>1. UNCHANGED <<m1, m2, m3, m4, m5, m6, m7, m8>>
    BY <1>1 DEF Explained!vars
  <2>2. Explained!TypeOK'
    BY <2>1, ShownTypesAfter DEF Explained!ShownInv, Explained!TypeOK
  <2>3. \A t : /\ Explained!Retrieved(t)' = Explained!Retrieved(t)
               /\ Explained!Cited(t)' = Explained!Cited(t)
    BY <2>1 DEF Explained!Retrieved, Explained!Cited, Explained!First, Explained!NoAward
  <2>4. (Explained!RecordInv /\ Explained!SimilarInv)'
    BY <2>1, <2>3
       DEF Explained!ShownInv, Explained!RecordInv, Explained!SimilarInv, Explained!OnRecord
  <2>5. (Explained!FactsInv /\ Explained!BandInv)'
    BY <2>1, <2>3
       DEF Explained!ShownInv, Explained!FactsInv, Explained!BandInv, Explained!Usable
  <2>6. Explained!ObservedWasOnRecord'
    BY <2>1 DEF Explained!ShownInv, Explained!ObservedWasOnRecord, Explained!Cardinality
  <2>7. (Explained!SampleIsShown /\ Explained!BlindBandIsWarned)'
    BY <2>1 DEF Explained!ShownInv, Explained!SampleIsShown, Explained!BlindBandIsWarned,
                Explained!NoAnswer, Explained!NoField
  <2> QED BY <2>2, <2>4, <2>5, <2>6, <2>7 DEF Explained!ShownInv
<1>2. CASE Explained!Next
  BY <1>2, ExplainedHarvest, ExplainedMerge, ExplainedFind, ExplainedBands, ExplainedFacts,
     ExplainedBuild DEF Explained!Next
<1> QED BY <1>1, <1>2

-----------------------------------------------------------------------------
(***************************************************************************)
(* BoqReview: a sheet and its mirror image have the same findings, but for *)
(* what the matcher of texts adds.  m1 and m2 are sheet and findings.      *)
(***************************************************************************)
Parsed(L) ==
  /\ L \in Seq(Review!Line)
  /\ \A i \in DOMAIN L : IsFiniteSet(L[i].words) /\ IsFiniteSet(L[i].short)

\* What the instance calls a cardinality is one.
LEMMA ReviewCardinality == \A S : Review!Cardinality(S) = Cardinality(S)
  BY DEF Review!Cardinality, Cardinality

\* The total of a set of lines is their sum.
LEMMA TotalIsSum ==
  ASSUME NEW L \in Seq(Review!Line), NEW A \in SUBSET DOMAIN L
  PROVE  /\ IsFiniteSet(A) /\ [i \in A |-> L[i].total] \in [A -> Int]
         /\ \E g : IsSum(g, [i \in A |-> L[i].total], A) /\ Review!SumOf(L, A) = g[A]
<1> DEFINE f == [i \in A |-> L[i].total]
           c == [s \in SUBSET A |-> CHOOSE x \in s : TRUE]
           Sum(g) == [s \in SUBSET A |-> IF s = {} THEN 0
                        ELSE L[CHOOSE x \in s : TRUE].total + g[s \ {CHOOSE x \in s : TRUE}]]
           Fold(g) == [s \in SUBSET A |-> IF s = {} THEN 0 ELSE f[c[s]] + g[s \ {c[s]}]]
<1>1. IsFiniteSet(A)
  <2>1. DOMAIN L = 1..Len(L) /\ Len(L) \in Int /\ 1 \in Int
    OBVIOUS
  <2>2. IsFiniteSet(1..Len(L))
    BY <2>1, FS_Interval
  <2> QED BY <2>1, <2>2, FS_Subset
<1>2. f \in [A -> Int]
  <2>1. \A i \in A : L[i] \in Review!Line
    OBVIOUS
  <2>2. \A i \in A : L[i].total \in Int
    BY <2>1 DEF Review!Line, Review!Amount, Review!None
  <2> QED BY <2>2
<1>3. Picks(c, A)
  BY DEF Picks
<1>4. \A s \in SUBSET A : s # {} => c[s] \in A /\ f[c[s]] = L[CHOOSE x \in s : TRUE].total
                                    /\ c[s] = CHOOSE x \in s : TRUE
  OBVIOUS
<1>5. ASSUME NEW g PROVE Sum(g) = Fold(g)
  <2>1. ASSUME NEW s \in SUBSET A
        PROVE  (IF s = {} THEN 0 ELSE L[CHOOSE x \in s : TRUE].total + g[s \ {CHOOSE x \in s : TRUE}])
                 = (IF s = {} THEN 0 ELSE f[c[s]] + g[s \ {c[s]}])
    BY <1>4
  <2> HIDE DEF f, c
  <2> QED BY <2>1
<1>6. PICK g : SumFold(g, f, c, A) /\ IsSum(g, f, A)
  <2> HIDE DEF f, c
  <2> QED BY <1>1, <1>2, <1>3, SumExists
<1> DEFINE h == CHOOSE h : h = Sum(h)
<1>7. h = Sum(h)
  <2>1. g = Sum(g)
    BY <1>5, <1>6 DEF SumFold
  <2> HIDE DEF Sum
  <2> QED BY <2>1
<1>8. h = g
  <2>1. SumFold(h, f, c, A)
    BY <1>5, <1>7 DEF SumFold
  <2> HIDE DEF h, f, c
  <2> QED BY <1>1, <1>3, <1>6, <2>1, SumIsUnique
<1>9. Review!SumOf(L, A) = h[A]
  BY Zenon DEF Review!SumOf, Review!MapThenSumSet, Review!MapThenFoldSet
<1> HIDE DEF h, f, c
<1>10. IsSum(g, f, A) /\ Review!SumOf(L, A) = g[A]
  BY <1>6, <1>8, <1>9
<1>11. IsFiniteSet(A) /\ f \in [A -> Int] /\ \E k : IsSum(k, f, A) /\ Review!SumOf(L, A) = k[A]
  BY <1>1, <1>2, <1>10
<1> QED BY <1>11 DEF f

\* The mirror image of a sheet: its lines, from the last to the first.
Opposite(L, i) == Len(L) + 1 - i
MirrorOf(L, of) == {Opposite(L, i) : i \in of}

\* A sheet read backwards: line by line the opposite one, and backwards again the sheet.
LEMMA MirrorImage ==
  ASSUME NEW L, Parsed(L)
  PROVE  /\ Parsed(Review!Backwards(L)) /\ Len(Review!Backwards(L)) = Len(L)
         /\ DOMAIN L = 1..Len(L) /\ DOMAIN Review!Backwards(L) = 1..Len(L) /\ Len(L) \in Nat
         /\ \A i \in 1..Len(L) :
              /\ Opposite(L, i) \in 1..Len(L) /\ Opposite(L, Opposite(L, i)) = i
              /\ L[i] \in Review!Line /\ Review!Backwards(L)[i] = L[Opposite(L, i)]
              /\ Review!Backwards(L)[Opposite(L, i)] = L[i]
         /\ Review!Backwards(Review!Backwards(L)) = L
<1> DEFINE n == Len(L)
           B == Review!Backwards(L)
<1>1. /\ n \in Nat /\ DOMAIN L = 1..n /\ L \in [1..n -> Review!Line]
      /\ \A i \in 1..n : L[i] \in Review!Line /\ IsFiniteSet(L[i].words) /\ IsFiniteSet(L[i].short)
  BY DEF Parsed
<1>2. \A i \in 1..n : Opposite(L, i) \in 1..n /\ Opposite(L, Opposite(L, i)) = i
  BY <1>1 DEF Opposite
<1>0. Review!Len(L) = n
  BY DEF Review!Len, Len
<1>3. B = [i \in 1..n |-> L[Opposite(L, i)]]
  BY <1>0, <1>1 DEF Review!Backwards, Opposite
<1> HIDE DEF B
<1>4. B \in [1..n -> Review!Line] /\ DOMAIN B = 1..n
  BY <1>1, <1>2, <1>3
<1>5. B \in Seq(Review!Line)
  BY <1>1, <1>4
<1>6. Len(B) = n
  BY <1>1, <1>4, <1>5
<1>7. Parsed(B)
  BY <1>1, <1>2, <1>3, <1>4, <1>5 DEF Parsed
<1>8. \A i \in 1..n : B[i] = L[Opposite(L, i)] /\ B[Opposite(L, i)] = L[i]
  BY <1>2, <1>3
<1>9. Review!Backwards(B) = L
  <2>1. Review!Len(B) = n
    BY <1>6 DEF Review!Len, Len
  <2>2. Review!Backwards(B) = [i \in 1..n |-> B[n + 1 - i]]
    BY <1>4, <2>1 DEF Review!Backwards
  <2>3. \A i \in 1..n : B[n + 1 - i] = L[i]
    BY <1>8 DEF Opposite
  <2>4. L = [i \in 1..n |-> L[i]]
    BY <1>1
  <2> QED BY <2>2, <2>3, <2>4
<1> QED BY <1>1, <1>2, <1>6, <1>7, <1>4, <1>8, <1>9 DEF B

\* A mirror image has the same findings of a rule: one for each of them, of the mirrored lines.
Mirrored(F, G, L) ==
  \A f \in F : \E g \in G : g.rule = f.rule /\ f.of = MirrorOf(L, g.of) /\ g.of = MirrorOf(L, f.of)

\* Of one line and of two.
LEMMA MirrorOfFew ==
  \A L, a, b : /\ MirrorOf(L, {a, b}) = {Opposite(L, a), Opposite(L, b)}
              /\ MirrorOf(L, {a}) = {Opposite(L, a)}
<1>1. \A L, a, b : MirrorOf(L, {a, b}) = {Opposite(L, a), Opposite(L, b)}
  BY DEF MirrorOf
<1>2. \A a : {a, a} = {a}
  OBVIOUS
<1> QED BY <1>1, <1>2

\* A rule that looks at a line alone does not see the order.
LEMMA LineRulesAreMirrored ==
  ASSUME NEW L, Parsed(L)
  PROVE  /\ Mirrored(Review!Mismatches(L), Review!Mismatches(Review!Backwards(L)), L)
         /\ Mirrored(Review!Unrounded(L), Review!Unrounded(Review!Backwards(L)), L)
         /\ Mirrored(Review!TextNumbers(L), Review!TextNumbers(Review!Backwards(L)), L)
         /\ Mirrored(Review!Unspecified(L), Review!Unspecified(Review!Backwards(L)), L)
<1> DEFINE B == Review!Backwards(L)
<1>1. /\ DOMAIN L = 1..Len(L) /\ DOMAIN B = 1..Len(L)
      /\ \A i \in 1..Len(L) : Opposite(L, i) \in DOMAIN B /\ B[Opposite(L, i)] = L[i]
  BY MirrorImage
<1> HIDE DEF B
<1>2. ASSUME NEW rule, NEW i \in 1..Len(L)
      PROVE  LET f == Review!OnLine(rule, i)
                 g == Review!OnLine(rule, Opposite(L, i))
             IN g.rule = f.rule /\ f.of = MirrorOf(L, g.of) /\ g.of = MirrorOf(L, f.of)
  <2>1. Opposite(L, Opposite(L, i)) = i
    BY MirrorImage
  <2>2. MirrorOf(L, {i}) = {Opposite(L, i)} /\ MirrorOf(L, {Opposite(L, i)}) = {i}
    BY <2>1, MirrorOfFew
  <2> QED BY <2>2 DEF Review!OnLine, Review!Finding
<1>3. Mirrored(Review!Mismatches(L), Review!Mismatches(B), L)
  <2> SUFFICES ASSUME NEW f \in Review!Mismatches(L)
               PROVE  \E g \in Review!Mismatches(B) :
                        g.rule = f.rule /\ f.of = MirrorOf(L, g.of) /\ g.of = MirrorOf(L, f.of)
    BY DEF Mirrored
  <2>1. PICK i \in DOMAIN L : /\ f = Review!OnLine("arithmetic_mismatch", i)
                             /\ Review!None \notin {L[i].qty, L[i].price, L[i].total}
                             /\ Review!Distance(L[i].qty * L[i].price, L[i].total) > ReviewTolerance
    BY DEF Review!Mismatches
  <2>2. Review!OnLine("arithmetic_mismatch", Opposite(L, i)) \in Review!Mismatches(B)
    BY <1>1, <2>1 DEF Review!Mismatches
  <2> QED BY <1>1, <1>2, <2>1, <2>2
<1>4. Mirrored(Review!Unrounded(L), Review!Unrounded(B), L)
  <2> SUFFICES ASSUME NEW f \in Review!Unrounded(L)
               PROVE  \E g \in Review!Unrounded(B) :
                        g.rule = f.rule /\ f.of = MirrorOf(L, g.of) /\ g.of = MirrorOf(L, f.of)
    BY DEF Mirrored
  <2>1. PICK i \in DOMAIN L : /\ f = Review!OnLine("unrounded_unit_price", i)
                             /\ L[i].price # Review!None /\ L[i].uneven
    BY DEF Review!Unrounded
  <2>2. Review!OnLine("unrounded_unit_price", Opposite(L, i)) \in Review!Unrounded(B)
    BY <1>1, <2>1 DEF Review!Unrounded
  <2> QED BY <1>1, <1>2, <2>1, <2>2
<1>5. Mirrored(Review!TextNumbers(L), Review!TextNumbers(B), L)
  <2> SUFFICES ASSUME NEW f \in Review!TextNumbers(L)
               PROVE  \E g \in Review!TextNumbers(B) :
                        g.rule = f.rule /\ f.of = MirrorOf(L, g.of) /\ g.of = MirrorOf(L, f.of)
    BY DEF Mirrored
  <2>1. PICK i \in DOMAIN L : f = Review!OnLine("text_number", i) /\ L[i].text
    BY DEF Review!TextNumbers
  <2>2. Review!OnLine("text_number", Opposite(L, i)) \in Review!TextNumbers(B)
    BY <1>1, <2>1 DEF Review!TextNumbers
  <2> QED BY <1>1, <1>2, <2>1, <2>2
<1>6. Mirrored(Review!Unspecified(L), Review!Unspecified(B), L)
  <2> SUFFICES ASSUME NEW f \in Review!Unspecified(L)
               PROVE  \E g \in Review!Unspecified(B) :
                        g.rule = f.rule /\ f.of = MirrorOf(L, g.of) /\ g.of = MirrorOf(L, f.of)
    BY DEF Mirrored
  <2>1. PICK i \in DOMAIN L : f = Review!OnLine("missing_spec", i) /\ ~L[i].spec
    BY DEF Review!Unspecified
  <2>2. Review!OnLine("missing_spec", Opposite(L, i)) \in Review!Unspecified(B)
    BY <1>1, <2>1 DEF Review!Unspecified
  <2> QED BY <1>1, <1>2, <2>1, <2>2
<1> QED BY <1>3, <1>4, <1>5, <1>6 DEF B

\* Two lines of one description are two such lines in the mirror image.
LEMMA DuplicatesAreMirrored ==
  ASSUME NEW L, Parsed(L)
  PROVE  Mirrored(Review!Duplicates(L), Review!Duplicates(Review!Backwards(L)), L)
<1> DEFINE B == Review!Backwards(L)
<1>1. /\ DOMAIN L = 1..Len(L) /\ DOMAIN B = 1..Len(L) /\ Len(L) \in Nat
      /\ \A i \in 1..Len(L) : Opposite(L, i) \in 1..Len(L) /\ B[Opposite(L, i)] = L[i]
  BY MirrorImage
<1> HIDE DEF B
<1> SUFFICES ASSUME NEW f \in Review!Duplicates(L)
             PROVE  \E g \in Review!Duplicates(B) :
                      g.rule = f.rule /\ f.of = MirrorOf(L, g.of) /\ g.of = MirrorOf(L, f.of)
  BY DEF Mirrored, B
<1> DEFINE Alike(a, b) ==
      /\ a.key = b.key /\ a.key # ""
      /\ Review!None \notin {a.price, b.price} /\ a.price # b.price
<1>2. PICK p \in Review!Pairs(L) : /\ f = Review!Finding("duplicate_description", p[1], {p[1], p[2]})
                                   /\ Alike(L[p[1]], L[p[2]])
  BY DEF Review!Duplicates
<1> DEFINE i == p[1]
           j == p[2]
           g == Review!Finding("duplicate_description", Opposite(L, j), {Opposite(L, j), Opposite(L, i)})
<1>3. i \in 1..Len(L) /\ j \in 1..Len(L) /\ i < j
  BY <1>1 DEF Review!Pairs
<1>4. Alike(L[j], L[i])
  BY <1>2
<1> HIDE DEF Alike
<1>5. <<Opposite(L, j), Opposite(L, i)>> \in Review!Pairs(B)
  <2>1. Opposite(L, j) \in DOMAIN B /\ Opposite(L, i) \in DOMAIN B
    BY <1>1, <1>3
  <2>2. Opposite(L, j) < Opposite(L, i)
    BY <1>1, <1>3 DEF Opposite
  <2> HIDE DEF i, j
  <2> QED BY <2>1, <2>2 DEF Review!Pairs
<1>6. Alike(B[Opposite(L, j)], B[Opposite(L, i)])
  BY <1>1, <1>3, <1>4
<1>7. g \in Review!Duplicates(B)
  <2> DEFINE q == <<Opposite(L, j), Opposite(L, i)>>
  <2> HIDE DEF i, j
  <2>1. q[1] = Opposite(L, j) /\ q[2] = Opposite(L, i)
    OBVIOUS
  <2>2. g = Review!Finding("duplicate_description", q[1], {q[1], q[2]})
    BY <2>1
  <2>3. q \in Review!Pairs(B) /\ Alike(B[q[1]], B[q[2]])
    BY <1>5, <1>6, <2>1
  <2> HIDE DEF q, g
  <2> QED BY <2>2, <2>3 DEF Review!Duplicates, Alike
<1>8. g.rule = f.rule /\ f.of = MirrorOf(L, g.of) /\ g.of = MirrorOf(L, f.of)
  <2>1. f.rule = "duplicate_description" /\ f.of = {j, i}
    BY <1>2 DEF Review!Finding
  <2>2. g.rule = "duplicate_description" /\ g.of = {Opposite(L, j), Opposite(L, i)}
    BY DEF Review!Finding
  <2>3. /\ MirrorOf(L, {j, i}) = {Opposite(L, j), Opposite(L, i)}
        /\ MirrorOf(L, {Opposite(L, j), Opposite(L, i)}) = {j, i}
    <3> HIDE DEF i, j
    <3>1. Opposite(L, Opposite(L, i)) = i /\ Opposite(L, Opposite(L, j)) = j
      BY <1>3, MirrorImage
    <3> QED BY <3>1, MirrorOfFew
  <2> HIDE DEF g, i, j
  <2> QED BY <2>1, <2>2, <2>3
<1> QED BY <1>7, <1>8

\* Lines are matched one to one with their mirror images.
LEMMA MirrorMatches ==
  ASSUME NEW L, Parsed(L), NEW X \in SUBSET (1..Len(L)), NEW Y \in SUBSET (1..Len(L)),
         \A i \in 1..Len(L) : i \in X <=> Opposite(L, i) \in Y
  PROVE  /\ [i \in X |-> Opposite(L, i)] \in Bijection(X, Y)
         /\ Cardinality(X) = Cardinality(Y)
<1> DEFINE n == Len(L)
           m == [i \in X |-> Opposite(L, i)]
<1>1. n \in Nat /\ \A i \in 1..n : Opposite(L, i) \in 1..n /\ Opposite(L, Opposite(L, i)) = i
  BY MirrorImage
<1>2. m \in [X -> Y]
  OBVIOUS
<1>3. \A i, j \in X : m[i] = m[j] => i = j
  BY <1>1
<1>4. \A j \in Y : \E i \in X : m[i] = j
  <2> SUFFICES ASSUME NEW j \in Y PROVE \E i \in X : m[i] = j
    OBVIOUS
  <2>1. Opposite(L, j) \in X
    BY <1>1
  <2>2. m[Opposite(L, j)] = j
    BY <1>1, <2>1
  <2> QED BY <2>1, <2>2
<1>5. m \in Bijection(X, Y)
  <2> HIDE DEF m
  <2> QED BY <1>2, <1>3, <1>4 DEF Bijection, Injection, IsInjective, Surjection
<1>6. IsFiniteSet(X)
  <2>1. 1 \in Int /\ n \in Int
    BY <1>1
  <2>2. IsFiniteSet(1..n)
    BY <2>1, FS_Interval
  <2> QED BY <2>2, FS_Subset
<1>7. Cardinality(X) = Cardinality(Y)
  BY <1>5, <1>6, FS_Bijection DEF ExistsBijection
<1> QED BY <1>5, <1>7

\* A word is boilerplate in both.
LEMMA BoilerplateIsMirrored ==
  ASSUME NEW L, Parsed(L)
  PROVE  Review!Boilerplate(Review!Backwards(L)) = Review!Boilerplate(L)
<1> DEFINE B == Review!Backwards(L)
           n == Len(L)
           W(M) == {i \in DOMAIN M : M[i].key # ""}
           With(M, w) == {i \in W(M) : w \in M[i].words}
<1>1. /\ DOMAIN L = 1..n /\ DOMAIN B = 1..n /\ n \in Nat
      /\ \A i \in 1..n : Opposite(L, i) \in 1..n /\ Opposite(L, Opposite(L, i)) = i
                        /\ B[Opposite(L, i)] = L[i] /\ B[i] = L[Opposite(L, i)]
  BY MirrorImage
<1> HIDE DEF B, n
<1>2. ASSUME NEW X \in SUBSET (1..n), NEW Y \in SUBSET (1..n),
             \A i \in 1..n : i \in X <=> Opposite(L, i) \in Y
      PROVE  Cardinality(X) = Cardinality(Y)
  <2>1. X \in SUBSET (1..Len(L)) /\ Y \in SUBSET (1..Len(L))
        /\ \A i \in 1..Len(L) : i \in X <=> Opposite(L, i) \in Y
    BY <1>2 DEF n
  <2> QED BY <2>1, MirrorMatches
<1>3. Cardinality(W(L)) = Cardinality(W(B))
  <2>1. W(L) \in SUBSET (1..n) /\ W(B) \in SUBSET (1..n)
    BY <1>1
  <2>2. \A i \in 1..n : i \in W(L) <=> Opposite(L, i) \in W(B)
    BY <1>1
  <2> HIDE DEF W
  <2> QED BY <1>2, <2>1, <2>2
<1>4. ASSUME NEW w PROVE Cardinality(With(L, w)) = Cardinality(With(B, w))
  <2>1. With(L, w) \in SUBSET (1..n) /\ With(B, w) \in SUBSET (1..n)
    BY <1>1
  <2>2. \A i \in 1..n : i \in With(L, w) <=> Opposite(L, i) \in With(B, w)
    BY <1>1
  <2> HIDE DEF With
  <2> QED BY <1>2, <2>1, <2>2
<1>5. UNION {L[i].words : i \in DOMAIN L} = UNION {B[i].words : i \in DOMAIN B}
  BY <1>1
<1>6. ASSUME NEW M
      PROVE  Review!Boilerplate(M) =
               {w \in UNION {M[i].words : i \in DOMAIN M} :
                  Cardinality(With(M, w))
                    >= Review!Max({2, (Cardinality(W(M)) * ReviewShare) \div 100})}
  BY ReviewCardinality DEF Review!Boilerplate
<1> HIDE DEF With, W
<1>7. Review!Boilerplate(B) = Review!Boilerplate(L)
  BY <1>3, <1>4, <1>5, <1>6
<1> QED BY <1>7 DEF B

\* Common words are common to the mirrored lines, in whichever order they are named.
LEMMA WordsAreMirrored ==
  ASSUME NEW L, Parsed(L), NEW i \in 1..Len(L), NEW j \in 1..Len(L), Review!Worded(L, i, j)
  PROVE  LET B == Review!Backwards(L)
         IN /\ Review!Worded(B, Opposite(L, i), Opposite(L, j))
            /\ Review!Worded(B, Opposite(L, j), Opposite(L, i))
<1> DEFINE B == Review!Backwards(L)
<1>1. B[Opposite(L, i)] = L[i] /\ B[Opposite(L, j)] = L[j]
  BY MirrorImage
<1>2. Review!Boilerplate(B) = Review!Boilerplate(L)
  BY BoilerplateIsMirrored
<1>3. L[i].words \cap L[j].words = L[j].words \cap L[i].words
  OBVIOUS
<1> HIDE DEF B
<1>4. Review!Worded(B, Opposite(L, i), Opposite(L, j))
  BY <1>1, <1>2 DEF Review!Worded
<1>5. Review!Worded(B, Opposite(L, j), Opposite(L, i))
  BY <1>1, <1>2, <1>3 DEF Review!Worded
<1> QED BY <1>4, <1>5 DEF B

\* The larger of two lines with words in common is the larger in the mirror image.
LEMMA InversionsAreMirrored ==
  ASSUME NEW L, Parsed(L)
  PROVE  LET B == Review!Backwards(L)
         IN Mirrored(Review!ByWords(L, Review!Inversions(L)),
                     Review!ByWords(B, Review!Inversions(B)), L)
<1> DEFINE B == Review!Backwards(L)
           Of(i, j) == Review!Finding("capacity_inversion", i, {i, j})
           Inverted(M, i, j) ==
             /\ Review!Comparable(M, i, j)
             /\ Review!Capacity(M[i]).size > Review!Capacity(M[j]).size
             /\ M[i].price < M[j].price
<1>1. /\ DOMAIN L = 1..Len(L) /\ DOMAIN B = 1..Len(L) /\ Len(L) \in Nat
      /\ \A i \in 1..Len(L) : /\ Opposite(L, i) \in 1..Len(L) /\ B[Opposite(L, i)] = L[i]
                              /\ L[i].price \in Int
  <2>1. \A i \in 1..Len(L) : L[i] \in Review!Line
    BY MirrorImage
  <2> QED BY <2>1, MirrorImage DEF Review!Line, Review!Amount, Review!None
<1>2. \A i, j : Of(i, j).rule = "capacity_inversion" /\ Of(i, j).of = {i, j}
  BY DEF Review!Finding
<1>3. ASSUME NEW f \in Review!Inversions(L)
      PROVE  \E i, j \in DOMAIN L : f = Of(i, j) /\ Inverted(L, i, j)
  <2>1. PICK p \in (DOMAIN L) \X (DOMAIN L) : f = Of(p[1], p[2]) /\ Inverted(L, p[1], p[2])
    BY DEF Review!Inversions
  <2> HIDE DEF Of, Inverted
  <2> QED BY <2>1
<1>4. ASSUME NEW i \in DOMAIN B, NEW j \in DOMAIN B, Inverted(B, i, j)
      PROVE  Of(i, j) \in Review!Inversions(B)
  <2> DEFINE q == <<i, j>>
  <2>1. q \in (DOMAIN B) \X (DOMAIN B) /\ q[1] = i /\ q[2] = j
    OBVIOUS
  <2>2. /\ Inverted(B, q[1], q[2])
        /\ Of(i, j) = Review!Finding("capacity_inversion", q[1], {q[1], q[2]})
    BY <1>4, <2>1
  <2> HIDE DEF q, Of, B
  <2> QED BY <2>1, <2>2 DEF Review!Inversions
<1> HIDE DEF B, Of
<1>5. ASSUME NEW f \in Review!ByWords(L, Review!Inversions(L))
      PROVE  \E g \in Review!ByWords(B, Review!Inversions(B)) :
               g.rule = f.rule /\ f.of = MirrorOf(L, g.of) /\ g.of = MirrorOf(L, f.of)
  <2>1. PICK i, j \in DOMAIN L : f = Of(i, j) /\ Inverted(L, i, j)
    BY <1>3, <1>5 DEF Review!ByWords
  <2> DEFINE p == Opposite(L, i)
             q == Opposite(L, j)
             g == Of(p, q)
  <2>2. /\ i \in 1..Len(L) /\ j \in 1..Len(L) /\ p \in DOMAIN B /\ q \in DOMAIN B
        /\ B[p] = L[i] /\ B[q] = L[j] /\ i # j
    BY <1>1, <2>1
  <2>3. Review!Worded(L, i, j)
    <3>1. f.rule = "capacity_inversion" /\ f.of = {i, j}
      BY <1>2, <2>1
    <3>2. \A a, b \in f.of : a # b => Review!Worded(L, a, b)
      BY <1>5, <3>1 DEF Review!ByWords
    <3> HIDE DEF Inverted, p, q
    <3> QED BY <2>2, <3>1, <3>2
  <2>4. Review!Worded(B, p, q) /\ Review!Worded(B, q, p)
    BY <2>2, <2>3, WordsAreMirrored DEF B
  <2> HIDE DEF p, q
  <2>5. Inverted(B, p, q)
    BY <2>1, <2>2, <2>4 DEF Review!Comparable, Review!Similar
  <2> HIDE DEF Inverted
  <2>6. g \in Review!Inversions(B)
    BY <1>4, <2>2, <2>5
  <2>7. g \in Review!ByWords(B, Review!Inversions(B))
    BY <1>2, <2>4, <2>6 DEF Review!ByWords
  <2>8. /\ MirrorOf(L, {i, j}) = {p, q} /\ MirrorOf(L, {p, q}) = {i, j}
    <3>1. Opposite(L, p) = i /\ Opposite(L, q) = j
      BY <2>2, MirrorImage DEF p, q
    <3> QED BY <3>1, MirrorOfFew DEF p, q
  <2>9. g.rule = f.rule /\ f.of = MirrorOf(L, g.of) /\ g.of = MirrorOf(L, f.of)
    BY <1>2, <2>1, <2>8
  <2> HIDE DEF g
  <2> QED BY <2>7, <2>9
<1> QED BY <1>5 DEF B, Mirrored

\* Whether the tax is named anywhere does not depend on the order.
LEMMA UntaxedIsMirrored ==
  ASSUME NEW L, Parsed(L)
  PROVE  Mirrored(Review!Untaxed(L), Review!Untaxed(Review!Backwards(L)), L)
<1>1. MirrorOf(L, {}) = {}
  BY DEF MirrorOf
<1>2. Review!Untaxed(Review!Backwards(L)) = Review!Untaxed(L)
  <2> DEFINE B == Review!Backwards(L)
  <2>1. /\ DOMAIN L = 1..Len(L) /\ DOMAIN B = 1..Len(L)
        /\ \A i \in 1..Len(L) : Opposite(L, i) \in 1..Len(L) /\ B[Opposite(L, i)] = L[i]
                                /\ B[i] = L[Opposite(L, i)]
    BY MirrorImage
  <2> HIDE DEF B
  <2>2. (\E i \in DOMAIN L : L[i].vat) <=> (\E i \in DOMAIN B : B[i].vat)
    BY <2>1
  <2>3. Review!Untaxed(B) = Review!Untaxed(L)
    BY <2>2 DEF Review!Untaxed
  <2> QED BY <2>3 DEF B
<1>3. \A f \in Review!Untaxed(L) : f.of = {}
  BY DEF Review!Untaxed, Review!OnSheet, Review!Finding
<1> QED BY <1>1, <1>2, <1>3 DEF Mirrored

\* Mirrored lines have one sum.
LEMMA MirroredSums ==
  ASSUME NEW L, Parsed(L), NEW X \in SUBSET (1..Len(L)), NEW Y \in SUBSET (1..Len(L)),
         \A i \in 1..Len(L) : i \in X <=> Opposite(L, i) \in Y
  PROVE  Review!SumOf(Review!Backwards(L), Y) = Review!SumOf(L, X)
<1> DEFINE B == Review!Backwards(L)
           f == [i \in X |-> L[i].total]
           h == [i \in Y |-> B[i].total]
           m == [i \in X |-> Opposite(L, i)]
<1>1. /\ DOMAIN L = 1..Len(L) /\ DOMAIN B = 1..Len(L)
      /\ L \in Seq(Review!Line) /\ B \in Seq(Review!Line)
      /\ \A i \in 1..Len(L) : B[Opposite(L, i)] = L[i]
  BY MirrorImage DEF Parsed
<1>2. IsFiniteSet(X) /\ f \in [X -> Int]
      /\ \E g : IsSum(g, f, X) /\ Review!SumOf(L, X) = g[X]
  BY <1>1, TotalIsSum
<1>3. h \in [Y -> Int] /\ \E k : IsSum(k, h, Y) /\ Review!SumOf(B, Y) = k[Y]
  <2> HIDE DEF B
  <2> QED BY <1>1, TotalIsSum
<1>4. m \in Bijection(X, Y)
  BY MirrorMatches
<1>5. \A i \in X : h[m[i]] = f[i]
  <2> SUFFICES ASSUME NEW i \in X PROVE h[m[i]] = f[i]
    OBVIOUS
  <2>1. m[i] = Opposite(L, i) /\ m[i] \in Y /\ B[m[i]] = L[i]
    BY <1>1
  <2> HIDE DEF B, m
  <2> QED BY <2>1
<1> HIDE DEF f, h, m, B
<1>6. PICK g : IsSum(g, f, X) /\ Review!SumOf(L, X) = g[X]
  BY <1>2
<1>7. PICK k : IsSum(k, h, Y) /\ Review!SumOf(B, Y) = k[Y]
  BY <1>3
<1>8. k[Y] = g[X]
  <2>1. IsFiniteSet(X) /\ f \in [X -> Int] /\ h \in [Y -> Int]
    BY <1>2, <1>3
  <2>2. IsSum(g, f, X) /\ IsSum(k, h, Y)
    BY <1>6, <1>7
  <2> QED BY <1>4, <1>5, <2>1, <2>2, SumsMatch
<1> QED BY <1>6, <1>7, <1>8 DEF B

\* The lines that come before a line when the largest totals are taken first.
Before(M, i) ==
  {j \in Review!Totals(M) : \/ M[j].total > M[i].total
                            \/ M[j].total = M[i].total /\ j < i}
Leading(M) == {i \in Review!Totals(M) : Cardinality(Before(M, i)) < ReviewTop}

\* The largest totals are the same, whichever of equal ones come first.
LEMMA LeadingSums ==
  ASSUME NEW L, Parsed(L)
  PROVE  Review!SumOf(Review!Backwards(L), Leading(Review!Backwards(L)))
           = Review!SumOf(L, Leading(L))
<1> DEFINE B == Review!Backwards(L)
           n == Len(L)
           S == Review!Totals(L)
           f == [i \in S |-> L[i].total]
           After(i) == {j \in S : \/ L[j].total > L[i].total
                                  \/ L[j].total = L[i].total /\ j > i}
           b == [i \in S |-> Before(L, i)]
           d == [i \in S |-> After(i)]
<1>1. /\ DOMAIN L = 1..n /\ DOMAIN B = 1..n /\ n \in Nat
      /\ L \in Seq(Review!Line) /\ B \in Seq(Review!Line)
      /\ \A i \in 1..n : /\ Opposite(L, i) \in 1..n /\ Opposite(L, Opposite(L, i)) = i
                         /\ B[Opposite(L, i)] = L[i] /\ L[i] \in Review!Line
  BY MirrorImage DEF Parsed
<1> HIDE DEF B, n
<1>2. S \in SUBSET (1..n) /\ IsFiniteSet(S) /\ f \in [S -> Int]
      /\ \A i \in S : L[i].total \in Int
  <2>1. S \in SUBSET DOMAIN L
    BY DEF Review!Totals
  <2>2. IsFiniteSet(S) /\ f \in [S -> Int]
    <3> HIDE DEF S
    <3> QED BY <1>1, <2>1, TotalIsSum
  <2>3. \A i \in S : L[i].total \in Int
    BY <1>1, <2>1 DEF Review!Line, Review!Amount, Review!None
  <2> HIDE DEF S
  <2> QED BY <1>1, <2>1, <2>2, <2>3
<1> HIDE DEF S
<1>3. Ranking(b, f, S)
  <2>1. \A i \in S : b[i] = Before(L, i) /\ f[i] = L[i].total /\ i \in Int
    BY <1>1, <1>2
  <2>2. \A i, j \in S : j \in b[i] <=> (f[j] > f[i] \/ (f[j] = f[i] /\ j < i))
    BY <2>1 DEF Before, S
  <2>3. b \in [S -> SUBSET S]
    BY DEF Before, S
  <2>4. \A i \in S : f[i] \in Int /\ i \in Int
    BY <1>2, <2>1
  <2> HIDE DEF b, f
  <2>5. \A i \in S : i \notin b[i]
    BY <2>2, <2>4
  <2>6. \A i, j \in S : i # j => i \in b[j] \/ j \in b[i]
    BY <2>2, <2>4
  <2>7. \A i, j, k \in S : i \in b[j] /\ j \in b[k] => i \in b[k]
    BY <2>2, <2>4
  <2>8. \A i, j \in S : (f[j] > f[i] => j \in b[i]) /\ (j \in b[i] => f[j] >= f[i])
    BY <2>2, <2>4
  <2> QED BY <2>3, <2>5, <2>6, <2>7, <2>8 DEF Ranking
<1>4. Ranking(d, f, S)
  <2>1. \A i \in S : d[i] = After(i) /\ f[i] = L[i].total /\ i \in Int
    BY <1>1, <1>2
  <2>2. \A i, j \in S : j \in d[i] <=> (f[j] > f[i] \/ (f[j] = f[i] /\ j > i))
    BY <2>1
  <2>3. d \in [S -> SUBSET S]
    OBVIOUS
  <2>4. \A i \in S : f[i] \in Int /\ i \in Int
    BY <1>2, <2>1
  <2> HIDE DEF d, f
  <2>5. \A i \in S : i \notin d[i]
    BY <2>2, <2>4
  <2>6. \A i, j \in S : i # j => i \in d[j] \/ j \in d[i]
    BY <2>2, <2>4
  <2>7. \A i, j, k \in S : i \in d[j] /\ j \in d[k] => i \in d[k]
    BY <2>2, <2>4
  <2>8. \A i, j \in S : (f[j] > f[i] => j \in d[i]) /\ (j \in d[i] => f[j] >= f[i])
    BY <2>2, <2>4
  <2> QED BY <2>3, <2>5, <2>6, <2>7, <2>8 DEF Ranking
<1> DEFINE X == FirstOf(b, S, ReviewTop)
           Y == FirstOf(d, S, ReviewTop)
<1>5. X \in SUBSET S /\ Y \in SUBSET S
  BY DEF FirstOf
<1>6. Leading(L) = X
  <2>1. \A i \in S : Rank(b, i) = Cardinality(Before(L, i))
    BY DEF Rank
  <2> HIDE DEF b
  <2> QED BY <2>1 DEF Leading, FirstOf, S
<1>7. Review!SumOf(L, X) = Review!SumOf(L, Y)
  <2> DEFINE fX == [i \in X |-> L[i].total]
             fY == [i \in Y |-> L[i].total]
  <2>0. X \in SUBSET DOMAIN L /\ Y \in SUBSET DOMAIN L
    BY <1>1, <1>2, <1>5
  <2>a. PICK m \in Bijection(X, Y) : \A i \in X : f[m[i]] = f[i]
    <3> HIDE DEF f, b, d
    <3> QED BY <1>2, <1>3, <1>4, FirstOfMatch
  <2>b. \A i \in X : m[i] \in Y
    BY <2>a DEF Bijection, Injection
  <2>c. \A i \in X : fY[m[i]] = fX[i]
    <3>1. \A i \in X : f[i] = fX[i]
      BY <1>5
    <3>2. \A i \in Y : f[i] = fY[i]
      BY <1>5
    <3> HIDE DEF fX, fY, f, X, Y
    <3> QED BY <2>a, <2>b, <3>1, <3>2
  <2> HIDE DEF X, Y
  <2>1. /\ IsFiniteSet(X) /\ fX \in [X -> Int]
        /\ \E g : IsSum(g, fX, X) /\ Review!SumOf(L, X) = g[X]
    BY <1>1, <2>0, TotalIsSum
  <2>2. fY \in [Y -> Int] /\ \E k : IsSum(k, fY, Y) /\ Review!SumOf(L, Y) = k[Y]
    BY <1>1, <2>0, TotalIsSum
  <2> HIDE DEF fX, fY
  <2>3. PICK g : IsSum(g, fX, X) /\ Review!SumOf(L, X) = g[X]
    BY <2>1
  <2>4. PICK k : IsSum(k, fY, Y) /\ Review!SumOf(L, Y) = k[Y]
    BY <2>2
  <2>5. k[Y] = g[X]
    BY <2>1, <2>2, <2>3, <2>4, <2>a, <2>c, SumsMatch
  <2> QED BY <2>3, <2>4, <2>5
<1>8. \A i \in 1..n : i \in S <=> Opposite(L, i) \in Review!Totals(B)
  BY <1>1 DEF Review!Totals, S
<1>9. \A i \in S : Cardinality(Before(B, Opposite(L, i))) = Rank(d, i)
  <2> SUFFICES ASSUME NEW i \in S PROVE Cardinality(Before(B, Opposite(L, i))) = Cardinality(After(i))
    BY DEF Rank
  <2>1. After(i) \in SUBSET (1..n) /\ Before(B, Opposite(L, i)) \in SUBSET (1..n)
    BY <1>1, <1>2 DEF Before, Review!Totals
  <2>2. ASSUME NEW j \in 1..n
        PROVE  j \in After(i) <=> Opposite(L, j) \in Before(B, Opposite(L, i))
    <3>1. j > i <=> Opposite(L, j) < Opposite(L, i)
      BY <1>1, <1>2 DEF Opposite, n
    <3>2. B[Opposite(L, j)] = L[j] /\ B[Opposite(L, i)] = L[i]
      BY <1>1, <1>2
    <3> QED BY <1>8, <3>1, <3>2 DEF Before
  <2> HIDE DEF After
  <2> QED BY <2>1, <2>2, MirrorMatches DEF n
<1>10. \A i \in 1..n : i \in Y <=> Opposite(L, i) \in Leading(B)
  <2> HIDE DEF d
  <2> QED BY <1>1, <1>8, <1>9 DEF Leading, FirstOf
<1>11. Leading(B) \in SUBSET (1..n) /\ Y \in SUBSET (1..n)
  BY <1>1, <1>2, <1>5 DEF Leading, Review!Totals
<1> HIDE DEF X, Y
<1>12. Review!SumOf(B, Leading(B)) = Review!SumOf(L, Y)
  BY <1>10, <1>11, MirroredSums DEF B, n
<1> QED BY <1>6, <1>7, <1>12 DEF B

\* Whether few lines hold most of the total does not depend on the order.
LEMMA ConcentratedIsMirrored ==
  ASSUME NEW L, Parsed(L)
  PROVE  Mirrored(Review!Concentrated(L), Review!Concentrated(Review!Backwards(L)), L)
<1> DEFINE B == Review!Backwards(L)
           Most(M) == Review!SumOf(M, Review!Totals(M)) > 0
                      /\ 2 * Review!SumOf(M, Leading(M)) > Review!SumOf(M, Review!Totals(M))
<1>1. \A M : Review!Concentrated(M) = IF Most(M) THEN {Review!OnSheet("concentration_risk")} ELSE {}
  BY ReviewCardinality DEF Review!Concentrated, Leading, Before
<1>2. Review!SumOf(B, Leading(B)) = Review!SumOf(L, Leading(L))
  BY LeadingSums
<1>3. Review!SumOf(B, Review!Totals(B)) = Review!SumOf(L, Review!Totals(L))
  <2>1. /\ DOMAIN L = 1..Len(L) /\ DOMAIN B = 1..Len(L)
        /\ \A i \in 1..Len(L) : Opposite(L, i) \in 1..Len(L) /\ B[Opposite(L, i)] = L[i]
    BY MirrorImage
  <2> HIDE DEF B
  <2>2. /\ Review!Totals(L) \in SUBSET (1..Len(L)) /\ Review!Totals(B) \in SUBSET (1..Len(L))
        /\ \A i \in 1..Len(L) : i \in Review!Totals(L) <=> Opposite(L, i) \in Review!Totals(B)
    BY <2>1 DEF Review!Totals
  <2> QED BY <2>2, MirroredSums DEF B
<1> HIDE DEF B
<1>4. Most(B) <=> Most(L)
  BY <1>2, <1>3
<1> HIDE DEF Most
<1>5. Review!Concentrated(B) = Review!Concentrated(L)
  BY <1>1, <1>4
<1>6. MirrorOf(L, {}) = {}
  BY DEF MirrorOf
<1>7. \A f \in Review!Concentrated(L) : f.of = {}
  BY <1>1 DEF Review!OnSheet, Review!Finding
<1>8. Mirrored(Review!Concentrated(L), Review!Concentrated(B), L)
  BY <1>5, <1>6, <1>7 DEF Mirrored
<1> QED BY <1>8 DEF B

\* The positions and lines that the findings of a sheet name are its own.
LEMMA FindingsAreOnTheSheet ==
  ASSUME NEW L, Parsed(L), NEW f \in Review!Reviewed(L)
  PROVE  /\ f.rule \in Review!Rules /\ f.at \in 0..Len(L) /\ f.of \subseteq 1..Len(L)
         /\ f = Review!Finding(f.rule, f.at, f.of)
         /\ f.rule = "capacity_inversion" => f \in Review!Inversions(L)
<1>1. DOMAIN L = 1..Len(L) /\ Len(L) \in Nat
  BY MirrorImage
<1>2. ASSUME NEW rule, NEW at, NEW of
      PROVE  LET g == Review!Finding(rule, at, of)
             IN g.rule = rule /\ g.at = at /\ g.of = of /\ g = Review!Finding(g.rule, g.at, g.of)
  BY DEF Review!Finding
<1>3. CASE f \in UNION {Review!Mismatches(L), Review!Unrounded(L), Review!TextNumbers(L),
                        Review!Unspecified(L)}
  <2>1. PICK rule \in {"arithmetic_mismatch", "unrounded_unit_price", "text_number", "missing_spec"},
             i \in 1..Len(L) : f = Review!Finding(rule, i, {i})
    BY <1>1, <1>3 DEF Review!Mismatches, Review!Unrounded, Review!TextNumbers, Review!Unspecified,
                      Review!OnLine
  <2>2. i \in 0..Len(L)
    BY <1>1
  <2> QED BY <1>2, <2>1, <2>2 DEF Review!Rules
<1>4. CASE f \in Review!Duplicates(L)
  <2>1. PICK p \in Review!Pairs(L) : f = Review!Finding("duplicate_description", p[1], {p[1], p[2]})
    BY <1>4 DEF Review!Duplicates
  <2>2. p[1] \in 1..Len(L) /\ p[2] \in 1..Len(L) /\ p[1] \in 0..Len(L)
    BY <1>1 DEF Review!Pairs
  <2> QED BY <1>2, <2>1, <2>2 DEF Review!Rules
<1>5. CASE f \in Review!Inversions(L)
  <2>1. PICK p \in (DOMAIN L) \X (DOMAIN L) :
               f = Review!Finding("capacity_inversion", p[1], {p[1], p[2]})
    BY <1>5 DEF Review!Inversions
  <2>2. p[1] \in 1..Len(L) /\ p[2] \in 1..Len(L) /\ p[1] \in 0..Len(L)
    BY <1>1
  <2> QED BY <1>2, <1>5, <2>1, <2>2 DEF Review!Rules
<1>6. CASE f \in Review!Concentrated(L) \cup Review!Untaxed(L)
  <2>1. PICK rule \in {"concentration_risk", "vat_missing"} : f = Review!Finding(rule, 0, {})
    BY <1>6 DEF Review!Concentrated, Review!Untaxed, Review!OnSheet
  <2>2. 0 \in 0..Len(L)
    BY <1>1
  <2> QED BY <1>2, <2>1, <2>2 DEF Review!Rules
<1> QED BY <1>3, <1>4, <1>5, <1>6 DEF Review!Reviewed

\* The whole review of a sheet and of its mirror image, but for the matcher of texts.
LEMMA ReviewIsMirrored ==
  ASSUME NEW L, Parsed(L)
  PROVE  LET B == Review!Backwards(L)
         IN Mirrored(Review!ByWords(L, Review!Reviewed(L)),
                     Review!ByWords(B, Review!Reviewed(B)), L)
<1> DEFINE B == Review!Backwards(L)
<1>1. /\ Mirrored(Review!Mismatches(L), Review!Mismatches(B), L)
      /\ Mirrored(Review!Unrounded(L), Review!Unrounded(B), L)
      /\ Mirrored(Review!TextNumbers(L), Review!TextNumbers(B), L)
      /\ Mirrored(Review!Unspecified(L), Review!Unspecified(B), L)
  BY LineRulesAreMirrored
<1>2. /\ Mirrored(Review!Duplicates(L), Review!Duplicates(B), L)
      /\ Mirrored(Review!Concentrated(L), Review!Concentrated(B), L)
      /\ Mirrored(Review!Untaxed(L), Review!Untaxed(B), L)
  BY DuplicatesAreMirrored, ConcentratedIsMirrored, UntaxedIsMirrored
<1>3. Mirrored(Review!ByWords(L, Review!Inversions(L)), Review!ByWords(B, Review!Inversions(B)), L)
  BY InversionsAreMirrored
<1> HIDE DEF B
<1> SUFFICES ASSUME NEW f \in Review!ByWords(L, Review!Reviewed(L))
             PROVE  \E g \in Review!ByWords(B, Review!Reviewed(B)) :
                      g.rule = f.rule /\ f.of = MirrorOf(L, g.of) /\ g.of = MirrorOf(L, f.of)
  BY DEF Mirrored, B
<1>4. CASE f.rule = "capacity_inversion"
  <2>1. f \in Review!ByWords(L, Review!Inversions(L))
    BY <1>4, FindingsAreOnTheSheet DEF Review!ByWords
  <2>2. PICK g \in Review!ByWords(B, Review!Inversions(B)) :
               g.rule = f.rule /\ f.of = MirrorOf(L, g.of) /\ g.of = MirrorOf(L, f.of)
    BY <1>3, <2>1 DEF Mirrored
  <2>3. g \in Review!ByWords(B, Review!Reviewed(B))
    BY <2>2 DEF Review!ByWords, Review!Reviewed
  <2> QED BY <2>2, <2>3
<1>5. CASE f.rule # "capacity_inversion"
  <2>1. f \in Review!Reviewed(L)
    BY DEF Review!ByWords
  <2>2. f \notin Review!Inversions(L)
    BY <1>5 DEF Review!Inversions, Review!Finding
  <2>3. PICK g \in Review!Reviewed(B) :
               g.rule = f.rule /\ f.of = MirrorOf(L, g.of) /\ g.of = MirrorOf(L, f.of)
    BY <1>1, <1>2, <2>1, <2>2 DEF Mirrored, Review!Reviewed
  <2>4. g \in Review!ByWords(B, Review!Reviewed(B))
    BY <1>5, <2>3 DEF Review!ByWords
  <2> QED BY <2>3, <2>4
<1> QED BY <1>4, <1>5

\* What an inversion accuses: a larger line of a lower price.
LEMMA InversionsCompare ==
  ASSUME NEW L, Parsed(L), NEW f \in Review!Inversions(L)
  PROVE  \E i, j \in DOMAIN L :
           /\ f = Review!Finding("capacity_inversion", i, {i, j})
           /\ Review!Capacity(L[i]).size # Review!None /\ Review!Capacity(L[j]).size # Review!None
           /\ Review!Capacity(L[i]).unit = Review!Capacity(L[j]).unit
           /\ Review!Capacity(L[i]).size > Review!Capacity(L[j]).size
           /\ L[i].price < L[j].price /\ L[i].price \in Int /\ L[j].price \in Int
<1>1. PICK p \in (DOMAIN L) \X (DOMAIN L) :
        /\ f = Review!Finding("capacity_inversion", p[1], {p[1], p[2]})
        /\ Review!Comparable(L, p[1], p[2])
        /\ Review!Capacity(L[p[1]]).size > Review!Capacity(L[p[2]]).size
        /\ L[p[1]].price < L[p[2]].price
  BY DEF Review!Inversions
<1>2. L[p[1]] \in Review!Line /\ L[p[2]] \in Review!Line
  BY DEF Parsed
<1>3. L[p[1]].price \in Int /\ L[p[2]].price \in Int
  BY <1>2 DEF Review!Line, Review!Amount, Review!None
<1>4. p[1] \in DOMAIN L /\ p[2] \in DOMAIN L
  OBVIOUS
<1> QED BY <1>1, <1>3, <1>4 DEF Review!Comparable

\* The findings of a sheet under review.
LEMMA SheetIsParsed ==
  ASSUME m1 \in ReviewSheets
  PROVE  Parsed(m1)
<1>1. m1 \in Seq(Review!Line)
  BY ReviewAssumption
<1>2. \A i \in DOMAIN m1 : IsFiniteSet(m1[i].words) /\ IsFiniteSet(m1[i].short)
  BY ReviewAssumption
<1> QED BY <1>1, <1>2 DEF Parsed

\* No findings of a parsed sheet are mistaken for those of none.
LEMMA ReviewedOrNot ==
  ASSUME Review!ReviewInv
  PROVE  /\ Parsed(m1) /\ Review!NotReviewed # Review!Reviewed(m1)
         /\ m2 # Review!NotReviewed => m2 = Review!Reviewed(m1)
<1>1. Parsed(m1)
  BY SheetIsParsed DEF Review!ReviewInv
<1>2. ASSUME Review!NotReviewed = Review!Reviewed(m1) PROVE FALSE
  <2>1. [rule |-> "none", at |-> 0, of |-> {}] \in Review!Reviewed(m1)
    BY <1>2 DEF Review!NotReviewed
  <2>2. [rule |-> "none", at |-> 0, of |-> {}].rule \in Review!Rules
    BY <1>1, <2>1, FindingsAreOnTheSheet
  <2> QED BY <2>2 DEF Review!Rules
<1> QED BY <1>1, <1>2 DEF Review!ReviewInv

\* The types follow from the invariant.
LEMMA ReviewHasType == ASSUME Review!ReviewInv PROVE Review!TypeOK
<1>1. \A f \in Review!Reviewed(m1) :
        f.rule \in Review!Rules /\ f.at \in 0..Len(m1) /\ f.of \subseteq 1..Len(m1)
  BY ReviewedOrNot, FindingsAreOnTheSheet
<1>2. Review!Len(m1) = Len(m1)
  BY DEF Review!Len, Len
<1> QED BY <1>1, <1>2, ReviewedOrNot DEF Review!TypeOK, Review!ReviewInv

\* The review of a sheet and of its mirror image are mirror images, but for that.
LEMMA ReviewFair == ASSUME Review!ReviewInv PROVE Review!ReviewIsFair
<1> SUFFICES ASSUME m2 # Review!NotReviewed
             PROVE  /\ Review!Kept(Review!ByWords(m1, m2))
                         = Review!Kept({Review!Moved(f) : f \in
                             Review!ByWords(Review!Backwards(m1), Review!Reviewed(Review!Backwards(m1)))})
                    /\ \A f, g \in Review!Found("capacity_inversion") : f.of = g.of => f = g
  BY DEF Review!ReviewIsFair
<1> DEFINE L == m1
           B == Review!Backwards(L)
           ofL == Review!ByWords(L, Review!Reviewed(L))
           ofB == Review!ByWords(B, Review!Reviewed(B))
<1>1. Parsed(L) /\ m2 = Review!Reviewed(L)
  BY ReviewedOrNot
<1>2. Parsed(B) /\ Review!Backwards(B) = L /\ Len(B) = Len(L)
  BY <1>1, MirrorImage
<1> HIDE DEF L
<1>3. Mirrored(ofL, ofB, L)
  BY <1>1, ReviewIsMirrored
<1> HIDE DEF B
<1>4. Mirrored(ofB, ofL, B)
  BY <1>2, ReviewIsMirrored
<1>5. ofB \subseteq Review!Reviewed(B)
  BY DEF Review!ByWords
<1> HIDE DEF ofL, ofB
<1>6. \A of : MirrorOf(B, of) = MirrorOf(L, of)
  BY <1>2 DEF MirrorOf, Opposite
<1>7. \A f \in ofB :
        Review!Moved(f).rule = f.rule /\ Review!Moved(f).of = MirrorOf(L, f.of)
  <2> SUFFICES ASSUME NEW f \in ofB
               PROVE  Review!Moved(f).rule = f.rule /\ Review!Moved(f).of = MirrorOf(L, f.of)
    OBVIOUS
  <2>1. f = [rule |-> f.rule, at |-> f.at, of |-> f.of]
    BY <1>2, <1>5, FindingsAreOnTheSheet DEF Review!Finding
  <2>2. Review!Moved(f) = [f EXCEPT !.of = MirrorOf(L, f.of)]
    BY DEF Review!Moved, MirrorOf, Opposite, L, Review!Len, Len
  <2> QED BY <2>1, <2>2
<1>8. Review!Kept(Review!ByWords(L, m2)) = {[rule |-> f.rule, of |-> f.of] : f \in ofL}
  BY <1>1 DEF Review!Kept, ofL
<1>9. Review!Kept({Review!Moved(f) : f \in ofB})
        = {[rule |-> f.rule, of |-> MirrorOf(L, f.of)] : f \in ofB}
  <2> DEFINE kept(h) == [rule |-> h.rule, of |-> h.of]
             mirrored(h) == [rule |-> h.rule, of |-> MirrorOf(L, h.of)]
  <2>1. \A f \in ofB : kept(Review!Moved(f)) = mirrored(f)
    BY <1>7
  <2> HIDE DEF kept, mirrored
  <2>2. {kept(h) : h \in {Review!Moved(f) : f \in ofB}}
          = {mirrored(f) : f \in ofB}
    BY <2>1
  <2> QED BY <2>2 DEF kept, mirrored, Review!Kept
<1>10. {[rule |-> f.rule, of |-> f.of] : f \in ofL}
        = {[rule |-> f.rule, of |-> MirrorOf(L, f.of)] : f \in ofB}
  <2> DEFINE kept(h) == [rule |-> h.rule, of |-> h.of]
             mirrored(h) == [rule |-> h.rule, of |-> MirrorOf(L, h.of)]
  <2>1. \A f \in ofL : \E g \in ofB : kept(f) = mirrored(g)
    BY <1>3 DEF Mirrored
  <2>2. \A g \in ofB : \E f \in ofL : kept(f) = mirrored(g)
    BY <1>4, <1>6 DEF Mirrored
  <2> HIDE DEF kept, mirrored
  <2>3. {kept(f) : f \in ofL} = {mirrored(g) : g \in ofB}
    BY <2>1, <2>2
  <2> QED BY <2>3 DEF kept, mirrored
<1>11. ASSUME NEW f \in Review!Found("capacity_inversion"),
              NEW g \in Review!Found("capacity_inversion"), f.of = g.of
       PROVE  f = g
  <2>1. f \in Review!Inversions(L) /\ g \in Review!Inversions(L)
    BY <1>1, FindingsAreOnTheSheet DEF Review!Found
  <2>2. PICK i, j \in DOMAIN L :
          /\ f = Review!Finding("capacity_inversion", i, {i, j})
          /\ L[i].price < L[j].price /\ L[i].price \in Int /\ L[j].price \in Int
    BY <1>1, <2>1, InversionsCompare
  <2>3. PICK k, l \in DOMAIN L :
          /\ g = Review!Finding("capacity_inversion", k, {k, l})
          /\ L[k].price < L[l].price /\ L[k].price \in Int /\ L[l].price \in Int
    BY <1>1, <2>1, InversionsCompare
  <2>4. {i, j} = {k, l}
    BY <1>11, <2>2, <2>3 DEF Review!Finding
  <2>5. i = k
    BY <2>2, <2>3, <2>4
  <2> QED BY <2>2, <2>3, <2>4, <2>5
<1> QED BY <1>8, <1>9, <1>10, <1>11 DEF B, L, ofB

\* The size of a cable, and that of its main conductors.
LEMMA CableSizeBounds ==
  ASSUME NEW line \in Review!Line,
         line.cable.main # Review!None, line.cable.main # line.cable.ground
  PROVE  /\ Review!Capacity(line).size \in Int
         /\ line.cable.main <= Review!Capacity(line).size
         /\ line.cable.conductors <= line.cable.main => Review!Capacity(line).size <= line.cable.main
<1> DEFINE c == line.cable
           others == {c.conductors, c.main} \ {c.ground}
<1>1. c.conductors \in Int /\ c.main \in Nat /\ c.ground \in Int
  BY DEF Review!Line, Review!Amount, Review!None
<1>2. c.main \in others /\ \A x \in others : x = c.conductors \/ x = c.main
  OBVIOUS
<1> HIDE DEF c
<1>3. \E x \in others : \A y \in others : x >= y
  <2>1. CASE c.conductors \in others /\ c.conductors >= c.main
    BY <1>1, <1>2, <2>1
  <2>2. CASE ~(c.conductors \in others /\ c.conductors >= c.main)
    BY <1>1, <1>2, <2>2
  <2> QED BY <2>1, <2>2
<1> HIDE DEF others
<1>4. Review!Max(others) \in others /\ \A y \in others : Review!Max(others) >= y
  BY <1>3 DEF Review!Max
<1>5. Review!CableSize(c) = Review!Max(others)
  BY <1>2 DEF Review!CableSize, others
<1>6. Review!CableSize(c) # Review!None
  BY <1>1, <1>2, <1>4, <1>5 DEF Review!None
<1>7. Review!Capacity(line).size = Review!Max(others)
  BY <1>5, <1>6 DEF Review!Capacity, c
<1> QED BY <1>1, <1>2, <1>4, <1>7 DEF c

\* An inversion names a line of larger capacity at a lower price.
LEMMA ReviewInversionsReal == ASSUME Review!ReviewInv PROVE Review!InversionsAreReal
<1> DEFINE L == m1
<1>1. Parsed(L) /\ (m2 # Review!NotReviewed => m2 = Review!Reviewed(L))
  BY ReviewedOrNot
<1> HIDE DEF L
<1> SUFFICES ASSUME NEW f \in Review!Found("capacity_inversion"),
                    NEW i \in DOMAIN L, NEW j \in DOMAIN L, f.of = {i, j}, f.at = i, i # j
             PROVE  LET a == L[i]
                        b == L[j]
                    IN /\ a.price < b.price /\ Review!Capacity(a).unit = Review!Capacity(b).unit
                       /\ /\ Review!None \notin {a.cable.main, b.cable.main}
                          /\ a.cable.main # a.cable.ground /\ b.cable.main # b.cable.ground
                          /\ a.cable.conductors <= a.cable.main
                          => a.cable.main > b.cable.main
  BY DEF Review!InversionsAreReal, L
<1>2. m2 = Review!Reviewed(L)
  BY <1>1 DEF Review!Found, Review!NotReviewed
<1>3. f \in Review!Inversions(L)
  BY <1>1, <1>2, FindingsAreOnTheSheet DEF Review!Found
<1>4. PICK k, l \in DOMAIN L :
        /\ f = Review!Finding("capacity_inversion", k, {k, l})
        /\ Review!Capacity(L[k]).unit = Review!Capacity(L[l]).unit
        /\ Review!Capacity(L[k]).size > Review!Capacity(L[l]).size
        /\ L[k].price < L[l].price
  BY <1>1, <1>3, InversionsCompare
<1>5. k = i /\ {i, j} = {k, l}
  BY <1>4 DEF Review!Finding
<1>6. l = j
  BY <1>5
<1>7. L[i] \in Review!Line /\ L[j] \in Review!Line
  BY <1>1 DEF Parsed
<1>8. ASSUME Review!None \notin {L[i].cable.main, L[j].cable.main},
             L[i].cable.main # L[i].cable.ground, L[j].cable.main # L[j].cable.ground,
             L[i].cable.conductors <= L[i].cable.main
      PROVE  L[i].cable.main > L[j].cable.main
  <2>1. L[i].cable.main \in Int /\ L[j].cable.main \in Int
    BY <1>7 DEF Review!Line, Review!Amount, Review!None
  <2>2. Review!Capacity(L[i]).size \in Int /\ Review!Capacity(L[i]).size <= L[i].cable.main
    BY <1>7, <1>8, CableSizeBounds
  <2>3. Review!Capacity(L[j]).size \in Int /\ L[j].cable.main <= Review!Capacity(L[j]).size
    BY <1>7, <1>8, CableSizeBounds
  <2> QED BY <1>4, <1>5, <1>6, <2>1, <2>2, <2>3
<1> QED BY <1>4, <1>5, <1>6, <1>8

\* The initial states.
LEMMA ReviewInit == ASSUME Review!Init PROVE Review!ReviewInv
  BY DEF Review!Init, Review!ReviewInv

\* The one step, and none.
LEMMA ReviewStep ==
  ASSUME Review!ReviewInv, Review!Next \/ UNCHANGED Review!vars
  PROVE  Review!ReviewInv'
<1>1. m1' = m1 /\ (m2' = m2 \/ m2' = Review!Reviewed(m1))
  BY DEF Review!Next, Review!Review, Review!vars
<1>2. Review!Reviewed(m1)' = Review!Reviewed(m1)
  BY <1>1
<1> QED BY <1>1, <1>2 DEF Review!ReviewInv, Review!NotReviewed

-----------------------------------------------------------------------------
(***************************************************************************)
(* Participation: m1 .. m6 are clock, record, at, harvests, served and     *)
(* report.                                                                 *)
(***************************************************************************)
\* The module computes as Evidence does.
LEMMA PastGcd == Candidates!Gcd = Gcd
  BY DEF Candidates!Gcd, Gcd

\* Its fractions are those of Evidence,
LEMMA PastFraction == \A n, d : Candidates!Fraction(n, d) = Fraction(n, d) /\ Candidates!Q(n) = Q(n)
  BY PastGcd DEF Candidates!Fraction, Fraction, Candidates!Magnitude, Magnitude, Candidates!Q, Q

\* its sums, products and order,
LEMMA PastArithmetic ==
  \A a, b : /\ Candidates!Plus(a, b) = Plus(a, b) /\ Candidates!Times(a, b) = Times(a, b)
            /\ Candidates!Leq(a, b) = Leq(a, b)
<1>1. \A a, b : Candidates!Plus(a, b) = Plus(a, b)
  BY PastGcd, PastFraction DEF Candidates!Plus, Plus
<1>2. \A a, b : Candidates!Times(a, b) = Times(a, b)
  BY PastFraction DEF Candidates!Times, Times
<1>3. \A a, b : Candidates!Leq(a, b) = Leq(a, b)
  BY PastGcd DEF Candidates!Leq, Leq
<1> QED BY <1>1, <1>2, <1>3

\* its quotients,
LEMMA PastOver == \A a, b : Candidates!Over(a, b) = Over(a, b)
  BY PastArithmetic, PastFraction DEF Candidates!Over, Over

\* and its strict order.
LEMMA PastLess == \A a, b : Candidates!Less(a, b) = Less(a, b)
  BY PastArithmetic DEF Candidates!Less, Less

\* What is on record, and when the harvest stored it.
PastState ==
  /\ m2 \in [PastTenders -> Candidates!OnRecord]
  /\ m3 \in [PastTenders -> Nat]

\* What the instance calls a cardinality is one.
LEMMA PastCardinality == \A S : Candidates!Cardinality(S) = Cardinality(S)
  BY DEF Candidates!Cardinality, Cardinality

\* The joins give finitely many rows.
LEMMA PastRows ==
  ASSUME PastState
  PROVE  /\ IsFiniteSet(Candidates!Row)
         /\ \A r \in Candidates!Row : r[1] \in PastTenders /\ r[2] \in PastVendors
<1> DEFINE Part(t) == {t} \X m2[t].bidders \X (1..m2[t].awardees)
           parts == {Part(t) : t \in PastTenders}
<1>1. ASSUME NEW t \in PastTenders
      PROVE  /\ m2[t].bidders \subseteq PastVendors /\ m2[t].awardees \in Nat
             /\ IsFiniteSet(Part(t))
  <2>1. m2[t].bidders \subseteq PastVendors /\ m2[t].awardees \in Nat
    BY DEF PastState, Candidates!OnRecord
  <2> DEFINE B == m2[t].bidders
             N == 1..m2[t].awardees
             pairs == B \X N
             f == [p \in pairs |-> <<t, p[1], p[2]>>]
  <2>2. IsFiniteSet(B)
    BY <2>1, FS_Subset, PastAssumption
  <2>3. IsFiniteSet(N)
    <3>1. 1 \in Int /\ m2[t].awardees \in Int
      BY <2>1
    <3> QED BY <3>1, FS_Interval
  <2>4. IsFiniteSet(pairs)
    BY <2>2, <2>3, FS_Product
  <2>5. Part(t) = {t} \X B \X N
    OBVIOUS
  <2> HIDE DEF B, N, Part
  <2>6. f \in [pairs -> Part(t)]
    BY <2>5
  <2>7. \A r \in Part(t) : \E p \in pairs : f[p] = r
    <3> SUFFICES ASSUME NEW r \in Part(t) PROVE \E p \in pairs : f[p] = r
      OBVIOUS
    <3>1. r = <<t, r[2], r[3]>> /\ r[2] \in B /\ r[3] \in N
      BY <2>5
    <3>2. <<r[2], r[3]>> \in pairs
      BY <3>1
    <3>3. f[<<r[2], r[3]>>] = <<t, r[2], r[3]>>
      BY <3>2
    <3> QED BY <3>1, <3>2, <3>3
  <2>8. f \in Surjection(pairs, Part(t))
    BY <2>6, <2>7 DEF Surjection
  <2> QED BY <2>1, <2>4, <2>8, FS_Surjection
<1>2. IsFiniteSet(parts)
  <2> DEFINE f == [t \in PastTenders |-> Part(t)]
  <2>1. f \in Surjection(PastTenders, parts)
    BY DEF Surjection
  <2> QED BY <2>1, FS_Surjection, PastAssumption
<1>3. \A s \in parts : IsFiniteSet(s)
  BY <1>1
<1>4. Candidates!Row = UNION parts
  BY DEF Candidates!Row
<1>5. IsFiniteSet(UNION parts)
  <2> HIDE DEF parts
  <2> QED BY <1>2, <1>3, FS_UNION
<1>6. ASSUME NEW r \in Candidates!Row PROVE r[1] \in PastTenders /\ r[2] \in PastVendors
  <2>1. PICK t \in PastTenders : r \in Part(t)
    BY <1>4
  <2>2. r[1] = t /\ r[2] \in m2[t].bidders
    BY <2>1
  <2> QED BY <1>1, <2>2
<1> QED BY <1>4, <1>5, <1>6

\* A weight decays, and stays positive.
LEMMA DecayIs == \A age \in Int : Candidates!Decay(age) \in Frac /\ Positive(Candidates!Decay(age))
<1> SUFFICES ASSUME NEW age \in Int
             PROVE  Candidates!Decay(age) \in Frac /\ Positive(Candidates!Decay(age))
  OBVIOUS
<1>1. Candidates!Max({0, age}) \in Nat
  <2>1. \E x \in {0, age} : \A y \in {0, age} : x >= y
    OBVIOUS
  <2>2. /\ Candidates!Max({0, age}) \in {0, age}
        /\ \A y \in {0, age} : Candidates!Max({0, age}) >= y
    BY <2>1 DEF Candidates!Max
  <2> QED BY <2>2
<1> DEFINE n == Candidates!Max({0, age})
<1>2. 2 ^ n \in Nat \ {0}
  BY <1>1, PowerOfTwo
<1>3. Candidates!Decay(age) = Fraction(1, 2 ^ n)
  BY PastFraction DEF Candidates!Decay
<1> HIDE DEF n
<1> QED BY <1>2, <1>3, SmallFractions

\* The weight of some rows is a fraction, and positive when there are rows.
LEMMA WeightIs ==
  ASSUME NEW S, IsFiniteSet(S), NEW cutoff \in Int, \A r \in S : m3[r[1]] \in Int
  PROVE  /\ Candidates!Weight(S, cutoff) \in Frac /\ Candidates!Weight(S, cutoff)[1] >= 0
         /\ S # {} => Positive(Candidates!Weight(S, cutoff))
<1> DEFINE f == [r \in S |-> Candidates!Decay(cutoff - m3[r[1]])]
           c == [s \in SUBSET S |-> CHOOSE x \in s : TRUE]
           Sum(g) == [s \in SUBSET S |-> IF s = {} THEN Candidates!Q(0)
                        ELSE Candidates!Plus(g[s \ {CHOOSE x \in s : TRUE}],
                                  Candidates!Decay(cutoff - m3[(CHOOSE x \in s : TRUE)[1]]))]
           Fold(g) == [s \in SUBSET S |-> IF s = {} THEN Q(0) ELSE Plus(g[s \ {c[s]}], f[c[s]])]
<1>1. f \in [S -> Frac] /\ \A r \in S : Positive(f[r]) /\ f[r] \in Frac /\ f[r][1] >= 0
  <2>1. \A r \in S : cutoff - m3[r[1]] \in Int
    OBVIOUS
  <2>2. \A r \in S : f[r] \in Frac /\ Positive(f[r])
    BY <2>1, DecayIs
  <2> DEFINE d(r) == Candidates!Decay(cutoff - m3[r[1]])
  <2>3. \A r \in S : d(r) \in Frac
    BY <2>1, DecayIs
  <2>4. f = [r \in S |-> d(r)]
    OBVIOUS
  <2> HIDE DEF d, f
  <2>5. f \in [S -> Frac]
    BY <2>3, <2>4
  <2>6. \A r \in S : f[r][1] >= 0
    BY <2>2, FracParts DEF Positive
  <2> QED BY <2>2, <2>5, <2>6
<1>2. Picks(c, S)
  BY DEF Picks
<1>3. ASSUME NEW g PROVE Sum(g) = Fold(g)
  <2>1. ASSUME NEW s \in SUBSET S
        PROVE  (IF s = {} THEN Candidates!Q(0)
                  ELSE Candidates!Plus(g[s \ {CHOOSE x \in s : TRUE}],
                           Candidates!Decay(cutoff - m3[(CHOOSE x \in s : TRUE)[1]])))
                 = (IF s = {} THEN Q(0) ELSE Plus(g[s \ {c[s]}], f[c[s]]))
    <3>1. CASE s # {}
      <4>1. c[s] = (CHOOSE x \in s : TRUE) /\ c[s] \in S
        BY <1>2, <3>1 DEF Picks
      <4>2. f[c[s]] = Candidates!Decay(cutoff - m3[(CHOOSE x \in s : TRUE)[1]])
        BY <4>1
      <4> HIDE DEF f, c
      <4> QED BY <3>1, <4>1, <4>2, PastArithmetic
    <3>2. CASE s = {}
      BY <3>2, PastFraction
    <3> QED BY <3>1, <3>2
  <2> HIDE DEF f, c
  <2> QED BY <2>1
<1>4. PICK g : PlusFold(g, f, c, S)
  <2> HIDE DEF f, c
  <2> QED BY <1>1, <1>2, PlusFoldExists
<1> DEFINE h == CHOOSE h : h = Sum(h)
<1>5. h = Sum(h)
  <2>1. g = Fold(g)
    <3> HIDE DEF f, c
    <3> QED BY <1>4, Zenon DEF PlusFold
  <2> HIDE DEF Sum, Fold
  <2>2. g = Sum(g)
    BY <1>3, <2>1
  <2> QED BY <2>2
<1>6. PlusFold(h, f, c, S)
  <2>1. h = Fold(h)
    <3> HIDE DEF Sum, Fold, h
    <3> QED BY <1>3, <1>5
  <2> HIDE DEF f, c, h
  <2> QED BY <2>1, Zenon DEF PlusFold
<1>7. Candidates!Weight(S, cutoff) = h[S]
  BY Zenon DEF Candidates!Weight, Candidates!FoldSet, Candidates!MapThenFoldSet
<1> HIDE DEF h, f, c
<1> QED BY <1>1, <1>2, <1>6, <1>7, PlusFoldIs

\* The rows, and what is drawn from them, are those of the record.
LEMMA RowsKept ==
  ASSUME m2' = m2, m3' = m3
  PROVE  /\ Candidates!Row' = Candidates!Row
         /\ \A rows, t, c : Candidates!Knowable(rows, t, c)' = Candidates!Knowable(rows, t, c)
         /\ \A r, t : /\ Candidates!InActivity(r, t)' <=> Candidates!InActivity(r, t)
                      /\ Candidates!WithAgency(r, t)' <=> Candidates!WithAgency(r, t)
                      /\ Candidates!Relevant(r, t)' <=> Candidates!Relevant(r, t)
<1>1. Candidates!Row' = Candidates!Row
  BY Zenon DEF Candidates!Row
<1>2. \A rows, t, c : Candidates!Knowable(rows, t, c)' = Candidates!Knowable(rows, t, c)
  BY Zenon DEF Candidates!Knowable
<1>3. \A r, t : /\ Candidates!InActivity(r, t)' <=> Candidates!InActivity(r, t)
                /\ Candidates!WithAgency(r, t)' <=> Candidates!WithAgency(r, t)
  BY Zenon DEF Candidates!InActivity, Candidates!WithAgency
<1>4. \A r, t : Candidates!Relevant(r, t)' <=> Candidates!Relevant(r, t)
  BY <1>3, Zenon DEF Candidates!Relevant
<1> QED BY <1>1, <1>2, <1>3, <1>4

\* A weight depends on the moments of the harvest alone.
LEMMA WeightKept ==
  ASSUME m3' = m3
  PROVE  \A S, c : Candidates!Weight(S, c)' = Candidates!Weight(S, c)
<1> SUFFICES ASSUME NEW S, NEW c PROVE Candidates!Weight(S, c)' = Candidates!Weight(S, c)
  OBVIOUS
<1> QED BY ZenonT(40) DEF Candidates!Weight, Candidates!FoldSet, Candidates!MapThenFoldSet

\* A base rate depends on the record alone.
LEMMA BaseRateKept ==
  ASSUME m2' = m2
  PROVE  \A rows, t : Candidates!BaseRate(rows, t)' = Candidates!BaseRate(rows, t)
<1> SUFFICES ASSUME NEW rows, NEW t
             PROVE  Candidates!BaseRate(rows, t)' = Candidates!BaseRate(rows, t)
  OBVIOUS
<1> DEFINE scoped == {r \in rows : m2[t].activity = Candidates!Unknown \/ Candidates!InActivity(r, t)}
           rate(S) == LET tenders == {r[1] : r \in S}
                          vendors == {r[2] : r \in S}
                          quotient == Candidates!Fraction(Candidates!Cardinality(S),
                            Candidates!Cardinality(tenders) * Candidates!Cardinality(vendors))
                      IN IF Candidates!Cardinality(tenders) < PastMinTenders \/ vendors = {}
                         THEN <<2, 100>>
                         ELSE Candidates!Higher(<<2, 1000>>, Candidates!Lower(<<1, 2>>, quotient))
<1>1. Candidates!BaseRate(rows, t) = rate(scoped)
  BY Zenon DEF Candidates!BaseRate
<1>2. Candidates!BaseRate(rows, t)' = rate(scoped')
  BY Zenon DEF Candidates!BaseRate
<1>3. scoped' = scoped
  BY Zenon DEF Candidates!InActivity
<1> HIDE DEF scoped, rate
<1> QED BY <1>1, <1>2, <1>3

\* An estimate is that of the record, while nothing is recorded.
LEMMA EstimateKept ==
  ASSUME m2' = m2, m3' = m3
  PROVE  \A rows, v, t, c, rate :
           Candidates!Estimate(rows, v, t, c, rate)' = Candidates!Estimate(rows, v, t, c, rate)
<1> SUFFICES ASSUME NEW rows, NEW v, NEW t, NEW c, NEW rate
             PROVE  Candidates!Estimate(rows, v, t, c, rate)' = Candidates!Estimate(rows, v, t, c, rate)
  OBVIOUS
<1> DEFINE own == Candidates!Of(rows, v)
           active == {r \in own : Candidates!InActivity(r, t)}
           loyal == {r \in own : Candidates!WithAgency(r, t)}
           relevant == {r \in own : Candidates!Relevant(r, t)}
           ages == {c - m3[r[1]] : r \in own}
           said(a, b, r, g, wOwn, wA, wB) ==
             LET linear == Candidates!Plus(Candidates!Times(Candidates!Q(10), Candidates!Over(wA, wOwn)),
                             Candidates!Plus(Candidates!Times(Candidates!Q(7), Candidates!Over(wB, wOwn)),
                               Candidates!Times(Candidates!Q(4), Candidates!Decay(Candidates!Min(g)))))
                 n == Candidates!Cardinality(r)
             IN [vendor |-> v, n |-> n, stated |-> n >= PastEvidence, rate |-> rate,
                 score |-> IF n >= PastEvidence THEN linear ELSE Candidates!Q(0)]
<1>1. Candidates!Estimate(rows, v, t, c, rate)
        = said(active, loyal, relevant, ages, Candidates!Weight(own, c),
               Candidates!Weight(active, c), Candidates!Weight(loyal, c))
  BY Zenon DEF Candidates!Estimate
<1>2. Candidates!Estimate(rows, v, t, c, rate)'
        = said(active', loyal', relevant', ages', Candidates!Weight(own, c)',
               Candidates!Weight(active, c)', Candidates!Weight(loyal, c)')
  BY Zenon DEF Candidates!Estimate
<1>3. active' = active /\ loyal' = loyal /\ relevant' = relevant /\ ages' = ages
  <2>1. active' = active
    BY Zenon DEF Candidates!InActivity
  <2>2. loyal' = loyal
    BY Zenon DEF Candidates!WithAgency
  <2>3. relevant' = relevant
    BY RowsKept, Zenon
  <2>4. ages' = ages
    BY Zenon
  <2> QED BY <2>1, <2>2, <2>3, <2>4
<1>4. /\ Candidates!Weight(own, c)' = Candidates!Weight(own, c)
      /\ Candidates!Weight(active, c)' = Candidates!Weight(active, c)
      /\ Candidates!Weight(loyal, c)' = Candidates!Weight(loyal, c)
  <2>1. Candidates!Weight(own, c)' = Candidates!Weight(own, c)
    BY WeightKept, Zenon
  <2>2. Candidates!Weight(active, c)' = Candidates!Weight(active, c)
    BY WeightKept, <1>3
  <2> QED BY <2>1, <2>2, <1>3, WeightKept
<1> HIDE DEF active, loyal, relevant, ages, said, own
<1> QED BY <1>1, <1>2, <1>3, <1>4

\* So is what a decided tender scores.
LEMMA ScoredKept ==
  ASSUME m2' = m2, m3' = m3
  PROVE  \A t : Candidates!Scored(t)' = Candidates!Scored(t)
<1> SUFFICES ASSUME NEW t PROVE Candidates!Scored(t)' = Candidates!Scored(t)
  OBVIOUS
<1> DEFINE cutoff == m2[t].opens
           history == Candidates!Past(t, cutoff)
           near == {r \in history : Candidates!Relevant(r, t)}
           rate == Candidates!BaseRate(history, t)
           estimates == {Candidates!Estimate(history, v, t, cutoff, rate) : v \in {r[2] : r \in near}}
           said(S, B) == {[of |-> t, says |-> e, hit |-> e.vendor \in B] : e \in {e \in S : e.stated}}
<1>1. Candidates!Scored(t) = said(estimates, m2[t].bidders)
  BY Zenon DEF Candidates!Scored
<1>2. Candidates!Scored(t)' = said(estimates', m2'[t].bidders)
  BY Zenon DEF Candidates!Scored
<1>3. cutoff' = cutoff
  BY Zenon
<1>4. history' = history
  BY Zenon DEF Candidates!Past, Candidates!Knowable, Candidates!Row
<1>5. near' = near
  BY <1>4, RowsKept, Zenon
<1>6. rate' = rate
  BY <1>4, BaseRateKept, Zenon
<1> DEFINE each(v) == Candidates!Estimate(history, v, t, cutoff, rate)
<1>7. ASSUME NEW v PROVE each(v)' = each(v)
  <2>1. \A rows, w, u, c, q :
          Candidates!Estimate(rows, w, u, c, q)' = Candidates!Estimate(rows, w, u, c, q)
    BY EstimateKept
  <2> HIDE DEF history, cutoff, rate
  <2> QED BY <1>3, <1>4, <1>6, <2>1
<1>8. estimates' = estimates
  <2>1. estimates = {each(v) : v \in {r[2] : r \in near}}
    OBVIOUS
  <2>2. estimates' = {each(v)' : v \in {r[2] : r \in near'}}
    OBVIOUS
  <2> HIDE DEF each, near, estimates
  <2> QED BY <2>1, <2>2, <1>5, <1>7, Zenon
<1> HIDE DEF estimates, said
<1> QED BY <1>1, <1>2, <1>8, Zenon

\* And so are the events of a report.
LEMMA EventsKept ==
  ASSUME m2' = m2, m3' = m3
  PROVE  \A m : Candidates!Events(m)' = Candidates!Events(m)
<1> SUFFICES ASSUME NEW m PROVE Candidates!Events(m)' = Candidates!Events(m)
  OBVIOUS
<1>1. Candidates!Placed(m)' = Candidates!Placed(m)
  BY Zenon DEF Candidates!Placed, Candidates!Row
<1> DEFINE placed == Candidates!Placed(m)
           each(t) == Candidates!Scored(t)
<1>2. Candidates!Events(m) = UNION {each(t) : t \in placed}
  BY Zenon DEF Candidates!Events
<1>3. Candidates!Events(m)' = UNION {each(t)' : t \in placed'}
  BY Zenon DEF Candidates!Events
<1>4. ASSUME NEW t PROVE each(t)' = each(t)
  BY ScoredKept
<1>5. placed' = placed
  BY <1>1
<1> HIDE DEF placed, each
<1> QED BY <1>2, <1>3, <1>4, <1>5, Zenon

\* An estimate from rows that are older than the cutoff: a vendor, a count and a fraction.
LEMMA EstimateIs ==
  ASSUME NEW rows, IsFiniteSet(rows), NEW cutoff \in Int, NEW v, NEW t, NEW rate,
         \A r \in rows : m3[r[1]] \in Nat /\ m3[r[1]] < cutoff,
         Candidates!Of(rows, v) # {}
  PROVE  LET e == Candidates!Estimate(rows, v, t, cutoff, rate)
         IN /\ e.vendor = v /\ e.n \in Nat /\ (e.stated <=> e.n >= PastEvidence)
            /\ e.stated \in BOOLEAN /\ e.score \in Frac
<1> DEFINE own == Candidates!Of(rows, v)
           active == {r \in own : Candidates!InActivity(r, t)}
           loyal == {r \in own : Candidates!WithAgency(r, t)}
           relevant == {r \in own : Candidates!Relevant(r, t)}
           ages == {cutoff - m3[r[1]] : r \in own}
           W(S) == Candidates!Weight(S, cutoff)
           last == Candidates!Min(ages)
           linear ==
             Candidates!Plus(Candidates!Times(Candidates!Q(10), Candidates!Over(W(active), W(own))),
               Candidates!Plus(Candidates!Times(Candidates!Q(7), Candidates!Over(W(loyal), W(own))),
                 Candidates!Times(Candidates!Q(4), Candidates!Decay(last))))
           n == Candidates!Cardinality(relevant)
<1>1. own \subseteq rows /\ own # {} /\ IsFiniteSet(own)
  <2>1. own \subseteq rows
    BY DEF Candidates!Of
  <2> QED BY <2>1, FS_Subset
<1>2. /\ active \subseteq own /\ loyal \subseteq own /\ relevant \subseteq own
      /\ IsFiniteSet(active) /\ IsFiniteSet(loyal) /\ IsFiniteSet(relevant)
  <2>1. active \subseteq own /\ loyal \subseteq own /\ relevant \subseteq own
    OBVIOUS
  <2> QED BY <1>1, <2>1, FS_Subset
<1>3. n \in Nat
  BY <1>2, PastCardinality, FS_CardinalityType
<1>4. last \in Int
  <2>1. ages \subseteq Nat /\ ages # {}
    BY <1>1
  <2> HIDE DEF ages
  <2>2. PICK x \in ages : \A y \in ages : x <= y
    BY <2>1, LeastExists
  <2>3. Candidates!Min(ages) \in ages
    BY <2>2 DEF Candidates!Min
  <2>4. last \in Nat
    BY <2>1, <2>3, Zenon
  <2> HIDE DEF last
  <2> QED BY <2>4
<1>5. W(own) \in Frac /\ Positive(W(own)) /\ W(active) \in Frac /\ W(loyal) \in Frac
  <2>1. \A r \in own : m3[r[1]] \in Int
    BY <1>1
  <2>2. (\A r \in active : m3[r[1]] \in Int) /\ (\A r \in loyal : m3[r[1]] \in Int)
    BY <1>2, <2>1
  <2> HIDE DEF own, active, loyal
  <2> QED BY <1>1, <1>2, <2>1, <2>2, WeightIs
<1> DEFINE d == Candidates!Decay(last)
<1>6. d \in Frac
  BY <1>4, DecayIs
<1>7. linear \in Frac
  <2> DEFINE a == W(active)
             b == W(loyal)
             o == W(own)
  <2>1. a \in Frac /\ b \in Frac /\ o \in Frac /\ Positive(o)
    BY <1>5
  <2>2. linear = Plus(Times(Q(10), Over(a, o)), Plus(Times(Q(7), Over(b, o)), Times(Q(4), d)))
    <3> HIDE DEF a, b, o, d
    <3>1. linear = Candidates!Plus(Candidates!Times(Candidates!Q(10), Candidates!Over(a, o)),
                     Candidates!Plus(Candidates!Times(Candidates!Q(7), Candidates!Over(b, o)),
                       Candidates!Times(Candidates!Q(4), d)))
      BY DEF a, b, o, d
    <3> HIDE DEF linear
    <3> QED BY <3>1, PastArithmetic, PastOver, PastFraction
  <2> HIDE DEF linear, a, b, o, d
  <2>3. Over(a, o) \in Frac /\ Over(b, o) \in Frac
    BY <2>1, FracClosed
  <2>4. Q(10) \in Frac /\ Q(7) \in Frac /\ Q(4) \in Frac
    BY SmallFractions
  <2>5. Times(Q(10), Over(a, o)) \in Frac /\ Times(Q(7), Over(b, o)) \in Frac /\ Times(Q(4), d) \in Frac
    BY <1>6, <2>3, <2>4, FracClosed
  <2>6. Plus(Times(Q(7), Over(b, o)), Times(Q(4), d)) \in Frac
    BY <2>5, FracClosed
  <2>7. Plus(Times(Q(10), Over(a, o)), Plus(Times(Q(7), Over(b, o)), Times(Q(4), d))) \in Frac
    BY <2>5, <2>6, FracClosed
  <2> QED BY <2>2, <2>7
<1>8. Candidates!Estimate(rows, v, t, cutoff, rate)
        = [vendor |-> v, n |-> n, stated |-> n >= PastEvidence, rate |-> rate,
           score |-> IF n >= PastEvidence THEN linear ELSE Candidates!Q(0)]
  BY Zenon DEF Candidates!Estimate
<1> DEFINE yes == n >= PastEvidence
           score == IF yes THEN linear ELSE Candidates!Q(0)
<1>9. score \in Frac
  <2>1. Candidates!Q(0) \in Frac
    BY PastFraction, SmallFractions
  <2> HIDE DEF linear, yes
  <2> QED BY <1>7, <2>1
<1>10. yes \in BOOLEAN
  BY <1>3, PastAssumption
<1> DEFINE e == Candidates!Estimate(rows, v, t, cutoff, rate)
<1>11. e = [vendor |-> v, n |-> n, stated |-> yes, rate |-> rate, score |-> score]
  BY <1>8
<1> HIDE DEF n, score, e
<1>12. e.vendor = v /\ e.n = n /\ e.score = score
  BY <1>11
<1>13. e.stated = yes
  BY <1>11
<1>14. yes <=> n >= PastEvidence
  OBVIOUS
<1>15. e.stated \in BOOLEAN
  BY <1>10, <1>13
<1>16. e.stated <=> e.n >= PastEvidence
  BY <1>12, <1>13
<1> QED BY <1>3, <1>9, <1>12, <1>15, <1>16 DEF e

\* What an estimate is.
Estimated(e) ==
  e.vendor \in Int /\ e.n \in Nat /\ (e.stated <=> e.n >= PastEvidence) /\ e.stated \in BOOLEAN
  /\ e.score \in Frac

\* The list is sorted: an estimate is not ahead of itself, and who is ahead of those ahead is
\* ahead.
LEMMA AheadOrders ==
  ASSUME NEW a, NEW b, NEW c, Estimated(a), Estimated(b), Estimated(c)
  PROVE  /\ ~Candidates!Ahead(a, a)
         /\ Candidates!Ahead(a, b) /\ Candidates!Ahead(b, c) => Candidates!Ahead(a, c)
<1> DEFINE more(x, y) == x.n > y.n \/ (x.n = y.n /\ x.vendor < y.vendor)
           yes(x) == x.n >= PastEvidence
           before(x, y) == \/ yes(x) /\ ~yes(y)
                           \/ (yes(x) <=> yes(y)) /\ x.score # y.score /\ Less(y.score, x.score)
                           \/ (yes(x) <=> yes(y)) /\ x.score = y.score /\ more(x, y)
<1>1. ASSUME NEW x, NEW y, Estimated(x), Estimated(y)
      PROVE  Candidates!Ahead(x, y) <=> before(x, y)
  <2>1. (x.stated = y.stated) <=> (yes(x) <=> yes(y))
    BY <1>1, Zenon DEF Estimated
  <2>2. x.stated <=> yes(x)
    BY <1>1 DEF Estimated
  <2>3. Candidates!Less(y.score, x.score) <=> Less(y.score, x.score)
    BY PastLess
  <2> HIDE DEF yes
  <2> QED BY <2>1, <2>2, <2>3, Zenon DEF Candidates!Ahead
<1>2. /\ a.n \in Nat /\ b.n \in Nat /\ c.n \in Nat
      /\ a.vendor \in Int /\ b.vendor \in Int /\ c.vendor \in Int
      /\ a.score \in Frac /\ b.score \in Frac /\ c.score \in Frac
  BY DEF Estimated
<1>3. ~more(a, a) /\ (more(a, b) /\ more(b, c) => more(a, c))
  BY <1>2
<1>4. Less(b.score, a.score) /\ Less(c.score, b.score) => Less(c.score, a.score) /\ a.score # c.score
  <2>1. /\ Leq(c.score, a.score) \/ Leq(a.score, c.score)
        /\ Leq(a.score, c.score) /\ Leq(c.score, b.score) => Leq(a.score, b.score)
        /\ Leq(b.score, a.score) \/ Leq(a.score, b.score)
        /\ Leq(c.score, b.score) \/ Leq(b.score, c.score)
        /\ Leq(a.score, a.score)
    BY <1>2, LeqOrders
  <2> QED BY <2>1 DEF Less
<1>5. before(a, b) /\ before(b, c) => before(a, c)
  <2> HIDE DEF more, yes
  <2> QED BY <1>3, <1>4
<1>6. ~before(a, a)
  <2> HIDE DEF more, yes
  <2> QED BY <1>3
<1> QED BY <1>1, <1>5, <1>6

\* A list of candidates that is shorter than its limit holds what calibration scores: the
\* vendors with a relevant row, each by its own rows.
LEMMA CandidatesAreScored ==
  ASSUME PastState, NEW t \in PastTenders, m2[t].activity # Candidates!Unknown, NEW cutoff \in Int,
         Cardinality(Candidates!Candidates(t, cutoff)) < PastLimit
  PROVE  Candidates!Candidates(t, cutoff) =
           {Candidates!Estimate(Candidates!Past(t, cutoff), v, t, cutoff,
                                Candidates!BaseRate(Candidates!Past(t, cutoff), t)) :
              v \in {r[2] : r \in {r \in Candidates!Past(t, cutoff) : Candidates!Relevant(r, t)}}}
<1> DEFINE past == Candidates!Past(t, cutoff)
           history == Candidates!CandidateHistory(t, cutoff)
           rate == Candidates!BaseRate(history, t)
           vendors == {r[2] : r \in history}
           near == {r[2] : r \in {r \in past : Candidates!Relevant(r, t)}}
           each(v) == Candidates!Estimate(history, v, t, cutoff, rate)
           all == {each(v) : v \in vendors}
           known(v) == Candidates!Estimate(past, v, t, cutoff, Candidates!BaseRate(past, t))
<1>1. /\ past \subseteq Candidates!Row /\ IsFiniteSet(past)
      /\ \A r \in past : r[2] \in PastVendors /\ m3[r[1]] \in Nat /\ m3[r[1]] < cutoff
  <2>1. past \subseteq Candidates!Row /\ \A r \in past : m3[r[1]] < cutoff
    BY DEF Candidates!Past, Candidates!Knowable
  <2>2. IsFiniteSet(past)
    BY <2>1, PastRows, FS_Subset
  <2>3. \A r \in Candidates!Row : r[2] \in PastVendors /\ m3[r[1]] \in Nat
    BY PastRows DEF PastState
  <2> HIDE DEF past
  <2> QED BY <2>1, <2>2, <2>3
<1>2. history = {r \in past : \E s \in Candidates!Of(past, r[2]) : Candidates!Relevant(s, t)}
  BY Zenon DEF Candidates!CandidateHistory, Candidates!Past
<1>3. history \subseteq past /\ IsFiniteSet(history)
  <2>1. history \subseteq past
    BY <1>2
  <2> QED BY <1>1, <2>1, FS_Subset
<1>4. vendors = near
  <2> HIDE DEF past, history
  <2>1. ASSUME NEW r \in history PROVE r[2] \in near
    <3>1. PICK s \in Candidates!Of(past, r[2]) : Candidates!Relevant(s, t)
      BY <1>2
    <3>2. s \in past /\ s[2] = r[2]
      BY <3>1 DEF Candidates!Of
    <3> QED BY <3>1, <3>2
  <2>2. ASSUME NEW s \in past, Candidates!Relevant(s, t) PROVE s \in history
    <3>1. s \in Candidates!Of(past, s[2])
      BY <2>2 DEF Candidates!Of
    <3> QED BY <1>2, <2>2, <3>1
  <2> QED BY <2>1, <2>2
<1>5. \A v \in vendors : Candidates!Of(history, v) = Candidates!Of(past, v)
  <2> HIDE DEF past, history
  <2> SUFFICES ASSUME NEW q \in history PROVE Candidates!Of(history, q[2]) = Candidates!Of(past, q[2])
    OBVIOUS
  <2>1. PICK s \in Candidates!Of(past, q[2]) : Candidates!Relevant(s, t)
    BY <1>2
  <2>2. ASSUME NEW r \in past, r[2] = q[2] PROVE r \in history
    BY <1>2, <2>1, <2>2
  <2>3. history \subseteq past
    BY <1>3
  <2> QED BY <2>2, <2>3 DEF Candidates!Of
<1>6. rate = Candidates!BaseRate(past, t)
  <2> DEFINE scoped(rows) == {r \in rows : m2[t].activity = Candidates!Unknown \/ Candidates!InActivity(r, t)}
  <2>1. scoped(history) = scoped(past)
    <3> HIDE DEF past, history
    <3>1. ASSUME NEW r \in past, Candidates!InActivity(r, t) PROVE r \in history
      <4>1. Candidates!Relevant(r, t)
        BY <3>1 DEF Candidates!Relevant
      <4>2. r \in Candidates!Of(past, r[2])
        BY DEF Candidates!Of
      <4> QED BY <1>2, <4>1, <4>2
    <3>2. history \subseteq past
      BY <1>3
    <3> QED BY <3>1, <3>2
  <2> DEFINE said(S) == LET tenders == {r[1] : r \in S}
                            who == {r[2] : r \in S}
                            quotient == Candidates!Fraction(Candidates!Cardinality(S),
                              Candidates!Cardinality(tenders) * Candidates!Cardinality(who))
                        IN IF Candidates!Cardinality(tenders) < PastMinTenders \/ who = {}
                           THEN <<2, 100>>
                           ELSE Candidates!Higher(<<2, 1000>>, Candidates!Lower(<<1, 2>>, quotient))
  <2>2. ASSUME NEW rows PROVE Candidates!BaseRate(rows, t) = said(scoped(rows))
    BY Zenon DEF Candidates!BaseRate
  <2> HIDE DEF said, scoped, past, history
  <2> QED BY <2>1, <2>2
<1>7. \A v \in vendors : each(v) = known(v)
  <2> DEFINE said(own, q) ==
        LET w == Candidates!Weight(own, cutoff)
            share(S) == Candidates!Over(Candidates!Weight(S, cutoff), w)
            last == Candidates!Min({cutoff - m3[r[1]] : r \in own})
            linear == Candidates!Plus(Candidates!Times(Candidates!Q(10),
                                        share({r \in own : Candidates!InActivity(r, t)})),
                        Candidates!Plus(Candidates!Times(Candidates!Q(7),
                                          share({r \in own : Candidates!WithAgency(r, t)})),
                          Candidates!Times(Candidates!Q(4), Candidates!Decay(last))))
            n == Candidates!Cardinality({r \in own : Candidates!Relevant(r, t)})
        IN [n |-> n, stated |-> n >= PastEvidence, rate |-> q,
            score |-> IF n >= PastEvidence THEN linear ELSE Candidates!Q(0)]
      form(v, x) == [vendor |-> v, n |-> x.n, stated |-> x.stated, rate |-> x.rate, score |-> x.score]
  <2>1. ASSUME NEW rows, NEW v, NEW q
        PROVE  Candidates!Estimate(rows, v, t, cutoff, q) = form(v, said(Candidates!Of(rows, v), q))
    BY Zenon DEF Candidates!Estimate
  <2> HIDE DEF said, form, past, history, vendors
  <2> QED BY <1>5, <1>6, <2>1
<1>8. all = {known(v) : v \in near}
  <2> HIDE DEF each, known, near, vendors
  <2> QED BY <1>4, <1>7
<1>9. Candidates!Estimates(history, t, cutoff) = all
  BY Zenon DEF Candidates!Estimates
<1> DEFINE ahead(e) == {f \in all : Candidates!Ahead(f, e)}
<1>10. Candidates!Candidates(t, cutoff) = {e \in all : Cardinality(ahead(e)) < PastLimit}
  <2>1. Candidates!Candidates(t, cutoff) = Candidates!FirstOf(all)
    BY <1>9, Zenon DEF Candidates!Candidates
  <2> HIDE DEF all
  <2> QED BY <2>1, PastCardinality DEF Candidates!FirstOf
<1>11. IsFiniteSet(all)
  <2>1. vendors \subseteq PastVendors
    BY <1>1, <1>3
  <2>2. IsFiniteSet(vendors)
    BY <2>1, PastAssumption, FS_Subset
  <2> DEFINE m == [v \in vendors |-> each(v)]
  <2> HIDE DEF vendors, each
  <2>3. m \in Surjection(vendors, all)
    BY DEF Surjection
  <2> QED BY <2>2, <2>3, FS_Surjection
<1>12. \A e \in all : Estimated(e)
  <2> SUFFICES ASSUME NEW v \in vendors PROVE Estimated(each(v))
    OBVIOUS
  <2>1. Candidates!Of(history, v) # {}
    BY DEF Candidates!Of
  <2>2. \A r \in history : m3[r[1]] \in Nat /\ m3[r[1]] < cutoff
    BY <1>1, <1>3
  <2>3. v \in Int
    BY <1>1, <1>3, PastAssumption
  <2> HIDE DEF history, vendors, rate
  <2> QED BY <1>3, <2>1, <2>2, <2>3, EstimateIs DEF Estimated
<1> DEFINE b == [e \in all |-> ahead(e)]
<1>13. \A e \in all : Cardinality(b[e]) < PastLimit
  <2> HIDE DEF all
  <2>1. b \in [all -> SUBSET all] /\ \A e, f \in all : f \in b[e] <=> Candidates!Ahead(f, e)
    OBVIOUS
  <2>2. \A e \in all : e \notin b[e]
    BY <1>12, <2>1, AheadOrders
  <2>3. \A i, j, k \in all : i \in b[j] /\ j \in b[k] => i \in b[k]
    BY <1>12, <2>1, AheadOrders
  <2>4. {e \in all : Cardinality(b[e]) < PastLimit} = Candidates!Candidates(t, cutoff)
    BY <1>10
  <2>5. Cardinality({e \in all : Cardinality(b[e]) < PastLimit}) < PastLimit
    BY <2>4
  <2>6. PastLimit \in Nat
    BY PastAssumption
  <2> HIDE DEF b
  <2> QED BY <1>11, <2>1, <2>2, <2>3, <2>5, <2>6, FewAreAll
<1>14. Candidates!Candidates(t, cutoff) = all
  <2> HIDE DEF all
  <2> QED BY <1>10, <1>13
<1> QED BY <1>8, <1>14

\* A list that is shorter than its limit, at the opening of a tender of the pool, is what
\* calibration scored.
LEMMA CalibrationIsServed ==
  ASSUME Candidates!ReportInv
  PROVE  Candidates!CalibratesWhatIsServed
<1> SUFFICES ASSUME m6 # Candidates!Nothing, m6.ok, NEW t \in Candidates!Placed(m6.of),
                    m2[t].activity # Candidates!Unknown,
                    Candidates!Cardinality(Candidates!Candidates(t, m2[t].opens)) < PastLimit
             PROVE  {e.says : e \in {e \in m6.events : e.of = t}}
                      = {e \in Candidates!Candidates(t, m2[t].opens) : e.stated}
  BY Zenon DEF Candidates!CalibratesWhatIsServed
<1>1. PastState /\ t \in PastTenders /\ m2[t].opens \in Int
  <2>1. m2 \in PastRecords /\ m3 \in [PastTenders -> 0..PastClock] /\ t \in PastTenders
    BY DEF Candidates!ReportInv, Candidates!TypeOK, Candidates!Placed
  <2>2. m2 \in [PastTenders -> Candidates!OnRecord] /\ m3 \in [PastTenders -> Nat]
    BY <2>1, PastAssumption
  <2>3. m2[t].opens \in Nat
    BY <2>1, <2>2 DEF Candidates!OnRecord
  <2> QED BY <2>1, <2>2, <2>3 DEF PastState
<1> DEFINE cutoff == m2[t].opens
           said == Candidates!Candidates(t, cutoff)
           past == Candidates!Past(t, cutoff)
           known(v) == Candidates!Estimate(past, v, t, cutoff, Candidates!BaseRate(past, t))
           estimates == {known(v) : v \in {r[2] : r \in {r \in past : Candidates!Relevant(r, t)}}}
           event(u, e) == [of |-> u, says |-> e, hit |-> e.vendor \in m2[u].bidders]
<1>2. said = estimates
  <2> HIDE DEF cutoff
  <2>1. cutoff \in Int /\ Cardinality(Candidates!Candidates(t, cutoff)) < PastLimit
    BY <1>1, PastCardinality DEF cutoff
  <2> QED BY <1>1, <2>1, CandidatesAreScored
<1>3. Candidates!Scored(t) = {event(t, e) : e \in {e \in estimates : e.stated}}
  BY Zenon DEF Candidates!Scored
<1>4. \A u : \A x \in Candidates!Scored(u) : x.of = u
  BY DEF Candidates!Scored
<1>5. m6.events = UNION {Candidates!Scored(u) : u \in Candidates!Placed(m6.of)}
  BY DEF Candidates!ReportInv, Candidates!Events
<1>6. {x \in m6.events : x.of = t} = Candidates!Scored(t)
  <2>1. ASSUME NEW x \in m6.events, x.of = t PROVE x \in Candidates!Scored(t)
    BY <1>4, <1>5, <2>1
  <2>2. ASSUME NEW x \in Candidates!Scored(t) PROVE x \in m6.events /\ x.of = t
    BY <1>4, <1>5
  <2> QED BY <2>1, <2>2
<1>7. \A e : event(t, e).says = e
  OBVIOUS
<1> HIDE DEF estimates, event
<1>8. {x.says : x \in Candidates!Scored(t)} = {e \in estimates : e.stated}
  BY <1>3, <1>7
<1> QED BY <1>2, <1>6, <1>8

\* At first there is no report.
LEMMA PastInit == ASSUME Candidates!Init PROVE Candidates!ReportInv
<1>1. Candidates!Nothing.of = 0 /\ m6 = Candidates!Nothing /\ m5 = Candidates!Nothing
  BY DEF Candidates!Init, Candidates!Nothing
<1>2. m3 \in [PastTenders -> 0..PastClock]
  BY PastAssumption DEF Candidates!Init
<1>3. m1 \in 1..PastClock /\ m2 \in PastRecords /\ m4 \in 0..PastVisits
  BY PastAssumption DEF Candidates!Init
<1>4. m6.of \in 0..PastClock /\ m5.of \in {0} \cup PastTenders
  BY <1>1, PastAssumption
<1> QED BY <1>1, <1>2, <1>3, <1>4 DEF Candidates!ReportInv, Candidates!TypeOK

\* No step changes the record after the report.
LEMMA PastStep ==
  ASSUME Candidates!ReportInv, Candidates!Next \/ UNCHANGED <<m1, m2, m3, m4, m5, m6>>
  PROVE  Candidates!ReportInv'
<1>1. /\ m1 \in 1..PastClock /\ m2 \in PastRecords /\ m4 \in 0..PastVisits
      /\ m3 \in [PastTenders -> 0..PastClock]
      /\ m5.of \in {0} \cup PastTenders /\ m6.of \in 0..PastClock
      /\ m6 # Candidates!Nothing /\ m6.ok => m6.events = Candidates!Events(m6.of)
  BY DEF Candidates!ReportInv, Candidates!TypeOK
<1>2. Candidates!Nothing' = Candidates!Nothing
  BY DEF Candidates!Nothing
<1>3. ASSUME m1' \in 1..PastClock, m2' = m2, m4' \in 0..PastVisits,
             m3' \in [PastTenders -> 0..PastClock],
             m5'.of \in {0} \cup PastTenders, m6'.of \in 0..PastClock,
             m6' # Candidates!Nothing /\ m6'.ok =>
               m3' = m3 /\ m6'.events = Candidates!Events(m6'.of)
      PROVE  Candidates!ReportInv'
  <2>1. Candidates!TypeOK'
    BY <1>1, <1>3 DEF Candidates!TypeOK
  <2>2. ASSUME m6' # Candidates!Nothing /\ m6'.ok PROVE m6'.events = Candidates!Events(m6.of)'
    <3> DEFINE moment == m6.of
    <3>1. \A m : Candidates!Events(m)' = Candidates!Events(m)
      BY <1>3, <2>2, EventsKept
    <3> QED BY <1>3, <2>2, <3>1
  <2> QED BY <1>2, <2>1, <2>2 DEF Candidates!ReportInv
<1>4. CASE Candidates!Tick
  <2>1. m1' \in 1..PastClock
    BY <1>1, <1>4, PastAssumption DEF Candidates!Tick
  <2>2. m2' = m2 /\ m3' = m3 /\ m4' = m4 /\ m5' = m5 /\ m6' = m6
    BY <1>4 DEF Candidates!Tick
  <2> QED BY <1>1, <1>3, <2>1, <2>2
<1>5. ASSUME NEW t \in PastTenders, Candidates!Harvest(t) PROVE Candidates!ReportInv'
  <2>1. m1' = m1 /\ m2' = m2 /\ m5' = m5 /\ m6' = m6 /\ m6 = Candidates!Nothing
    BY <1>5 DEF Candidates!Harvest, Candidates!Quiet
  <2>2. m4' \in 0..PastVisits
    BY <1>1, <1>5, PastAssumption DEF Candidates!Harvest
  <2>3. m3' \in [PastTenders -> 0..PastClock]
    BY <1>1, <1>5 DEF Candidates!Harvest
  <2> QED BY <1>1, <1>3, <2>1, <2>2, <2>3
<1>6. ASSUME NEW t \in PastTenders, NEW asked \in 0..m1, Candidates!Serve(t, asked)
      PROVE  Candidates!ReportInv'
  <2>1. m1' = m1 /\ m2' = m2 /\ m3' = m3 /\ m4' = m4 /\ m6' = m6 /\ m6 = Candidates!Nothing
    BY <1>6 DEF Candidates!Serve, Candidates!Quiet
  <2>2. m5'.of \in {0} \cup PastTenders
    BY <1>6 DEF Candidates!Serve
  <2> QED BY <1>1, <1>3, <2>1, <2>2
<1>7. ASSUME NEW moment \in 1..m1, Candidates!Calibrate(moment) PROVE Candidates!ReportInv'
  <2>1. m1' = m1 /\ m2' = m2 /\ m3' = m3 /\ m4' = m4 /\ m5' = m5
    BY <1>7 DEF Candidates!Calibrate
  <2> DEFINE events == Candidates!Events(moment)
             few == Candidates!Cardinality(events) < PastMinEvents
  <2>2. m6' = IF few THEN [of |-> moment, ok |-> FALSE]
              ELSE [of |-> moment, ok |-> TRUE, events |-> events]
    BY <1>7, Zenon DEF Candidates!Calibrate
  <2>3. moment \in 0..PastClock
    BY <1>1, PastAssumption
  <2> HIDE DEF events, few
  <2>4. CASE few
    <3>1. m6' = [of |-> moment, ok |-> FALSE]
      BY <2>2, <2>4
    <3>2. m6'.of = moment /\ ~m6'.ok
      BY <3>1
    <3> QED BY <1>1, <1>3, <2>1, <2>3, <3>2
  <2>5. CASE ~few
    <3>1. m6' = [of |-> moment, ok |-> TRUE, events |-> events]
      BY <2>2, <2>5
    <3>2. m6'.of = moment /\ m6'.events = events
      BY <3>1
    <3>3. m6'.events = Candidates!Events(m6'.of)
      BY <3>2 DEF events
    <3> QED BY <1>1, <1>3, <2>1, <2>3, <3>2, <3>3
  <2> QED BY <2>4, <2>5
<1>8. CASE UNCHANGED <<m1, m2, m3, m4, m5, m6>>
  <2>1. m1' = m1 /\ m2' = m2 /\ m3' = m3 /\ m4' = m4 /\ m5' = m5 /\ m6' = m6
    BY <1>8
  <2> QED BY <1>1, <1>3, <2>1
<1> QED BY <1>4, <1>5, <1>6, <1>7, <1>8 DEF Candidates!Next

-----------------------------------------------------------------------------
(***************************************************************************)
(* CompetitorBand: m1 .. m7 are clock, corpus, at, market, harvests, asked *)
(* and answer.                                                             *)
(***************************************************************************)
\* The module computes as Evidence does.
LEMMA RivalGcd == Competitor!Gcd = Gcd
  BY DEF Competitor!Gcd, Gcd

\* Its fractions are those of Evidence,
LEMMA RivalFraction == \A n, d : Competitor!Fraction(n, d) = Fraction(n, d) /\ Competitor!Q(n) = Q(n)
  BY RivalGcd DEF Competitor!Fraction, Fraction, Competitor!Magnitude, Magnitude, Competitor!Q, Q

\* its sums, products and order,
LEMMA RivalArithmetic ==
  \A a, b : /\ Competitor!Plus(a, b) = Plus(a, b) /\ Competitor!Times(a, b) = Times(a, b)
            /\ Competitor!Leq(a, b) = Leq(a, b)
<1>1. \A a, b : Competitor!Plus(a, b) = Plus(a, b)
  BY RivalGcd, RivalFraction DEF Competitor!Plus, Plus
<1>2. \A a, b : Competitor!Times(a, b) = Times(a, b)
  BY RivalFraction DEF Competitor!Times, Times
<1>3. \A a, b : Competitor!Leq(a, b) = Leq(a, b)
  BY RivalGcd DEF Competitor!Leq, Leq
<1> QED BY <1>1, <1>2, <1>3

\* and what is defined by them.
LEMMA RivalOperators ==
  \A a, b : /\ Competitor!Over(a, b) = Over(a, b) /\ Competitor!Minus(a, b) = Minus(a, b)
            /\ Competitor!Less(a, b) = Less(a, b)
            /\ Competitor!Lower(a, b) = Lower(a, b) /\ Competitor!Higher(a, b) = Higher(a, b)
<1>1. \A a, b : Competitor!Over(a, b) = Over(a, b)
  BY RivalArithmetic, RivalFraction DEF Competitor!Over, Over
<1>2. \A a, b : Competitor!Minus(a, b) = Minus(a, b)
  BY RivalArithmetic DEF Competitor!Minus, Minus
<1>3. \A a, b : Competitor!Less(a, b) = Less(a, b)
  BY RivalArithmetic DEF Competitor!Less, Less
<1>4. \A a, b : Competitor!Lower(a, b) = Lower(a, b) /\ Competitor!Higher(a, b) = Higher(a, b)
  BY RivalArithmetic DEF Competitor!Lower, Lower, Competitor!Higher, Higher
<1> QED BY <1>1, <1>2, <1>3, <1>4

\* What the instance calls a cardinality is one.
LEMMA RivalCardinality == \A S : Competitor!Cardinality(S) = Cardinality(S)
  BY DEF Competitor!Cardinality, Cardinality

\* Its fractions are those of Evidence.
LEMMA RivalFrac == Competitor!Frac = Frac
  BY DEF Competitor!Frac, Frac

\* An observation's weight is positive.
LEMMA DecayedIs ==
  \A age \in Int : Competitor!Decayed(age) \in Frac /\ Positive(Competitor!Decayed(age))
<1> SUFFICES ASSUME NEW age \in Int
             PROVE  Competitor!Decayed(age) \in Frac /\ Positive(Competitor!Decayed(age))
  OBVIOUS
<1> DEFINE n == Competitor!Max({0, age})
<1>1. n \in Nat
  <2>1. \E x \in {0, age} : \A y \in {0, age} : x >= y
    OBVIOUS
  <2>2. n \in {0, age} /\ \A y \in {0, age} : n >= y
    BY <2>1 DEF Competitor!Max
  <2> HIDE DEF n
  <2> QED BY <2>2
<1>2. 2 ^ n \in Nat \ {0}
  BY <1>1, PowerOfTwo
<1>3. Competitor!Decayed(age) = Fraction(1, 2 ^ n)
  BY RivalFraction DEF Competitor!Decayed
<1> HIDE DEF n
<1> QED BY <1>2, <1>3, SmallFractions

\* The total of a finite sample.
LEMMA SampleTotal ==
  ASSUME NEW S, IsFiniteSet(S), NEW f \in [S -> Frac]
  PROVE  /\ Competitor!Total(f) \in Frac
         /\ (\A o \in S : f[o][1] >= 0) => Competitor!Total(f)[1] >= 0
         /\ (\A o \in S : Positive(f[o])) /\ S # {} => Positive(Competitor!Total(f))
<1> DEFINE c == [s \in SUBSET S |-> CHOOSE x \in s : TRUE]
           Sum(g) == [s \in SUBSET S |-> IF s = {} THEN Competitor!Q(0)
                        ELSE Competitor!Plus(g[s \ {CHOOSE x \in s : TRUE}], f[CHOOSE x \in s : TRUE])]
           Fold(g) == [s \in SUBSET S |-> IF s = {} THEN Q(0) ELSE Plus(g[s \ {c[s]}], f[c[s]])]
<1>2. Picks(c, S)
  BY DEF Picks
<1>3. ASSUME NEW g PROVE Sum(g) = Fold(g)
  <2>1. ASSUME NEW s \in SUBSET S
        PROVE  (IF s = {} THEN Competitor!Q(0)
                  ELSE Competitor!Plus(g[s \ {CHOOSE x \in s : TRUE}], f[CHOOSE x \in s : TRUE]))
                 = (IF s = {} THEN Q(0) ELSE Plus(g[s \ {c[s]}], f[c[s]]))
    <3>1. c[s] = (CHOOSE x \in s : TRUE)
      OBVIOUS
    <3> HIDE DEF c
    <3> QED BY <3>1, RivalArithmetic, RivalFraction
  <2> HIDE DEF c
  <2> QED BY <2>1
<1>4. PICK g : PlusFold(g, f, c, S)
  <2> HIDE DEF c
  <2> QED BY <1>2, PlusFoldExists
<1> DEFINE h == CHOOSE h : h = Sum(h)
<1>5. h = Sum(h)
  <2>1. g = Fold(g)
    <3> HIDE DEF c
    <3> QED BY <1>4, Zenon DEF PlusFold
  <2> HIDE DEF Sum, Fold
  <2>2. g = Sum(g)
    BY <1>3, <2>1
  <2> QED BY <2>2
<1>6. PlusFold(h, f, c, S)
  <2>1. h = Fold(h)
    <3> HIDE DEF Sum, Fold, h
    <3> QED BY <1>3, <1>5
  <2> HIDE DEF c, h
  <2> QED BY <2>1, Zenon DEF PlusFold
<1>7. Competitor!Total(f) = h[S]
  <2>1. DOMAIN f = S
    OBVIOUS
  <2> QED BY <2>1, Zenon DEF Competitor!Total, Competitor!FoldSet, Competitor!MapThenFoldSet
<1> HIDE DEF h, c
<1> QED BY <1>2, <1>6, <1>7, PlusFoldIs

\* The fit of a sample that is not empty: a mean, a positive size and a variance.
LEMMA FitIs ==
  ASSUME NEW S, IsFiniteSet(S), S # {}, NEW weight \in [S -> Frac], \A o \in S : Positive(weight[o]),
         \A o \in S : m2[o].ratio \in Int
  PROVE  Competitor!Fitted(Competitor!Fit(weight))
<1> DEFINE ratio(o) == Competitor!Q(m2[o].ratio)
           squared(o) == Competitor!Square(weight[o])
           moved(o) == Competitor!Times(weight[o], ratio(o))
           squares == [o \in DOMAIN weight |-> squared(o)]
           moves == [o \in DOMAIN weight |-> moved(o)]
           total == Competitor!Total(weight)
           sumOfSquares == Competitor!Total(squares)
           mean == Competitor!Over(Competitor!Total(moves), total)
           apart(o, m) == Competitor!Times(weight[o], Competitor!Square(Competitor!Minus(ratio(o), m)))
           spread(m) == Competitor!Total([o \in DOMAIN weight |-> apart(o, m)])
           freedom == Competitor!Minus(total, Competitor!Over(sumOfSquares, total))
           fit == Competitor!Fit(weight)
<1>1. \A a : Competitor!Square(a) = Times(a, a)
  BY RivalArithmetic DEF Competitor!Square
<1>2. \A o \in S : weight[o] \in Frac /\ ratio(o) \in Frac
  BY RivalFraction, SmallFractions
<1>3. DOMAIN weight = S
  OBVIOUS
<1>4. squares \in [S -> Frac] /\ \A o \in S : Positive(squares[o])
  <2>1. \A o \in S : squared(o) \in Frac /\ Positive(squared(o))
    <3> SUFFICES ASSUME NEW o \in S PROVE squared(o) \in Frac /\ Positive(squared(o))
      OBVIOUS
    <3>1. squared(o) = Times(weight[o], weight[o]) /\ weight[o] \in Frac /\ Positive(weight[o])
      BY <1>1, <1>2
    <3> HIDE DEF squared
    <3> QED BY <3>1, FracClosed, FracSigns
  <2> HIDE DEF squared
  <2> QED BY <1>3, <2>1
<1>5. moves \in [S -> Frac]
  <2>1. \A o \in S : moved(o) \in Frac
    <3> SUFFICES ASSUME NEW o \in S PROVE moved(o) \in Frac
      OBVIOUS
    <3>1. moved(o) = Times(weight[o], ratio(o)) /\ weight[o] \in Frac /\ ratio(o) \in Frac
      BY <1>2, RivalArithmetic
    <3> HIDE DEF moved, ratio
    <3> QED BY <3>1, FracClosed
  <2> HIDE DEF moved
  <2> QED BY <1>3, <2>1
<1>6. total \in Frac /\ Positive(total)
  BY SampleTotal
<1>7. sumOfSquares \in Frac /\ Positive(sumOfSquares)
  <2> HIDE DEF squares
  <2> QED BY <1>4, SampleTotal
<1>8. mean \in Frac
  <2> DEFINE sum == Competitor!Total(moves)
  <2>1. sum \in Frac
    <3> HIDE DEF moves
    <3> QED BY <1>5, SampleTotal
  <2> HIDE DEF sum, total
  <2>2. Competitor!Over(sum, total) = Over(sum, total)
    BY RivalOperators
  <2>3. Over(sum, total) \in Frac
    BY <1>6, <2>1, FracClosed
  <2> QED BY <2>2, <2>3 DEF sum
<1>9. ASSUME NEW m \in Frac PROVE spread(m) \in Frac /\ spread(m)[1] >= 0
  <2> DEFINE g == [o \in DOMAIN weight |-> apart(o, m)]
  <2>1. \A o \in S : apart(o, m) \in Frac /\ apart(o, m)[1] >= 0
    <3> SUFFICES ASSUME NEW o \in S PROVE apart(o, m) \in Frac /\ apart(o, m)[1] >= 0
      OBVIOUS
    <3> DEFINE d == Minus(ratio(o), m)
    <3>1. apart(o, m) = Times(weight[o], Times(d, d))
      <4> HIDE DEF ratio
      <4> QED BY <1>1, RivalArithmetic, RivalOperators
    <3>2. d \in Frac
      <4> HIDE DEF ratio
      <4> QED BY <1>2, FracClosed
    <3> HIDE DEF d, apart
    <3>3. Times(d, d) \in Frac /\ Times(d, d)[1] >= 0
      BY <3>2, FracClosed, SquareSign
    <3>4. weight[o] \in Frac /\ weight[o][1] >= 0
      BY <1>2, FracParts DEF Positive
    <3> DEFINE e == Times(d, d)
               u == weight[o]
    <3> HIDE DEF e, u
    <3>5. apart(o, m) = Times(u, e) /\ u \in Frac /\ e \in Frac /\ u[1] >= 0 /\ e[1] >= 0
      BY <3>1, <3>3, <3>4 DEF e, u
    <3>6. Times(u, e) \in Frac
      BY <3>5, FracClosed
    <3>7. Times(u, e)[1] >= 0
      BY <3>5, FracSigns
    <3> QED BY <3>5, <3>6, <3>7
  <2> HIDE DEF apart
  <2>2. g \in [S -> Frac] /\ \A o \in S : g[o][1] >= 0
    BY <1>3, <2>1
  <2>3. Competitor!Total(g) \in Frac /\ Competitor!Total(g)[1] >= 0
    <3> HIDE DEF g
    <3> QED BY <2>2, SampleTotal
  <2> QED BY <2>3
<1>10. freedom \in Frac
  <2> HIDE DEF sumOfSquares, total
  <2>1. freedom = Minus(total, Over(sumOfSquares, total))
    BY RivalOperators
  <2>2. Over(sumOfSquares, total) \in Frac
    BY <1>6, <1>7, FracClosed
  <2> HIDE DEF freedom
  <2> QED BY <1>6, <2>1, <2>2, FracClosed
<1>11. fit = [mean |-> mean, n |-> Competitor!Over(Competitor!Square(total), sumOfSquares),
              variance |-> IF Competitor!Leq(freedom, Competitor!Q(0)) THEN Competitor!Q(0)
                           ELSE Competitor!Over(spread(mean), freedom)]
  BY Zenon DEF Competitor!Fit
<1>12. Competitor!Over(Competitor!Square(total), sumOfSquares) \in Frac
       /\ Positive(Competitor!Over(Competitor!Square(total), sumOfSquares))
  <2> HIDE DEF total, sumOfSquares
  <2>1. Competitor!Over(Competitor!Square(total), sumOfSquares) = Over(Times(total, total), sumOfSquares)
    BY <1>1, RivalOperators
  <2>2. Times(total, total) \in Frac /\ Positive(Times(total, total))
    BY <1>6, FracClosed, FracSigns
  <2> DEFINE t == Times(total, total)
  <2> HIDE DEF t
  <2>3. t \in Frac /\ Positive(t)
    BY <2>2 DEF t
  <2>4. Over(t, sumOfSquares) \in Frac /\ Positive(Over(t, sumOfSquares))
    BY <1>7, <2>3, FracClosed, FracSigns
  <2> QED BY <2>1, <2>4 DEF t
<1> DEFINE v == IF Competitor!Leq(freedom, Competitor!Q(0)) THEN Competitor!Q(0)
                ELSE Competitor!Over(spread(mean), freedom)
<1>13. v \in Frac /\ v[1] >= 0
  <2> DEFINE s == spread(mean)
  <2>1. s \in Frac /\ s[1] >= 0
    <3> HIDE DEF spread, mean
    <3> QED BY <1>8, <1>9
  <2> HIDE DEF freedom, s
  <2>2. CASE Leq(freedom, Q(0))
    <3>1. v = Q(0)
      BY <2>2, RivalArithmetic, RivalFraction
    <3>2. Q(0) \in Frac /\ Q(0)[1] = 0
      BY SmallFractions DEF Q
    <3> QED BY <3>1, <3>2
  <2>3. CASE ~Leq(freedom, Q(0))
    <3>1. v = Over(s, freedom)
      BY <2>3, RivalArithmetic, RivalFraction, RivalOperators DEF s
    <3>2. Positive(freedom)
      <4>1. Q(0) \in Frac /\ Q(0)[1] = 0 /\ Q(0)[2] = 1
        BY SmallFractions DEF Q
      <4>2. Leq(freedom, Q(0)) <=> freedom[1] * Q(0)[2] <= Q(0)[1] * freedom[2]
        BY <1>10, <4>1, LeqCross
      <4>3. freedom[1] \in Int /\ freedom[2] \in Int
        BY <1>10, FracParts
      <4>4. ~(freedom[1] * 1 <= 0 * freedom[2])
        BY <2>3, <4>1, <4>2
      <4> QED BY <4>3, <4>4 DEF Positive
    <3> HIDE DEF v
    <3> QED BY <1>10, <2>1, <3>1, <3>2, FracClosed, FracSigns
  <2> QED BY <2>2, <2>3
<1> DEFINE n == Competitor!Over(Competitor!Square(total), sumOfSquares)
<1>14. fit = [mean |-> mean, n |-> n, variance |-> v]
  BY <1>11
<1> HIDE DEF fit, mean, n, v
<1>15. fit.mean = mean /\ fit.n = n /\ fit.variance = v
  BY <1>14
<1>16. n \in Frac /\ n[1] > 0
  BY <1>12 DEF n, Positive
<1> QED BY <1>8, <1>13, <1>15, <1>16, RivalFrac DEF Competitor!Fitted, fit

\* The weight of the history is a share.
LEMMA PoolingIs ==
  ASSUME NEW n \in Frac, Positive(n)
  PROVE  LET w == Competitor!Pooling(n) IN w \in Frac /\ w[1] >= 0 /\ Leq(w, Q(1))
<1> DEFINE p == n[1]
           q == n[2]
           k == RivalK
           w == Competitor!Pooling(n)
<1>1. p \in Nat \ {0} /\ q \in Nat \ {0} /\ k \in Nat /\ Stands(n, p, q)
  BY FracParts, StandsForItself, RivalAssumption DEF Positive
<1>2. w = Over(n, Plus(n, Q(k)))
  BY RivalArithmetic, RivalOperators, RivalFraction DEF Competitor!Pooling
<1> HIDE DEF p, q, k, w
<1>3. Stands(Plus(n, Q(k)), p + k * q, q)
  <2>1. Stands(Q(k), k, 1)
    BY <1>1, SmallFractions
  <2>2. Stands(Q(k), k * q, 1 * q)
    BY <1>1, <2>1, StandsExtended
  <2>3. 1 * q = q
    BY <1>1
  <2>4. Stands(Q(k), k * q, q)
    BY <2>2, <2>3
  <2> QED BY <1>1, <2>4, PlusStands
<1> DEFINE r == k * q
           s == p + r
           m == Plus(n, Q(k))
<1>4. r \in Nat
  BY <1>1
<1> HIDE DEF r
<1>5. s \in Nat \ {0}
  BY <1>1, <1>4
<1>6. Stands(m, s, q)
  BY <1>3 DEF r
<1>9. p <= s
  BY <1>1, <1>4
<1> HIDE DEF s, m
<1>7. Stands(Over(n, m), p * q, q * s)
  BY <1>1, <1>5, <1>6, OverStands
<1>8. Stands(w, p * q, q * s)
  BY <1>2, <1>7 DEF m
<1>10. Stands(Q(1), 1, 1)
  BY SmallFractions
<1>11. Leq(w, Q(1)) <=> (p * q) * 1 <= 1 * (q * s)
  BY <1>8, <1>10, LeqStands
<1>12. p * q <= q * s /\ p * q \in Int /\ q * s \in Int
  <2>1. p * q <= s * q
    BY <1>1, <1>5, <1>9, Cancel
  <2>2. q * s = s * q /\ p * q \in Int /\ q * s \in Int
    BY <1>1, <1>5
  <2> QED BY <2>1, <2>2
<1>13. Leq(w, Q(1))
  BY <1>11, <1>12
<1>14. p * q >= 0
  BY <1>1
<1>15. w[1] >= 0
  BY <1>8, <1>14, SignStands
<1>16. w \in Frac
  BY <1>8 DEF Stands
<1> QED BY <1>13, <1>15, <1>16 DEF w

\* Widening a variance does not lower it.
LEMMA WideningRaises ==
  ASSUME NEW a \in Frac, a[1] >= 0, NEW tier
  PROVE  Competitor!Widened(a, tier) \in Frac /\ Leq(a, Competitor!Widened(a, tier))
<1>1. Leq(a, a)
  BY LeqOrders
<1>2. Times(a, <<49, 25>>) \in Frac /\ Leq(a, Times(a, <<49, 25>>))
  <2> DEFINE p == a[1]
             q == a[2]
  <2>1. p \in Nat /\ q \in Nat \ {0} /\ Stands(a, p, q)
    BY FracParts, StandsForItself
  <2>2. <<49, 25>> \in Frac /\ <<49, 25>>[1] = 49 /\ <<49, 25>>[2] = 25
    BY FracIs
  <2> DEFINE f == <<49, 25>>
  <2>3. Stands(f, 49, 25)
    BY <2>2, StandsForItself
  <2> HIDE DEF p, q, f
  <2>4. Stands(Times(a, f), p * 49, q * 25)
    BY <2>1, <2>3, TimesStands
  <2>5. Leq(a, Times(a, f)) <=> p * (q * 25) <= (p * 49) * q
    BY <2>1, <2>4, LeqStands
  <2>6. p * (q * 25) <= (p * 49) * q
    <3> DEFINE r == p * q
    <3>1. p * (q * 25) = 25 * r /\ (p * 49) * q = 49 * r /\ r \in Nat
      BY <2>1
    <3> HIDE DEF r
    <3> QED BY <3>1
  <2>7. Times(a, f) \in Frac
    BY <2>4 DEF Stands
  <2> QED BY <2>5, <2>6, <2>7 DEF f
<1> QED BY <1>1, <1>2, RivalArithmetic DEF Competitor!Widened

\* What is published from two fits is honest about both.
LEMMA PooledIsHonest ==
  ASSUME NEW own, Competitor!Fitted(own), NEW prior, Competitor!Fitted(prior), NEW tier
  PROVE  LET pooled == Competitor!Pooled(own, prior)
             mean == pooled.mean
             variance == Competitor!Widened(pooled.variance, tier)
             w == Competitor!Pooling(own.n)
             x == prior.mean
         IN /\ Competitor!Leq(Competitor!Lower(own.mean, x), mean)
            /\ Competitor!Leq(mean, Competitor!Higher(own.mean, x))
            /\ Competitor!Less(w, <<3, 4>>) => Competitor!Leq(prior.variance, variance)
            /\ Competitor!Leq(RivalVariance, variance)
            /\ Competitor!Leq(
                 Competitor!Plus(
                   Competitor!Times(w, Competitor!Plus(own.variance, Competitor!Square(Competitor!Minus(own.mean, x)))),
                   Competitor!Times(Competitor!Minus(Competitor!Q(1), w),
                     Competitor!Plus(prior.variance, Competitor!Square(Competitor!Minus(prior.mean, x))))),
                 Competitor!Plus(variance, Competitor!Square(Competitor!Minus(mean, x))))
<1> DEFINE n == own.n
           m == own.mean
           u == own.variance
           x == prior.mean
           v == prior.variance
           w == Competitor!Pooling(n)
           rest == Minus(Q(1), w)
           apart == Minus(m, x)
           mean == Plus(Times(w, m), Times(rest, x))
           mixed == Plus(Plus(Times(w, u), Times(rest, v)), Times(Times(w, rest), Times(apart, apart)))
           before == Plus(Times(w, Plus(u, Times(apart, apart))),
                          Times(rest, Plus(v, Times(Minus(x, x), Minus(x, x)))))
           floored == IF Less(w, <<3, 4>>) THEN Higher(mixed, v) ELSE mixed
           least == RivalVariance
           full == Higher(floored, least)
           wide == Competitor!Widened(full, tier)
           off == Times(Minus(mean, x), Minus(mean, x))
<1>1. /\ n \in Frac /\ Positive(n) /\ m \in Frac /\ u \in Frac
      /\ x \in Frac /\ v \in Frac
      /\ least \in Frac /\ Positive(least)
  BY RivalFrac, RivalAssumption DEF Competitor!Fitted, Positive
<1>2. \A a : Competitor!Square(a) = Times(a, a)
  BY RivalArithmetic DEF Competitor!Square
<1>3. /\ Competitor!Pooled(own, prior).mean = mean
      /\ Competitor!Pooled(own, prior).variance = full
  <2> DEFINE far == Competitor!Less(w, <<3, 4>>)
             cmixed == Competitor!Plus(Competitor!Plus(Competitor!Times(w, u), Competitor!Times(Competitor!Minus(Competitor!Q(1), w), v)),
                         Competitor!Times(Competitor!Times(w, Competitor!Minus(Competitor!Q(1), w)),
                                          Competitor!Square(Competitor!Minus(m, x))))
             cmean == Competitor!Plus(Competitor!Times(w, m), Competitor!Times(Competitor!Minus(Competitor!Q(1), w), x))
             cfull == Competitor!Higher(IF far THEN Competitor!Higher(cmixed, v) ELSE cmixed, least)
  <2>1. Competitor!Pooled(own, prior) = [mean |-> cmean, variance |-> cfull]
    BY Zenon DEF Competitor!Pooled
  <2> HIDE DEF w, m, x, u, v, least
  <2>2. cmean = mean
    BY RivalArithmetic, RivalOperators, RivalFraction
  <2>3. cmixed = mixed
    BY <1>2, RivalArithmetic, RivalOperators, RivalFraction
  <2>4. far <=> Less(w, <<3, 4>>)
    BY RivalOperators
  <2> HIDE DEF cmixed, mixed, far
  <2>5. cfull = full
    BY <2>3, <2>4, RivalOperators
  <2> HIDE DEF cmean, cfull, mean, full
  <2> QED BY <2>1, <2>2, <2>5
<1>4. w \in Frac /\ w[1] >= 0 /\ Leq(w, Q(1))
  BY <1>1, PoolingIs
<1> HIDE DEF n, m, u, x, v, w, least
<1>5. /\ mean \in Frac /\ mixed \in Frac
      /\ Leq(Lower(m, x), mean) /\ Leq(mean, Higher(m, x))
      /\ Leq(before, Plus(mixed, off))
  BY <1>1, <1>4, PoolIs
<1> HIDE DEF mean, mixed, before
<1>6. off \in Frac
  <2> DEFINE e == Minus(mean, x)
  <2>1. e \in Frac
    BY <1>1, <1>5, FracClosed
  <2> HIDE DEF e
  <2>2. Times(e, e) \in Frac
    BY <2>1, FracClosed
  <2> QED BY <2>2 DEF e
<1>7. floored \in Frac /\ Leq(mixed, floored) /\ (Less(w, <<3, 4>>) => Leq(v, floored))
  BY <1>1, <1>5, HigherIs, LeqOrders
<1> HIDE DEF floored, off
<1>8. full \in Frac /\ Leq(floored, full) /\ Leq(least, full)
  BY <1>1, <1>7, HigherIs
<1> HIDE DEF full
<1>9. full[1] >= 0
  <2>1. Positive(full)
    BY <1>1, <1>8, AbovePositive
  <2>2. full[1] \in Int
    BY <1>8, FracParts
  <2> QED BY <2>1, <2>2 DEF Positive
<1>10. wide \in Frac /\ Leq(full, wide)
  BY <1>8, <1>9, WideningRaises
<1> HIDE DEF wide
<1>11. Leq(least, wide)
  BY <1>1, <1>8, <1>10, LeqTransitive
<1>12. Leq(floored, wide)
  BY <1>7, <1>8, <1>10, LeqTransitive
<1>13. Less(w, <<3, 4>>) => Leq(v, wide)
  BY <1>1, <1>7, <1>10, <1>12, LeqTransitive
<1>14. Leq(mixed, wide)
  BY <1>5, <1>7, <1>10, <1>12, LeqTransitive
<1>15. Leq(before, Plus(wide, off))
  <2>1. Leq(Plus(mixed, off), Plus(wide, off))
    BY <1>5, <1>6, <1>10, <1>14, PlusKeepsOrder
  <2>2. Plus(mixed, off) \in Frac /\ Plus(wide, off) \in Frac
    BY <1>5, <1>6, <1>10, FracClosed
  <2>3. before \in Frac
    <3>0. Q(1) \in Frac
      BY SmallFractions
    <3>1. rest \in Frac /\ apart \in Frac /\ Minus(x, x) \in Frac
      <4> DEFINE one == Q(1)
      <4>1. one \in Frac /\ rest = Minus(one, w)
        BY <3>0
      <4> HIDE DEF one, rest
      <4> QED BY <1>1, <1>4, <4>1, FracClosed
    <3> HIDE DEF rest, apart
    <3> DEFINE y == Minus(x, x)
    <3>2. y \in Frac
      BY <3>1
    <3> HIDE DEF y
    <3>3. Times(apart, apart) \in Frac /\ Times(y, y) \in Frac
      BY <3>1, <3>2, FracClosed
    <3>4. Plus(u, Times(apart, apart)) \in Frac /\ Plus(v, Times(y, y)) \in Frac
      BY <1>1, <3>3, FracClosed
    <3>5. Times(w, Plus(u, Times(apart, apart))) \in Frac /\ Times(rest, Plus(v, Times(y, y))) \in Frac
      BY <1>4, <3>1, <3>4, FracClosed
    <3>6. Plus(Times(w, Plus(u, Times(apart, apart))), Times(rest, Plus(v, Times(y, y)))) \in Frac
      BY <3>5, FracClosed
    <3> QED BY <3>6 DEF before, y, rest, apart
  <2> QED BY <1>5, <2>1, <2>2, <2>3, LeqTransitive
<1>16. /\ Competitor!Leq(Competitor!Lower(m, x), mean)
       /\ Competitor!Leq(mean, Competitor!Higher(m, x))
       /\ Competitor!Less(w, <<3, 4>>) => Competitor!Leq(v, wide)
       /\ Competitor!Leq(least, wide)
  BY <1>5, <1>11, <1>13, RivalArithmetic, RivalOperators
<1>17. Competitor!Plus(
         Competitor!Times(w, Competitor!Plus(u, Competitor!Square(Competitor!Minus(m, x)))),
         Competitor!Times(Competitor!Minus(Competitor!Q(1), w),
           Competitor!Plus(v, Competitor!Square(Competitor!Minus(x, x))))) = before
  BY <1>2, RivalArithmetic, RivalOperators, RivalFraction DEF before
<1>18. Competitor!Plus(wide, Competitor!Square(Competitor!Minus(mean, x))) = Plus(wide, off)
  BY <1>2, RivalArithmetic, RivalOperators DEF off
<1>19. Competitor!Leq(before, Plus(wide, off))
  BY <1>15, RivalArithmetic
<1> QED BY <1>3, <1>16, <1>17, <1>18, <1>19 DEF wide, n, m, u, x, v, w, least

\* What is on record: the offers, and the moments they became knowable.
RivalState ==
  /\ m2 \in [RivalOffers -> [rival : BOOLEAN, same : BOOLEAN, own : BOOLEAN, ratio : Int]]
  /\ m3 \in [RivalOffers -> Nat]

\* A sample that is not empty can be fitted, with the weights of its model or of its category.
LEMMA SampleFits ==
  ASSUME RivalState, NEW cutoff \in Int, NEW S \in SUBSET RivalOffers, S # {}
  PROVE  /\ Competitor!Fitted(Competitor!Fit([o \in S |-> Competitor!Weight(o, cutoff)]))
         /\ Competitor!Fitted(Competitor!Fit([o \in S |-> Competitor!Decayed(cutoff - m3[o])]))
<1> DEFINE d(o) == Competitor!Decayed(cutoff - m3[o])
           near(o) == Competitor!Weight(o, cutoff)
           f == [o \in S |-> d(o)]
           g == [o \in S |-> near(o)]
<1>1. IsFiniteSet(S) /\ \A o \in S : m2[o].ratio \in Int /\ m3[o] \in Int
  BY RivalAssumption, FS_Subset DEF RivalState
<1>2. \A o \in S : d(o) \in Frac /\ Positive(d(o))
  BY <1>1, DecayedIs
<1>3. \A o \in S : near(o) \in Frac /\ Positive(near(o))
  <2> SUFFICES ASSUME NEW o \in S PROVE near(o) \in Frac /\ Positive(near(o))
    OBVIOUS
  <2> DEFINE k == IF m2[o].same THEN Competitor!Q(1) ELSE <<1, 2>>
             e == d(o)
  <2>1. near(o) = Times(e, k)
    BY RivalArithmetic DEF Competitor!Weight
  <2>2. k \in Frac /\ Positive(k)
    <3>1. Q(1) \in Frac /\ Q(1)[1] = 1 /\ Competitor!Q(1) = Q(1)
      BY SmallFractions, RivalFraction DEF Q
    <3>2. <<1, 2>> \in Frac /\ <<1, 2>>[1] = 1
      BY FracIs
    <3> QED BY <3>1, <3>2 DEF Positive
  <2>3. e \in Frac /\ Positive(e)
    BY <1>2
  <2> HIDE DEF near, k, e
  <2> QED BY <2>1, <2>2, <2>3, FracClosed, FracSigns
<1> HIDE DEF d, near
<1>4. f \in [S -> Frac] /\ \A o \in S : Positive(f[o])
  BY <1>2
<1>5. g \in [S -> Frac] /\ \A o \in S : Positive(g[o])
  BY <1>3
<1> HIDE DEF f, g
<1>6. Competitor!Fitted(Competitor!Fit(f)) /\ Competitor!Fitted(Competitor!Fit(g))
  BY <1>1, <1>4, <1>5, FitIs
<1> QED BY <1>6 DEF f, g, d, near

\* At first nothing is asked or answered.
LEMMA RivalInit == ASSUME Competitor!Init PROVE Competitor!PoolingInv
<1>1. Competitor!Nothing.step = "none" /\ m6 = Competitor!Nothing /\ m7 = Competitor!Nothing
  BY DEF Competitor!Init, Competitor!Nothing
<1>2. Competitor!TypeOK
  BY <1>1, RivalAssumption DEF Competitor!Init, Competitor!TypeOK
<1> QED BY <1>1, <1>2 DEF Competitor!PoolingInv, Competitor!PoolingIsHonest

\* A reason not to say anything is not the empty one.
LEMMA SuppressedIs ==
  \A why \in {"INSUFFICIENT_EVIDENCE", "MODEL_UNAVAILABLE", "NO_COMPARABLE_TENDERS"} :
    Competitor!Suppressed(why).step = "done" /\ Competitor!Suppressed(why).why # "none"
BY DEF Competitor!Suppressed

\* A band is published from two fits, and nothing is done to it after.
LEMMA RivalStep ==
  ASSUME Competitor!PoolingInv, Competitor!Next \/ UNCHANGED <<m1, m2, m3, m4, m5, m6, m7>>
  PROVE  Competitor!PoolingInv'
<1>1. /\ m1 \in 1..RivalClock /\ m5 \in 0..RivalVisits
      /\ m2 \in RivalCorpora /\ m4 \in RivalBackgrounds
      /\ m3 \in [RivalOffers -> 0..RivalClock]
      /\ m6.step \in {"none", "fit", "pool"} /\ m7.step \in {"none", "done"}
      /\ m6 # Competitor!Nothing => m6.cutoff \in 1..m1 /\ Competitor!AllowsCompetitor(m6.tier)
      /\ m6.step = "pool" => Competitor!Fitted(m6.own)
      /\ Competitor!PoolingIsHonest
  BY DEF Competitor!PoolingInv, Competitor!TypeOK
<1>2. RivalState
  <2>1. m3 \in [RivalOffers -> Nat]
    BY <1>1, RivalAssumption
  <2> QED BY <1>1, <2>1, RivalAssumption DEF RivalState
<1>3. Competitor!Nothing' = Competitor!Nothing /\ Competitor!Nothing.step = "none"
  BY DEF Competitor!Nothing
<1>4. ASSUME m7' = m7 PROVE Competitor!PoolingIsHonest'
  BY <1>1, <1>4, Zenon DEF Competitor!PoolingIsHonest, Competitor!Nothing
<1>5. ASSUME m7'.why # "none" PROVE Competitor!PoolingIsHonest'
  BY <1>5, Zenon DEF Competitor!PoolingIsHonest
<1>6. ASSUME m1' \in 1..RivalClock, m5' \in 0..RivalVisits, m2' = m2, m4' = m4,
             m3' \in [RivalOffers -> 0..RivalClock],
             m6'.step \in {"none", "fit", "pool"}, m7'.step \in {"none", "done"},
             m6' # Competitor!Nothing => m6'.cutoff \in 1..m1' /\ Competitor!AllowsCompetitor(m6'.tier),
             m6'.step = "pool" => Competitor!Fitted(m6'.own),
             Competitor!PoolingIsHonest'
      PROVE  Competitor!PoolingInv'
  <2>1. Competitor!TypeOK'
    BY <1>1, <1>6 DEF Competitor!TypeOK
  <2>2. m6' # Competitor!Nothing' => m6'.cutoff \in 1..m1' /\ Competitor!AllowsCompetitor(m6.tier)'
    BY <1>3, <1>6 DEF Competitor!AllowsCompetitor
  <2>3. m6'.step = "pool" => Competitor!Fitted(m6.own)'
    BY <1>6 DEF Competitor!Fitted
  <2> QED BY <1>6, <2>1, <2>2, <2>3 DEF Competitor!PoolingInv
<1>7. CASE Competitor!Tick
  <2>1. m2' = m2 /\ m3' = m3 /\ m4' = m4 /\ m5' = m5 /\ m6' = m6 /\ m7' = m7
    BY <1>7 DEF Competitor!Tick
  <2>2. m1' = m1 + 1 /\ m1' \in 1..RivalClock
    BY <1>1, <1>7, RivalAssumption DEF Competitor!Tick
  <2>3. \A c \in 1..m1 : c \in 1..m1'
    BY <1>1, <2>2, RivalAssumption
  <2> QED BY <1>1, <1>4, <1>6, <2>1, <2>2, <2>3
<1>8. ASSUME NEW o \in RivalOffers, Competitor!Harvest(o) PROVE Competitor!PoolingInv'
  <2>1. m1' = m1 /\ m2' = m2 /\ m4' = m4 /\ m6' = m6 /\ m7' = m7
    BY <1>8 DEF Competitor!Harvest
  <2>2. m5' \in 0..RivalVisits
    BY <1>1, <1>8, RivalAssumption DEF Competitor!Harvest
  <2>3. m3' \in [RivalOffers -> 0..RivalClock]
    BY <1>1, <1>8 DEF Competitor!Harvest
  <2> QED BY <1>1, <1>4, <1>6, <2>1, <2>2, <2>3
<1>9. ASSUME NEW cutoff \in 1..m1, Competitor!Assess(cutoff) PROVE Competitor!PoolingInv'
  <2> DEFINE tier == Competitor!Grade(cutoff).tier
             fine == Competitor!AllowsCompetitor(tier) /\ m4.priced
  <2>1. m1' = m1 /\ m2' = m2 /\ m3' = m3 /\ m4' = m4 /\ m5' = m5
    BY <1>9, Zenon DEF Competitor!Assess
  <2>2. CASE fine
    <3>1. m6' = [step |-> "fit", cutoff |-> cutoff, tier |-> tier] /\ m7' = m7
      BY <1>9, <2>2, Zenon DEF Competitor!Assess
    <3> HIDE DEF tier
    <3>2. m6'.step = "fit" /\ m6'.cutoff = cutoff /\ m6'.tier = tier
      BY <3>1
    <3>3. Competitor!AllowsCompetitor(m6'.tier)
      BY <2>2, <3>2
    <3> QED BY <1>1, <1>4, <1>6, <2>1, <3>1, <3>2, <3>3
  <2>3. CASE ~fine
    <3> DEFINE why == IF Competitor!AllowsCompetitor(tier) THEN "MODEL_UNAVAILABLE" ELSE "INSUFFICIENT_EVIDENCE"
    <3>1. m6' = m6 /\ m7' = Competitor!Suppressed(why)
      BY <1>9, <2>3, Zenon DEF Competitor!Assess
    <3>0. why \in {"INSUFFICIENT_EVIDENCE", "MODEL_UNAVAILABLE", "NO_COMPARABLE_TENDERS"}
      OBVIOUS
    <3> HIDE DEF why
    <3>2. m7'.step = "done" /\ m7'.why # "none"
      BY <3>0, <3>1, SuppressedIs
    <3> QED BY <1>1, <1>5, <1>6, <2>1, <3>1, <3>2
  <2> QED BY <2>2, <2>3
<1>10. CASE Competitor!ReadHistory
  <2> DEFINE S == Competitor!History(m6.cutoff)
             own == Competitor!Fit([o \in S |-> Competitor!Weight(o, m6.cutoff)])
  <2>1. /\ m1' = m1 /\ m2' = m2 /\ m3' = m3 /\ m4' = m4 /\ m5' = m5 /\ m6.step = "fit"
    BY <1>10 DEF Competitor!ReadHistory
  <2>2. m6.cutoff \in 1..m1 /\ Competitor!AllowsCompetitor(m6.tier)
    BY <1>1, <1>3, <2>1
  <2>3. CASE S = {}
    <3>1. m6' = Competitor!Nothing /\ m7' = Competitor!Suppressed("INSUFFICIENT_EVIDENCE")
      BY <1>10, <2>3, Zenon DEF Competitor!ReadHistory
    <3>2. m7'.step = "done" /\ m7'.why # "none"
      BY <3>1, SuppressedIs
    <3> QED BY <1>1, <1>3, <1>5, <1>6, <2>1, <3>1, <3>2
  <2>4. CASE S # {}
    <3>1. m6' = [step |-> "pool", cutoff |-> m6.cutoff, tier |-> m6.tier, own |-> own] /\ m7' = m7
      BY <1>10, <2>4, Zenon DEF Competitor!ReadHistory
    <3>2. S \subseteq RivalOffers
      BY DEF Competitor!History, Competitor!Knowable
    <3>3. Competitor!Fitted(own)
      <4> DEFINE c == m6.cutoff
      <4>1. c \in Int
        BY <1>1, <2>2
      <4> HIDE DEF S, c
      <4>2. Competitor!Fitted(Competitor!Fit([o \in S |-> Competitor!Weight(o, c)]))
        BY <1>2, <2>4, <3>2, <4>1, SampleFits
      <4> QED BY <4>2 DEF c
    <3> HIDE DEF own
    <3>4. m6'.step = "pool" /\ m6'.cutoff = m6.cutoff /\ m6'.tier = m6.tier /\ m6'.own = own
      BY <3>1
    <3> QED BY <1>1, <1>4, <1>6, <2>1, <2>2, <3>1, <3>3, <3>4
  <2> QED BY <2>3, <2>4
<1>11. CASE Competitor!ReadPrior
  <2> DEFINE S == Competitor!Prior(m6.cutoff)
             prior == Competitor!Fit([o \in S |-> Competitor!Decayed(m6.cutoff - m3[o])])
             pooled == Competitor!Pooled(m6.own, prior)
             wide == Competitor!Widened(pooled.variance, m6.tier)
             few == Competitor!Cardinality(S) < RivalPrior
  <2>1. /\ m1' = m1 /\ m2' = m2 /\ m3' = m3 /\ m4' = m4 /\ m5' = m5 /\ m6.step = "pool"
        /\ m6' = Competitor!Nothing
    BY <1>11, Zenon DEF Competitor!ReadPrior
  <2>2. m6.cutoff \in 1..m1 /\ Competitor!AllowsCompetitor(m6.tier) /\ Competitor!Fitted(m6.own)
    BY <1>1, <1>3, <2>1
  <2>3. m7' = IF few THEN Competitor!Suppressed("NO_COMPARABLE_TENDERS")
              ELSE [step |-> "done", why |-> "none", tier |-> m6.tier, own |-> m6.own,
                    prior |-> prior, mean |-> pooled.mean, variance |-> wide]
    BY <1>11, Zenon DEF Competitor!ReadPrior
  <2>4. CASE few
    <3>1. m7' = Competitor!Suppressed("NO_COMPARABLE_TENDERS")
      BY <2>3, <2>4, Zenon
    <3>2. m7'.step = "done" /\ m7'.why # "none"
      BY <3>1, SuppressedIs
    <3> QED BY <1>1, <1>3, <1>5, <1>6, <2>1, <3>1, <3>2
  <2>5. CASE ~few
    <3>1. S \subseteq RivalOffers
      BY DEF Competitor!Prior, Competitor!Knowable
    <3>2. S # {}
      <4>1. S = {} => Cardinality(S) = 0
        BY FS_EmptySet
      <4>2. Cardinality(S) = Competitor!Cardinality(S)
        BY RivalCardinality
      <4> HIDE DEF S
      <4> QED BY <2>5, <4>1, <4>2, RivalAssumption
    <3>3. Competitor!Fitted(prior)
      <4> DEFINE c == m6.cutoff
      <4>1. c \in Int
        BY <1>1, <2>2
      <4> HIDE DEF S, c
      <4>2. Competitor!Fitted(Competitor!Fit([o \in S |-> Competitor!Decayed(c - m3[o])]))
        BY <1>2, <3>1, <3>2, <4>1, SampleFits
      <4> QED BY <4>2 DEF c
    <3> HIDE DEF prior
    <3>4. m7' = [step |-> "done", why |-> "none", tier |-> m6.tier, own |-> m6.own,
                 prior |-> prior, mean |-> pooled.mean, variance |-> wide]
      BY <2>3, <2>5, Zenon
    <3> DEFINE own == m6.own
               tier == m6.tier
               mean == pooled.mean
               x == prior.mean
               w == Competitor!Pooling(own.n)
    <3>5. /\ Competitor!Leq(Competitor!Lower(own.mean, x), mean)
          /\ Competitor!Leq(mean, Competitor!Higher(own.mean, x))
          /\ Competitor!Less(w, <<3, 4>>) => Competitor!Leq(prior.variance, wide)
          /\ Competitor!Leq(RivalVariance, wide)
          /\ Competitor!Leq(
               Competitor!Plus(
                 Competitor!Times(w, Competitor!Plus(own.variance, Competitor!Square(Competitor!Minus(own.mean, x)))),
                 Competitor!Times(Competitor!Minus(Competitor!Q(1), w),
                   Competitor!Plus(prior.variance, Competitor!Square(Competitor!Minus(prior.mean, x))))),
               Competitor!Plus(wide, Competitor!Square(Competitor!Minus(mean, x))))
      <4> HIDE DEF own, tier
      <4>1. Competitor!Fitted(own)
        BY <2>2 DEF own
      <4> QED BY <3>3, <4>1, PooledIsHonest, Zenon DEF own, tier
    <3> HIDE DEF pooled, wide, prior
    <3>6. /\ m7'.step = "done" /\ m7'.tier = tier /\ m7'.own = own /\ m7'.prior = prior
          /\ m7'.mean = mean /\ m7'.variance = wide
      <4> HIDE DEF prior, own, tier, mean
      <4> QED BY <3>4 DEF own, tier, mean
    <3> HIDE DEF own, tier, mean, x, w
    <3>7. Competitor!PoolingIsHonest'
      <4> SUFFICES ASSUME TRUE
                   PROVE  LET a == m7'
                              z == a.prior.mean
                              y == Competitor!Pooling(a.own.n)
                          IN /\ Competitor!Leq(Competitor!Lower(a.own.mean, a.prior.mean), a.mean)
                             /\ Competitor!Leq(a.mean, Competitor!Higher(a.own.mean, a.prior.mean))
                             /\ Competitor!Less(y, <<3, 4>>) => Competitor!Leq(a.prior.variance, a.variance)
                             /\ Competitor!Leq(RivalVariance, a.variance)
                             /\ Competitor!Leq(
                                  Competitor!Plus(
                                    Competitor!Times(y, Competitor!Plus(a.own.variance, Competitor!Square(Competitor!Minus(a.own.mean, z)))),
                                    Competitor!Times(Competitor!Minus(Competitor!Q(1), y),
                                      Competitor!Plus(a.prior.variance, Competitor!Square(Competitor!Minus(a.prior.mean, z))))),
                                  Competitor!Plus(a.variance, Competitor!Square(Competitor!Minus(a.mean, z))))
                             /\ Competitor!AllowsCompetitor(a.tier)
        BY Zenon DEF Competitor!PoolingIsHonest
      <4>1. m7'.prior.mean = x /\ Competitor!Pooling(m7'.own.n) = w
        BY <3>6 DEF x, w
      <4>2. Competitor!AllowsCompetitor(m7'.tier)
        BY <2>2, <3>6 DEF tier
      <4> QED BY <3>5, <3>6, <4>1, <4>2
    <3> QED BY <1>1, <1>3, <1>6, <2>1, <3>6, <3>7
  <2> QED BY <2>4, <2>5
<1>12. CASE UNCHANGED <<m1, m2, m3, m4, m5, m6, m7>>
  <2>1. m1' = m1 /\ m2' = m2 /\ m3' = m3 /\ m4' = m4 /\ m5' = m5 /\ m6' = m6 /\ m7' = m7
    BY <1>12
  <2> QED BY <1>1, <1>4, <1>6, <2>1
<1> QED BY <1>7, <1>8, <1>9, <1>10, <1>11, <1>12 DEF Competitor!Next

-----------------------------------------------------------------------------
(***************************************************************************)
(* MarketBand: m1 .. m9 are clock, subject, profile, outcome, award,       *)
(* series, harvests, asked and answer.                                     *)
(***************************************************************************)
\* The module computes as Evidence does.
LEMMA MarketGcd == Market!Gcd = Gcd
  BY DEF Market!Gcd, Gcd

\* Its fractions are those of Evidence,
LEMMA MarketFraction == \A n, d : Market!Fraction(n, d) = Fraction(n, d) /\ Market!Q(n) = Q(n)
  BY MarketGcd DEF Market!Fraction, Fraction, Market!Magnitude, Magnitude, Market!Q, Q

\* its sums, products and order,
LEMMA MarketArithmetic ==
  \A a, b : /\ Market!Plus(a, b) = Plus(a, b) /\ Market!Times(a, b) = Times(a, b)
            /\ Market!Leq(a, b) = Leq(a, b)
<1>1. \A a, b : Market!Plus(a, b) = Plus(a, b)
  BY MarketGcd, MarketFraction DEF Market!Plus, Plus
<1>2. \A a, b : Market!Times(a, b) = Times(a, b)
  BY MarketFraction DEF Market!Times, Times
<1>3. \A a, b : Market!Leq(a, b) = Leq(a, b)
  BY MarketGcd DEF Market!Leq, Leq
<1> QED BY <1>1, <1>2, <1>3

\* and what is defined by them.
LEMMA MarketOperators ==
  \A a, b : /\ Market!Over(a, b) = Over(a, b) /\ Market!Minus(a, b) = Minus(a, b)
            /\ Market!Less(a, b) = Less(a, b)
            /\ Market!Lower(a, b) = Lower(a, b) /\ Market!Higher(a, b) = Higher(a, b)
<1>1. \A a, b : Market!Over(a, b) = Over(a, b)
  BY MarketArithmetic, MarketFraction DEF Market!Over, Over
<1>2. \A a, b : Market!Minus(a, b) = Minus(a, b)
  BY MarketArithmetic DEF Market!Minus, Minus
<1>3. \A a, b : Market!Less(a, b) = Less(a, b)
  BY MarketArithmetic DEF Market!Less, Less
<1>4. \A a, b : Market!Lower(a, b) = Lower(a, b) /\ Market!Higher(a, b) = Higher(a, b)
  BY MarketArithmetic DEF Market!Lower, Lower, Market!Higher, Higher
<1> QED BY <1>1, <1>2, <1>3, <1>4

\* What the instance calls a cardinality is one.
LEMMA MarketCardinality == \A S : Market!Cardinality(S) = Cardinality(S)
  BY DEF Market!Cardinality, Cardinality

\* Its fractions are those of Evidence.
LEMMA MarketFrac == Market!Frac = Frac
  BY DEF Market!Frac, Frac

-----------------------------------------------------------------------------
(***************************************************************************)
(* The places of a sample's points, as weighted_quantile computes them.    *)
(***************************************************************************)
Sampled == Seq([of : Nat, value : Frac, weight : Nat \ {0}])
Weights(s, n) == [j \in 1..n |-> s[j].weight]
Place(s, i) == 2 * Market!SumUpTo(s, i) - s[i].weight - s[1].weight

\* A part of a sum is the sum of a part.
LEMMA SumOfPart ==
  ASSUME NEW S, NEW f, NEW g, IsSum(g, f, S), NEW T \in SUBSET S
  PROVE  IsSum([t \in SUBSET T |-> g[t]], [x \in T |-> f[x]], T)
  BY DEF IsSum

\* The weights up to a point add up.
LEMMA WeightsSum ==
  ASSUME NEW s, NEW n \in Nat, \A j \in 1..n : s[j].weight \in Int
  PROVE  \E g : IsSum(g, Weights(s, n), 1..n) /\ Market!SumUpTo(s, n) = g[1..n]
<1> DEFINE A == 1..n
           f == [j \in A |-> s[j].weight]
           c == [t \in SUBSET A |-> CHOOSE x \in t : TRUE]
           Sum(g) == [t \in SUBSET A |-> IF t = {} THEN 0
                        ELSE s[CHOOSE x \in t : TRUE].weight + g[t \ {CHOOSE x \in t : TRUE}]]
           Fold(g) == [t \in SUBSET A |-> IF t = {} THEN 0 ELSE f[c[t]] + g[t \ {c[t]}]]
<1>1. IsFiniteSet(A)
  <2>1. n \in Int /\ 1 \in Int
    OBVIOUS
  <2> QED BY <2>1, FS_Interval
<1>2. f \in [A -> Int]
  OBVIOUS
<1>3. Picks(c, A)
  BY DEF Picks
<1>4. \A t \in SUBSET A : t # {} => c[t] \in A /\ f[c[t]] = s[CHOOSE x \in t : TRUE].weight
                                    /\ c[t] = CHOOSE x \in t : TRUE
  OBVIOUS
<1>5. ASSUME NEW g PROVE Sum(g) = Fold(g)
  <2>1. ASSUME NEW t \in SUBSET A
        PROVE  (IF t = {} THEN 0 ELSE s[CHOOSE x \in t : TRUE].weight + g[t \ {CHOOSE x \in t : TRUE}])
                 = (IF t = {} THEN 0 ELSE f[c[t]] + g[t \ {c[t]}])
    <3>1. CASE t = {}
      BY <3>1
    <3>2. CASE t # {}
      <4>1. f[c[t]] = s[CHOOSE x \in t : TRUE].weight /\ c[t] = CHOOSE x \in t : TRUE
        BY <1>4, <3>2
      <4> HIDE DEF f, c
      <4> QED BY <3>2, <4>1
    <3> QED BY <3>1, <3>2
  <2> HIDE DEF f, c
  <2> QED BY <2>1
<1>6. PICK g : SumFold(g, f, c, A) /\ IsSum(g, f, A)
  <2> HIDE DEF f, c
  <2> QED BY <1>1, <1>2, <1>3, SumExists
<1> DEFINE h == CHOOSE h : h = Sum(h)
<1>7. h = Sum(h)
  <2>1. g = Sum(g)
    BY <1>5, <1>6 DEF SumFold
  <2> HIDE DEF Sum
  <2> QED BY <2>1
<1>8. h = g
  <2>1. SumFold(h, f, c, A)
    BY <1>5, <1>7 DEF SumFold
  <2> HIDE DEF h, f, c
  <2> QED BY <1>1, <1>3, <1>6, <2>1, SumIsUnique
<1>9. Market!SumUpTo(s, n) = h[A]
  BY Zenon DEF Market!SumUpTo, Market!MapThenSumSet, Market!MapThenFoldSet
<1> HIDE DEF h, f, c
<1>10. IsSum(g, f, A) /\ Market!SumUpTo(s, n) = g[A]
  BY <1>6, <1>8, <1>9
<1>11. f = Weights(s, n)
  BY DEF f, Weights
<1> QED BY <1>10, <1>11

\* The weights up to a point are those up to the one before, and its own.
LEMMA SumUpToIs ==
  ASSUME NEW s, NEW n \in Nat, \A j \in 1..n : s[j].weight \in Int
  PROVE  /\ Market!SumUpTo(s, 0) = 0
         /\ \A i \in 0..n : Market!SumUpTo(s, i) \in Int
         /\ \A i \in 1..n : Market!SumUpTo(s, i) = Market!SumUpTo(s, i - 1) + s[i].weight
<1>1. \A i \in 0..n : \A j \in 1..i : s[j].weight \in Int
  OBVIOUS
<1>2. ASSUME NEW i \in 0..n PROVE Market!SumUpTo(s, i) \in Int
  <2>0. i \in Nat /\ \A j \in 1..i : s[j].weight \in Int
    BY <1>1
  <2>1. PICK g : IsSum(g, Weights(s, i), 1..i) /\ Market!SumUpTo(s, i) = g[1..i]
    BY <2>0, WeightsSum
  <2>2. 1..i \in SUBSET (1..i)
    OBVIOUS
  <2> QED BY <2>1, <2>2 DEF IsSum
<1>3. Market!SumUpTo(s, 0) = 0
  <2>0. 0 \in Nat /\ \A j \in 1..0 : s[j].weight \in Int
    BY <1>1
  <2>1. PICK g : IsSum(g, Weights(s, 0), 1..0) /\ Market!SumUpTo(s, 0) = g[1..0]
    BY <2>0, WeightsSum
  <2>2. 1..0 = {}
    OBVIOUS
  <2>3. g[{}] = 0
    BY <2>1 DEF IsSum
  <2> QED BY <2>1, <2>2, <2>3
<1>4. ASSUME NEW i \in 1..n PROVE Market!SumUpTo(s, i) = Market!SumUpTo(s, i - 1) + s[i].weight
  <2> DEFINE S == 1..i
             T == 1..(i - 1)
             f == Weights(s, i)
             e == Weights(s, i - 1)
             m == [j \in T |-> j]
  <2>0. /\ i \in Nat /\ \A j \in 1..i : s[j].weight \in Int
        /\ i - 1 \in Nat /\ \A j \in 1..(i - 1) : s[j].weight \in Int
    <3>1. i \in 0..n /\ i - 1 \in 0..n
      OBVIOUS
    <3> QED BY <1>1, <3>1
  <2>1. PICK g : IsSum(g, f, S) /\ Market!SumUpTo(s, i) = g[S]
    BY <2>0, WeightsSum
  <2>2. PICK k : IsSum(k, e, T) /\ Market!SumUpTo(s, i - 1) = k[T]
    BY <2>0, WeightsSum
  <2>3. T \in SUBSET S /\ S \in SUBSET S /\ i \in S /\ S \ {i} = T /\ IsFiniteSet(T)
    <3>1. 1 \in Int /\ i - 1 \in Int
      OBVIOUS
    <3>2. IsFiniteSet(T)
      BY <3>1, FS_Interval
    <3> QED BY <3>2
  <2>4. [x \in T |-> f[x]] = e
    BY DEF Weights
  <2>5. e \in [T -> Int]
    BY <2>0 DEF Weights
  <2>6. m \in Bijection(T, T) /\ \A x \in T : e[m[x]] = e[x]
    BY DEF Bijection, Injection, Surjection, IsInjective
  <2>7. f[i] = s[i].weight
    BY DEF Weights
  <2> DEFINE part == [t \in SUBSET T |-> g[t]]
  <2> HIDE DEF f, e, m, S, T
  <2>8. IsSum(part, e, T)
    <3>1. IsSum([t \in SUBSET T |-> g[t]], [x \in T |-> f[x]], T)
      <4>1. T \in SUBSET S /\ IsSum(g, f, S)
        BY <2>1, <2>3
      <4> QED BY <4>1, SumOfPart, Zenon
    <3> QED BY <2>4, <3>1
  <2>9. k[T] = part[T]
    <3> HIDE DEF part
    <3>1. IsFiniteSet(T) /\ IsSum(k, e, T)
      BY <2>2, <2>3
    <3> QED BY <2>5, <2>6, <2>8, <3>1, SumsMatch
  <2>10. k[T] = g[T]
    BY <2>9
  <2>11. g[S] = f[i] + g[S \ {i}] /\ g[T] \in Int /\ f[i] \in Int
    <3>1. f[i] \in Int
      BY <2>0, <2>7
    <3>2. S \in SUBSET S /\ T \in SUBSET S /\ i \in S
      BY <2>3
    <3>3. g[S] = f[i] + g[S \ {i}]
      BY <2>1, <3>2 DEF IsSum
    <3>4. g[T] \in Int
      BY <2>1, <3>2 DEF IsSum
    <3> QED BY <3>1, <3>3, <3>4
  <2>12. g[S] = f[i] + g[T]
    BY <2>3, <2>11
  <2>13. Market!SumUpTo(s, i) = s[i].weight + Market!SumUpTo(s, i - 1)
    BY <2>1, <2>2, <2>7, <2>10, <2>12
  <2>14. Market!SumUpTo(s, i - 1) \in Int /\ s[i].weight \in Int
    BY <2>2, <2>7, <2>10, <2>11
  <2> QED BY <2>13, <2>14
<1> QED BY <1>2, <1>3, <1>4

\* The parts of a sample.
LEMMA SampleParts ==
  ASSUME NEW s \in Sampled
  PROVE  /\ Len(s) \in Nat /\ DOMAIN s = 1..Len(s)
         /\ \A i \in 1..Len(s) : /\ s[i] \in [of : Nat, value : Frac, weight : Nat \ {0}]
                                 /\ s[i].value \in Frac /\ s[i].weight \in Nat \ {0}
<1> DEFINE P == [of : Nat, value : Frac, weight : Nat \ {0}]
<1>1. s \in Seq(P)
  BY DEF Sampled
<1>2. \A p \in P : p.value \in Frac /\ p.weight \in Nat \ {0}
  OBVIOUS
<1> HIDE DEF P
<1>3. Len(s) \in Nat /\ DOMAIN s = 1..Len(s) /\ \A i \in 1..Len(s) : s[i] \in P
  BY <1>1
<1> QED BY <1>2, <1>3 DEF P

\* Places start at 0 and climb,
LEMMA PlacesClimb ==
  ASSUME NEW s \in Sampled, Len(s) >= 1
  PROVE  /\ \A i \in 1..Len(s) : Place(s, i) \in Int
         /\ Place(s, 1) = 0
         /\ \A i \in 1..(Len(s) - 1) : Place(s, i) < Place(s, i + 1)
<1> DEFINE n == Len(s)
<1>1. n \in Nat /\ \A i \in 1..n : s[i].weight \in Nat \ {0}
  BY SampleParts
<1>2. /\ Market!SumUpTo(s, 0) = 0
      /\ \A i \in 0..n : Market!SumUpTo(s, i) \in Int
      /\ \A i \in 1..n : Market!SumUpTo(s, i) = Market!SumUpTo(s, i - 1) + s[i].weight
  <2>1. \A i \in 1..n : s[i].weight \in Int
    BY <1>1
  <2> HIDE DEF n
  <2> QED BY <1>1, <2>1, SumUpToIs
<1>3. n >= 1
  OBVIOUS
<1> HIDE DEF n
<1>4. \A i \in 1..n : Place(s, i) \in Int
  <2> SUFFICES ASSUME NEW i \in 1..n PROVE Place(s, i) \in Int
    OBVIOUS
  <2>1. Market!SumUpTo(s, i) \in Int /\ s[i].weight \in Int /\ s[1].weight \in Int
    BY <1>1, <1>2, <1>3
  <2> QED BY <2>1 DEF Place
<1>5. Place(s, 1) = 0
  <2>1. Market!SumUpTo(s, 1) = Market!SumUpTo(s, 1 - 1) + s[1].weight
    BY <1>1, <1>2, <1>3
  <2> QED BY <1>1, <1>2, <1>3, <2>1 DEF Place
<1>6. ASSUME NEW i \in 1..(n - 1) PROVE Place(s, i) < Place(s, i + 1)
  <2>1. i + 1 \in 1..n /\ i \in 1..n /\ i \in 0..n /\ i + 1 \in 0..n /\ 1 \in 1..n /\ (i + 1) - 1 = i
    BY <1>1
  <2>2. Market!SumUpTo(s, i + 1) = Market!SumUpTo(s, (i + 1) - 1) + s[i + 1].weight
    BY <1>2, <2>1
  <2>3. Market!SumUpTo(s, i + 1) = Market!SumUpTo(s, i) + s[i + 1].weight
    BY <2>1, <2>2
  <2>4. s[i].weight \in Nat \ {0} /\ s[i + 1].weight \in Nat \ {0} /\ s[1].weight \in Nat
        /\ Market!SumUpTo(s, i) \in Int
    <3>1. Market!SumUpTo(s, i) \in Int
      BY <1>2, <2>1
    <3> QED BY <1>1, <2>1, <3>1
  <2>5. Market!SumUpTo(s, i + 1) \in Int
    BY <1>2, <2>1
  <2>6. Place(s, i + 1) = 2 * Market!SumUpTo(s, i + 1) - s[i + 1].weight - s[1].weight
        /\ Place(s, i) = 2 * Market!SumUpTo(s, i) - s[i].weight - s[1].weight
    BY DEF Place
  <2> DEFINE x == Market!SumUpTo(s, i)
             y == Market!SumUpTo(s, i + 1)
             c == s[i].weight
             d == s[i + 1].weight
             e == s[1].weight
  <2>7. y = x + d /\ x \in Int /\ c \in Nat \ {0} /\ d \in Nat \ {0} /\ e \in Nat
    BY <2>3, <2>4
  <2>8. Place(s, i + 1) = 2 * y - d - e /\ Place(s, i) = 2 * x - c - e
    BY <2>6
  <2> HIDE DEF x, y, c, d, e
  <2> QED BY <2>7, <2>8
<1> QED BY <1>4, <1>5, <1>6 DEF n

\* What climbs by steps climbs.
LEMMA StepsClimb ==
  ASSUME NEW n \in Nat, NEW A, \A i \in 1..n : A[i] \in Int,
         \A i \in 1..(n - 1) : A[i] < A[i + 1]
  PROVE  \A i, j \in 1..n : i < j => A[i] < A[j]
<1> DEFINE Bad == {k \in Nat : \E i \in 1..n : i + k + 1 <= n /\ ~(A[i] < A[i + k + 1])}
<1>1. Bad = {}
  <2> SUFFICES ASSUME Bad # {} PROVE FALSE
    OBVIOUS
  <2>1. PICK k \in Bad : \A e \in Bad : k <= e
    <3>1. Bad \subseteq Nat
      OBVIOUS
    <3> HIDE DEF Bad
    <3> QED BY <3>1, LeastExists
  <2>2. k \in Nat
    OBVIOUS
  <2>3. PICK i \in 1..n : i + k + 1 <= n /\ ~(A[i] < A[i + k + 1])
    BY <2>1
  <2>4. CASE k = 0
    <3>1. i \in 1..(n - 1) /\ i + k + 1 = i + 1
      BY <2>3, <2>4
    <3> QED BY <2>3, <3>1
  <2>5. CASE k # 0
    <3>1. k - 1 \in Nat /\ ~(k <= k - 1)
      BY <2>2, <2>5
    <3>2. k - 1 \notin Bad
      BY <2>1, <3>1
    <3>3. i + (k - 1) + 1 <= n /\ i + (k - 1) + 1 = i + k
      BY <2>2, <2>3
    <3>4. A[i] < A[i + (k - 1) + 1]
      BY <3>1, <3>2, <3>3
    <3>5. i + k \in 1..(n - 1) /\ i + k \in 1..n /\ i + k + 1 \in 1..n /\ (i + k) + 1 = i + k + 1
      BY <2>2, <2>3
    <3>6. A[i + k] < A[i + k + 1] /\ A[i] \in Int /\ A[i + k] \in Int /\ A[i + k + 1] \in Int
      BY <3>5
    <3>7. A[i] < A[i + k]
      BY <3>3, <3>4
    <3> HIDE DEF Bad
    <3> QED BY <2>3, <3>6, <3>7
  <2> QED BY <2>4, <2>5
<1>2. ASSUME NEW i \in 1..n, NEW j \in 1..n, i < j PROVE A[i] < A[j]
  <2>1. j - i - 1 \in Nat /\ i + (j - i - 1) + 1 = j
    BY <1>2
  <2>2. j - i - 1 \notin Bad
    BY <1>1
  <2> QED BY <2>1, <2>2
<1> QED BY <1>2

\* so they order the points.
LEMMA PlacesOrder ==
  ASSUME NEW s \in Sampled, Len(s) >= 1
  PROVE  \A i, j \in 1..Len(s) : Place(s, i) < Place(s, j) => i < j
<1> DEFINE n == Len(s)
           A == [i \in 1..n |-> Place(s, i)]
<1>1. n \in Nat
  BY SampleParts
<1>2. /\ \A i \in 1..n : Place(s, i) \in Int
      /\ \A i \in 1..(n - 1) : Place(s, i) < Place(s, i + 1)
  BY PlacesClimb
<1>3. \A i \in 1..n : A[i] \in Int
  BY <1>2
<1>4. \A i \in 1..(n - 1) : A[i] < A[i + 1]
  <2> SUFFICES ASSUME NEW i \in 1..(n - 1) PROVE A[i] < A[i + 1]
    OBVIOUS
  <2>1. i \in 1..n /\ i + 1 \in 1..n
    BY <1>1
  <2>2. A[i] = Place(s, i) /\ A[i + 1] = Place(s, i + 1)
    BY <2>1
  <2> HIDE DEF A
  <2> QED BY <1>2, <2>2
<1>5. \A i, j \in 1..n : i < j => A[i] < A[j]
  <2> HIDE DEF A, n
  <2> QED BY <1>1, <1>3, <1>4, StepsClimb
<1>6. ASSUME NEW i \in 1..n, NEW j \in 1..n, Place(s, i) < Place(s, j) PROVE i < j
  <2>1. A[i] = Place(s, i) /\ A[j] = Place(s, j) /\ A[i] \in Int /\ A[j] \in Int /\ i \in Int /\ j \in Int
    BY <1>1, <1>3
  <2>2. CASE i = j
    BY <1>6, <2>1, <2>2
  <2>3. CASE j < i
    <3>1. A[j] < A[i]
      BY <1>5, <2>3
    <3> HIDE DEF A
    <3> QED BY <1>6, <2>1, <3>1
  <2> QED BY <2>1, <2>2, <2>3
<1> QED BY <1>6 DEF n

-----------------------------------------------------------------------------
(***************************************************************************)
(* The quantile at a fraction a/b lies between two points, in proportion   *)
(* to the distances from their places; Places are over Place(s, Len(s)).   *)
(***************************************************************************)
Above(s, h, a, b) == a * Place(s, Len(s)) - Place(s, h - 1) * b
Below(s, h, a, b) == Place(s, h) * b - a * Place(s, Len(s))
Between(s, h, a, b, r) ==
  /\ h \in 2..Len(s)
  /\ Above(s, h, a, b) \in Nat \ {0} /\ Below(s, h, a, b) \in Nat
  /\ Mean(r, s[h - 1].value, s[h].value, Above(s, h, a, b), Below(s, h, a, b))

\* Where a point is.
At(s, i) == IF i = 1 THEN Q(0) ELSE IF i = Len(s) THEN Q(1) ELSE Market!Position(s, i)

\* Where a point is stands for its place over the last one.
LEMMA AtStands ==
  ASSUME NEW s \in Sampled, Len(s) >= 2
  PROVE  /\ Place(s, Len(s)) \in Nat \ {0}
         /\ \A i \in 1..Len(s) : Place(s, i) \in Int /\ Stands(At(s, i), Place(s, i), Place(s, Len(s)))
<1> DEFINE n == Len(s)
           W == Place(s, n)
<1>1. n \in Nat /\ n >= 2 /\ 1 \in 1..n /\ n \in 1..n
  BY SampleParts
<1>2. /\ \A i \in 1..n : Place(s, i) \in Int
      /\ Place(s, 1) = 0 /\ \A i \in 1..(n - 1) : Place(s, i) < Place(s, i + 1)
  BY <1>1, PlacesClimb
<1>3. W \in Nat \ {0}
  <2> DEFINE A == [i \in 1..n |-> Place(s, i)]
  <2>1. \A i \in 1..n : A[i] \in Int
    BY <1>2
  <2>2. \A i \in 1..(n - 1) : A[i] < A[i + 1]
    <3> SUFFICES ASSUME NEW i \in 1..(n - 1) PROVE A[i] < A[i + 1]
      OBVIOUS
    <3>1. i \in 1..n /\ i + 1 \in 1..n
      BY <1>1
    <3>2. A[i] = Place(s, i) /\ A[i + 1] = Place(s, i + 1)
      BY <3>1
    <3> HIDE DEF A
    <3> QED BY <1>2, <3>2
  <2>3. A[1] = 0 /\ A[n] = W
    BY <1>1, <1>2
  <2>4. \A i, j \in 1..n : i < j => A[i] < A[j]
    <3> HIDE DEF A, n
    <3> QED BY <1>1, <2>1, <2>2, StepsClimb
  <2>5. A[1] < A[n] /\ W \in Int
    BY <1>1, <1>2, <2>4
  <2> HIDE DEF A, W
  <2> QED BY <2>3, <2>5
<1>4. ASSUME NEW i \in 1..n PROVE Stands(At(s, i), Place(s, i), W)
  <2>1. CASE i = 1
    <3>1. Stands(Q(0), 0, 1)
      BY SmallFractions
    <3>2. Stands(Q(0), 0 * W, 1 * W)
      BY <1>3, <3>1, StandsExtended
    <3>3. 0 * W = 0 /\ 1 * W = W
      <4> HIDE DEF W
      <4> QED BY <1>3
    <3> QED BY <1>2, <2>1, <3>2, <3>3 DEF At
  <2>2. CASE i # 1 /\ i = n
    <3>1. Stands(Q(1), 1, 1)
      BY SmallFractions
    <3>2. Stands(Q(1), 1 * W, 1 * W)
      BY <1>3, <3>1, StandsExtended
    <3>3. 1 * W = W
      <4> HIDE DEF W
      <4> QED BY <1>3
    <3> QED BY <2>2, <3>2, <3>3 DEF At
  <2>3. CASE i # 1 /\ i # n
    <3>1. At(s, i) = Market!Position(s, i)
      BY <2>3 DEF At
    <3>2. At(s, i) = Fraction(2 * Market!SumUpTo(s, i) - s[i].weight - s[1].weight,
                              2 * Market!SumUpTo(s, n) - s[1].weight - s[n].weight)
      BY <3>1, MarketFraction DEF Market!Position
    <3>3. s[1].weight \in Int /\ s[n].weight \in Int /\ Market!SumUpTo(s, n) \in Int
      <4>1. \A j \in 1..n : s[j].weight \in Int
        BY SampleParts
      <4>2. n \in 0..n
        BY <1>1
      <4> HIDE DEF n
      <4> QED BY <1>1, <4>1, <4>2, SumUpToIs
    <3>4. 2 * Market!SumUpTo(s, n) - s[1].weight - s[n].weight = W
      BY <3>3 DEF Place
    <3>5. At(s, i) = Fraction(Place(s, i), W)
      BY <3>2, <3>4 DEF Place
    <3> QED BY <1>2, <1>3, <3>5, FractionStands
  <2> QED BY <2>1, <2>2, <2>3
<1> QED BY <1>2, <1>3, <1>4 DEF n

\* A quantile is such a mean of two neighbours.
LEMMA QuantileIs ==
  ASSUME NEW s \in Sampled, Len(s) >= 2, NEW q, NEW a \in Nat \ {0}, NEW b \in Nat \ {0}, a < b,
         Stands(q, a, b)
  PROVE  \E h \in 2..Len(s) : Between(s, h, a, b, Market!Quantile(s, q))
<1> DEFINE n == Len(s)
           W == Place(s, n)
           S == {i \in 1..n : Leq(q, At(s, i))}
           hi == Market!Min({i \in 1..n : Market!Leq(q, At(s, i))})
<1>1. n \in Nat /\ n >= 2 /\ 1 \in 1..n /\ n \in 1..n
      /\ \A i \in 1..n : s[i].value \in Frac
  BY SampleParts
<1>2. W \in Nat \ {0} /\ \A i \in 1..n : Place(s, i) \in Int /\ Stands(At(s, i), Place(s, i), W)
  BY AtStands
<1> HIDE DEF W
<1>3. \A i \in 1..n : Leq(q, At(s, i)) <=> a * W <= Place(s, i) * b
  BY <1>2, LeqStands
<1>4. n \in S
  <2>1. Place(s, n) = W
    BY DEF W
  <2>2. a * W <= W * b
    <3>1. b - a \in Nat
      OBVIOUS
    <3>2. (b - a) * W \in Nat
      BY <1>2, <3>1
    <3> QED BY <1>2, <3>2
  <2> QED BY <1>1, <1>3, <2>1, <2>2
<1>5. PICK h \in S : \A j \in S : h <= j
  <2>1. S \subseteq Nat
    OBVIOUS
  <2> HIDE DEF S
  <2> QED BY <1>4, <2>1, LeastExists
<1>6. h = hi
  <2>1. S = {i \in 1..n : Market!Leq(q, At(s, i))}
    BY MarketArithmetic
  <2>2. \A k \in S : (\A j \in S : k <= j) => k = h
    BY <1>5
  <2> HIDE DEF S
  <2>3. Market!Min(S) = CHOOSE k \in S : \A j \in S : k <= j
    BY DEF Market!Min
  <2>4. Market!Min(S) = h
    BY <1>5, <2>2, <2>3
  <2> QED BY <2>1, <2>4
<1>7. h \in 2..n /\ h - 1 \in 1..n /\ h \in 1..n /\ a * W <= Place(s, h) * b /\ Place(s, h - 1) * b < a * W
  <2>1. h \in 1..n /\ Leq(q, At(s, h))
    BY <1>5
  <2>2. a * W <= Place(s, h) * b
    BY <1>3, <2>1
  <2>3. ASSUME h = 1 PROVE FALSE
    <3>1. Place(s, h) = 0
      BY <1>1, <2>3, PlacesClimb
    <3>2. a * W > 0 /\ a * W \in Int
      BY <1>2
    <3>3. Place(s, h) * b = 0
      BY <3>1
    <3> QED BY <2>2, <3>2, <3>3
  <2>4. h - 1 \in 1..n /\ ~(h <= h - 1)
    BY <1>1, <2>1, <2>3
  <2>5. h - 1 \notin S
    BY <1>5, <2>4
  <2>6. ~(a * W <= Place(s, h - 1) * b)
    BY <1>3, <2>4, <2>5
  <2>7. a * W \in Int /\ Place(s, h - 1) * b \in Int
    BY <1>2, <2>4
  <2> QED BY <1>1, <2>1, <2>2, <2>3, <2>4, <2>6, <2>7
<1> HIDE DEF S
<1> DEFINE lo == h - 1
           u == Above(s, h, a, b)
           v == Below(s, h, a, b)
           k == u + v
           p == Place(s, h)
           o == Place(s, lo)
<1>8. p \in Int /\ o \in Int
  BY <1>2, <1>7
<1>9. u = a * W - o * b /\ v = p * b - a * W
  BY DEF Above, Below, W
<1>10. u \in Nat \ {0} /\ v \in Nat /\ k \in Nat \ {0} /\ k = p * b - o * b
  <2>1. a * W \in Int /\ p * b \in Int /\ o * b \in Int /\ a * W <= p * b /\ o * b < a * W
    <3>1. a * W <= p * b /\ o * b < a * W
      BY <1>7
    <3> HIDE DEF p, o
    <3> QED BY <1>2, <1>8, <3>1
  <2> DEFINE x == a * W
             y == p * b
             z == o * b
  <2>2. x \in Int /\ y \in Int /\ z \in Int /\ x <= y /\ z < x
    BY <2>1
  <2>3. u = x - z /\ v = y - x
    BY <1>9
  <2> HIDE DEF p, o, u, v, x, y, z
  <2>4. u \in Nat \ {0} /\ v \in Nat /\ u + v = y - z
    BY <2>2, <2>3
  <2> QED BY <2>4 DEF k, y, z
<1> DEFINE share == Over(Minus(q, At(s, lo)), Minus(At(s, h), At(s, lo)))
<1>11. Stands(share, u, k)
  <2> HIDE DEF u, v, k, p, o
  <2>1. b * W \in Nat \ {0}
    BY <1>2
  <2>2. Stands(q, a * W, b * W)
    BY <1>2, StandsExtended
  <2>3. Stands(At(s, h), p, W) /\ Stands(At(s, lo), o, W)
    BY <1>2, <1>7 DEF p, o
  <2>4. Stands(At(s, h), p * b, W * b) /\ Stands(At(s, lo), o * b, W * b)
    BY <2>3, StandsExtended
  <2>5. W * b = b * W
    BY <1>2
  <2>6. Stands(At(s, h), p * b, b * W) /\ Stands(At(s, lo), o * b, b * W)
    BY <2>4, <2>5
  <2>7. Stands(Minus(q, At(s, lo)), a * W - o * b, b * W)
    BY <2>2, <2>6, MinusStands
  <2>8. Stands(Minus(At(s, h), At(s, lo)), p * b - o * b, b * W)
    BY <2>6, MinusStands
  <2>9. Stands(Minus(q, At(s, lo)), u, b * W) /\ Stands(Minus(At(s, h), At(s, lo)), k, b * W)
    BY <1>9, <1>10, <2>7, <2>8
  <2>10. k > 0 /\ u \in Int
    BY <1>10
  <2>11. Stands(share, u * (b * W), (b * W) * k)
    BY <2>9, <2>10, OverStands
  <2>12. (b * W) * k = k * (b * W)
    BY <1>10, <2>1
  <2>13. Stands(share, u * (b * W), k * (b * W))
    BY <2>11, <2>12
  <2> HIDE DEF share
  <2> QED BY <1>10, <2>1, <2>10, <2>13, StandsReduced
<1>12. s[lo].value \in Frac /\ s[h].value \in Frac
  BY <1>1, <1>7
<1>13. Market!Quantile(s, q) = IF n = 1 \/ At(s, h) = q THEN s[IF n = 1 THEN 1 ELSE h].value
                               ELSE Plus(s[lo].value, Times(share, Minus(s[h].value, s[lo].value)))
  <2>1. Market!Q(0) = Q(0) /\ Market!Q(1) = Q(1)
    BY MarketFraction
  <2>2. \A i : (IF i = 1 THEN Market!Q(0) ELSE IF i = Len(s) THEN Market!Q(1) ELSE Market!Position(s, i)) = At(s, i)
    BY <2>1 DEF At
  <2> DEFINE at(i) == IF i = 1 THEN Market!Q(0) ELSE IF i = Len(s) THEN Market!Q(1) ELSE Market!Position(s, i)
             T == {i \in 1..Len(s) : Market!Leq(q, at(i))}
             g == Market!Min(T)
  <2>3. g = hi
    <3>1. \A i : at(i) = At(s, i)
      BY <2>2
    <3> HIDE DEF at
    <3>2. T = {i \in 1..Len(s) : Market!Leq(q, At(s, i))}
      BY <3>1
    <3> HIDE DEF T
    <3> QED BY <3>2
  <2>4. Market!Quantile(s, q) =
          IF Len(s) = 1 \/ At(s, hi) = q THEN s[IF Len(s) = 1 THEN 1 ELSE hi].value
          ELSE Market!Plus(s[hi - 1].value,
                 Market!Times(Market!Over(Market!Minus(q, At(s, hi - 1)), Market!Minus(At(s, hi), At(s, hi - 1))),
                              Market!Minus(s[hi].value, s[hi - 1].value)))
    <3>1. Market!Quantile(s, q) =
            IF Len(s) = 1 \/ at(g) = q THEN s[IF Len(s) = 1 THEN 1 ELSE g].value
            ELSE Market!Plus(s[g - 1].value,
                   Market!Times(Market!Over(Market!Minus(q, at(g - 1)), Market!Minus(at(g), at(g - 1))),
                                Market!Minus(s[g].value, s[g - 1].value)))
      BY Zenon DEF Market!Quantile
    <3>2. at(g) = At(s, g) /\ at(g - 1) = At(s, g - 1)
      BY <2>2
    <3> HIDE DEF at, g, hi
    <3> QED BY <2>3, <3>1, <3>2
  <2>5. Market!Quantile(s, q) =
          IF Len(s) = 1 \/ At(s, h) = q THEN s[IF Len(s) = 1 THEN 1 ELSE h].value
          ELSE Market!Plus(s[h - 1].value,
                 Market!Times(Market!Over(Market!Minus(q, At(s, h - 1)), Market!Minus(At(s, h), At(s, h - 1))),
                              Market!Minus(s[h].value, s[h - 1].value)))
    BY <1>6, <2>4
  <2> QED BY <2>5, MarketArithmetic, MarketOperators
<1>14. Mean(Market!Quantile(s, q), s[lo].value, s[h].value, u, v)
  <2>1. CASE At(s, h) = q
    <3>1. v = 0
      <4>1. Stands(q, p, W) /\ Stands(q, a, b)
        BY <1>2, <1>7, <2>1
      <4>2. Leq(q, q)
        BY <4>1, LeqOrders DEF Stands
      <4>3. p * b <= a * W /\ a * W <= p * b
        BY <4>1, <4>2, LeqStands
      <4>4. p * b \in Int /\ a * W \in Int
        BY <1>2, <1>8
      <4> HIDE DEF p, v, u
      <4> QED BY <1>9, <4>3, <4>4
    <3>2. Market!Quantile(s, q) = s[h].value
      BY <1>1, <1>13, <2>1
    <3> HIDE DEF u, v
    <3> QED BY <1>10, <1>12, <3>1, <3>2, MeanOfLast
  <2>2. CASE At(s, h) # q
    <3>1. Market!Quantile(s, q) = Plus(s[lo].value, Times(share, Minus(s[h].value, s[lo].value)))
      BY <1>1, <1>13, <2>2
    <3>2. Stands(share, u, u + v) /\ u + v \in Nat \ {0}
      BY <1>10, <1>11
    <3> HIDE DEF u, v, share
    <3>3. u \in Nat /\ v \in Nat
      BY <1>10
    <3> QED BY <1>12, <3>1, <3>2, <3>3, MeanIs
  <2> QED BY <2>1, <2>2
<1>15. Between(s, h, a, b, Market!Quantile(s, q))
  <2> HIDE DEF u, v
  <2> QED BY <1>7, <1>10, <1>14 DEF Between, u, v, lo
<1> QED BY <1>7, <1>15

(***************************************************************************)
(* The band of a sample whose points are in order.                         *)
(***************************************************************************)
Rising(s) == \A i, j \in 1..Len(s) : i <= j => Leq(s[i].value, s[j].value)

\* The quantile of one point is its value.
LEMMA QuantileOfOne ==
  ASSUME NEW s \in Sampled, Len(s) = 1, NEW q
  PROVE  Market!Quantile(s, q) = s[1].value
  BY DEF Market!Quantile

\* A quantile lies within the sample,
LEMMA QuantileWithin ==
  ASSUME NEW s \in Sampled, Len(s) >= 1, Rising(s), NEW q, NEW a \in Nat \ {0}, NEW b \in Nat \ {0},
         a < b, Stands(q, a, b)
  PROVE  /\ Market!Quantile(s, q) \in Frac
         /\ Leq(s[1].value, Market!Quantile(s, q)) /\ Leq(Market!Quantile(s, q), s[Len(s)].value)
<1> DEFINE n == Len(s)
           r == Market!Quantile(s, q)
<1>1. n \in Nat /\ 1 \in 1..n /\ n \in 1..n /\ \A i \in 1..n : s[i].value \in Frac
  BY SampleParts
<1>2. CASE n = 1
  <2>1. r = s[1].value
    BY <1>2, QuantileOfOne
  <2> QED BY <1>1, <1>2, <2>1, LeqOrders
<1>3. CASE n # 1
  <2>1. n >= 2
    <3>1. n \in Nat /\ 1 <= n
      BY <1>1
    <3> HIDE DEF n
    <3> QED BY <1>3, <3>1
  <2>2. PICK h \in 2..n : Between(s, h, a, b, r)
    BY <2>1, QuantileIs
  <2>3. h - 1 \in 1..n /\ h \in 1..n /\ h - 1 <= h /\ 1 <= h - 1 /\ h <= n
    BY <1>1
  <2>4. Mean(r, s[h - 1].value, s[h].value, Above(s, h, a, b), Below(s, h, a, b))
    BY <2>2 DEF Between
  <2>5. Leq(s[1].value, s[h - 1].value) /\ Leq(s[h - 1].value, s[h].value) /\ Leq(s[h].value, s[n].value)
    BY <1>1, <2>3 DEF Rising
  <2> HIDE DEF r
  <2>6. r \in Frac /\ Leq(s[h - 1].value, r) /\ Leq(r, s[h].value)
    BY <2>4, <2>5, MeanBetween
  <2>7. s[1].value \in Frac /\ s[h - 1].value \in Frac /\ s[h].value \in Frac /\ s[n].value \in Frac
    BY <1>1, <2>3
  <2>8. Leq(s[1].value, r)
    BY <2>5, <2>6, <2>7, LeqTransitive
  <2>9. Leq(r, s[n].value)
    BY <2>5, <2>6, <2>7, LeqTransitive
  <2> QED BY <2>6, <2>8, <2>9 DEF r
<1> QED BY <1>2, <1>3

\* and a greater one is no less.
LEMMA QuantilesRise ==
  ASSUME NEW s \in Sampled, Len(s) >= 1, Rising(s), NEW b \in Nat \ {0},
         NEW q, NEW a \in Nat \ {0}, a < b, Stands(q, a, b),
         NEW p, NEW c \in Nat \ {0}, c < b, Stands(p, c, b), a <= c
  PROVE  Leq(Market!Quantile(s, q), Market!Quantile(s, p))
<1> DEFINE n == Len(s)
           r == Market!Quantile(s, q)
           t == Market!Quantile(s, p)
           W == Place(s, n)
<1>1. n \in Nat /\ 1 \in 1..n /\ n \in 1..n /\ \A i \in 1..n : s[i].value \in Frac
  BY SampleParts
<1>2. CASE n = 1
  <2>1. r = s[1].value /\ t = s[1].value
    BY <1>2, QuantileOfOne
  <2> QED BY <1>1, <2>1, LeqOrders
<1>3. CASE n # 1
  <2>1. n >= 2
    <3>1. n \in Nat /\ 1 <= n
      BY <1>1
    <3> HIDE DEF n
    <3> QED BY <1>3, <3>1
  <2>2. PICK h \in 2..n : Between(s, h, a, b, r)
    BY <2>1, QuantileIs
  <2>3. PICK g \in 2..n : Between(s, g, c, b, t)
    BY <2>1, QuantileIs
  <2>4. W \in Nat \ {0} /\ \A i \in 1..n : Place(s, i) \in Int
    BY <2>1, AtStands
  <2> HIDE DEF W
  <2>5. h - 1 \in 1..n /\ h \in 1..n /\ g - 1 \in 1..n /\ g \in 1..n
    BY <1>1
  <2>6. /\ Above(s, h, a, b) = a * W - Place(s, h - 1) * b
        /\ Below(s, h, a, b) = Place(s, h) * b - a * W
        /\ Above(s, g, c, b) = c * W - Place(s, g - 1) * b
        /\ Below(s, g, c, b) = Place(s, g) * b - c * W
    BY DEF Above, Below, W
  <2>7. /\ Above(s, h, a, b) \in Nat \ {0} /\ Below(s, g, c, b) \in Nat
        /\ Mean(r, s[h - 1].value, s[h].value, Above(s, h, a, b), Below(s, h, a, b))
        /\ Mean(t, s[g - 1].value, s[g].value, Above(s, g, c, b), Below(s, g, c, b))
    BY <2>2, <2>3 DEF Between
  <2>8. a * W <= c * W /\ a * W \in Int /\ c * W \in Int
    <3>1. (c - a) * W \in Nat
      BY <2>4
    <3> QED BY <2>4, <3>1
  <2>9. h <= g
    <3> DEFINE x == Place(s, h - 1)
               y == Place(s, g)
    <3>1. x \in Int /\ y \in Int
      BY <2>4, <2>5
    <3>2. a * W - x * b > 0 /\ y * b - c * W >= 0
      BY <2>6, <2>7
    <3> HIDE DEF x, y
    <3>3. x * b < y * b
      <4>1. x * b \in Int /\ y * b \in Int
        BY <3>1
      <4> QED BY <2>8, <3>2, <4>1
    <3>4. x < y
      <4>1. ~(y * b <= x * b)
        BY <3>1, <3>3
      <4>2. ~(y <= x)
        BY <3>1, <4>1, Cancel
      <4> QED BY <3>1, <4>2
    <3>5. h - 1 < g
      <4>1. Place(s, h - 1) < Place(s, g)
        BY <3>4 DEF x, y
      <4> QED BY <2>5, <4>1, PlacesOrder
    <3> QED BY <1>1, <3>5
  <2>10. \A i \in 1..n : s[i].value \in Frac
    BY <1>1
  <2>11. Leq(s[h - 1].value, s[h].value) /\ Leq(s[g - 1].value, s[g].value)
    <3>1. h - 1 <= h /\ g - 1 <= g
      BY <1>1
    <3> QED BY <2>5, <3>1 DEF Rising
  <2>12. CASE h = g
    <3> DEFINE u == Above(s, h, a, b)
               v == Below(s, h, a, b)
               e == Above(s, h, c, b)
               f == Below(s, h, c, b)
    <3>1. u + v = e + f /\ u <= e
      <4> DEFINE x == Place(s, h - 1) * b
                 y == Place(s, h) * b
                 z == a * W
                 w == c * W
      <4>1. x \in Int /\ y \in Int
        BY <2>4, <2>5
      <4>2. u = z - x /\ v = y - z /\ e = w - x /\ f = y - w /\ z <= w /\ z \in Int /\ w \in Int
        BY <2>6, <2>8, <2>12
      <4> HIDE DEF x, y, z, w, u, v, e, f
      <4> QED BY <4>1, <4>2
    <3>2. Mean(r, s[h - 1].value, s[h].value, u, v) /\ Mean(t, s[h - 1].value, s[h].value, e, f)
      BY <2>7, <2>12
    <3> HIDE DEF u, v, e, f, r, t
    <3>3. Leq(r, t)
      BY <2>11, <3>1, <3>2, MeanRises
    <3> QED BY <3>3 DEF r, t
  <2>13. CASE h # g
    <3>1. h <= g - 1
      BY <1>1, <2>9, <2>13
    <3>2. Leq(s[h].value, s[g - 1].value)
      BY <2>5, <3>1 DEF Rising
    <3> HIDE DEF r, t
    <3>3. r \in Frac /\ Leq(r, s[h].value)
      BY <2>7, <2>11, MeanBetween
    <3>4. t \in Frac /\ Leq(s[g - 1].value, t)
      BY <2>7, <2>11, MeanBetween
    <3>5. s[h].value \in Frac /\ s[g - 1].value \in Frac
      BY <2>5, <2>10
    <3>6. Leq(r, s[g - 1].value)
      BY <3>2, <3>3, <3>5, LeqTransitive
    <3>7. Leq(r, t)
      BY <3>3, <3>4, <3>5, <3>6, LeqTransitive
    <3> QED BY <3>7 DEF r, t
  <2> QED BY <2>12, <2>13
<1> QED BY <1>2, <1>3

\* A point's place depends on the weights alone.
LEMMA PlacesAreWeights ==
  ASSUME NEW s \in Sampled, NEW t \in Sampled, Len(s) >= 1, Len(t) = Len(s),
         \A i \in 1..Len(s) : t[i].weight = s[i].weight
  PROVE  \A i \in 1..Len(s) : Place(t, i) = Place(s, i)
<1> DEFINE n == Len(s)
           X(i) == Market!SumUpTo(s, i)
           Y(i) == Market!SumUpTo(t, i)
           Bad == {k \in Nat : k <= n /\ Y(k) # X(k)}
<1>1. n \in Nat /\ \A i \in 1..n : s[i].weight \in Int /\ t[i].weight \in Int /\ t[i].weight = s[i].weight
  BY SampleParts
<1>2. /\ X(0) = 0 /\ (\A i \in 0..n : X(i) \in Int) /\ \A i \in 1..n : X(i) = X(i - 1) + s[i].weight
  <2> HIDE DEF n
  <2> QED BY <1>1, SumUpToIs
<1>3. /\ Y(0) = 0 /\ (\A i \in 0..n : Y(i) \in Int) /\ \A i \in 1..n : Y(i) = Y(i - 1) + t[i].weight
  <2> HIDE DEF n
  <2> QED BY <1>1, SumUpToIs
<1> HIDE DEF X, Y
<1>4. Bad = {}
  <2> SUFFICES ASSUME Bad # {} PROVE FALSE
    OBVIOUS
  <2>1. PICK k \in Bad : \A e \in Bad : k <= e
    <3>1. Bad \subseteq Nat
      OBVIOUS
    <3> HIDE DEF Bad
    <3> QED BY <3>1, LeastExists
  <2>2. k \in Nat /\ k <= n /\ Y(k) # X(k)
    OBVIOUS
  <2>3. k # 0
    BY <1>2, <1>3, <2>2
  <2>4. k \in 1..n /\ k - 1 \in Nat /\ k - 1 <= n /\ ~(k <= k - 1)
    BY <1>1, <2>2, <2>3
  <2>5. Y(k - 1) = X(k - 1)
    BY <2>1, <2>4
  <2>6. X(k) = X(k - 1) + s[k].weight /\ Y(k) = Y(k - 1) + t[k].weight /\ t[k].weight = s[k].weight
    BY <1>1, <1>2, <1>3, <2>4
  <2> HIDE DEF Bad
  <2> QED BY <2>2, <2>5, <2>6
<1>5. ASSUME NEW i \in 1..n PROVE Y(i) = X(i) /\ t[i].weight = s[i].weight /\ t[1].weight = s[1].weight
  <2>1. i \in Nat /\ i <= n /\ 1 \in 1..n
    BY <1>1
  <2> QED BY <1>1, <1>4, <2>1
<1> QED BY <1>5 DEF Place, X, Y

\* A quantile is between one pair of points only.
LEMMA BetweenOnce ==
  ASSUME NEW s \in Sampled, Len(s) >= 2, NEW a \in Nat \ {0}, NEW b \in Nat \ {0},
         NEW h \in 2..Len(s), NEW g \in 2..Len(s),
         Above(s, h, a, b) \in Nat \ {0}, Below(s, h, a, b) \in Nat,
         Above(s, g, a, b) \in Nat \ {0}, Below(s, g, a, b) \in Nat
  PROVE  h = g
<1> DEFINE n == Len(s)
           W == Place(s, n)
<1>1. n \in Nat
  BY SampleParts
<1>2. W \in Nat \ {0} /\ \A i \in 1..n : Place(s, i) \in Int
  BY AtStands
<1>3. ASSUME NEW i \in 2..n, NEW j \in 2..n, Above(s, i, a, b) \in Nat \ {0}, Below(s, j, a, b) \in Nat
      PROVE  i <= j
  <2> DEFINE x == Place(s, i - 1)
             y == Place(s, j)
  <2>1. i - 1 \in 1..n /\ j \in 1..n
    BY <1>1
  <2>2. x \in Int /\ y \in Int
    BY <1>2, <2>1
  <2>3. a * W - x * b \in Nat \ {0} /\ y * b - a * W \in Nat
    <3>1. Above(s, i, a, b) = a * W - x * b /\ Below(s, j, a, b) = y * b - a * W
      BY DEF Above, Below
    <3> HIDE DEF x, y, W
    <3> QED BY <1>3, <3>1
  <2> HIDE DEF x, y, W
  <2>4. x * b < y * b
    <3> DEFINE k == x * b
               l == y * b
               z == a * W
    <3>1. k \in Int /\ l \in Int /\ z \in Int
      BY <1>2, <2>2
    <3>2. z - k \in Nat \ {0} /\ l - z \in Nat
      BY <2>3
    <3> HIDE DEF k, l, z
    <3>3. k < l
      BY <3>1, <3>2
    <3> QED BY <3>3 DEF k, l
  <2>5. x < y
    <3>1. ~(y * b <= x * b)
      BY <2>2, <2>4
    <3>2. ~(y <= x)
      BY <2>2, <3>1, Cancel
    <3> QED BY <2>2, <3>2
  <2>6. i - 1 < j
    <3>1. Place(s, i - 1) < Place(s, j)
      BY <2>5 DEF x, y
    <3>2. Len(s) >= 1
      BY <1>1
    <3> QED BY <2>1, <3>1, <3>2, PlacesOrder
  <2>7. i \in Int /\ j \in Int
    BY <1>1
  <2> QED BY <2>6, <2>7
<1>4. h <= g /\ g <= h
  BY <1>3
<1> QED BY <1>1, <1>4

\* The band moves up when the last point does.
LEMMA RaisedIs ==
  ASSUME NEW s \in Sampled, Len(s) >= 1
  PROVE  /\ Market!Raised(s) \in Sampled /\ Len(Market!Raised(s)) = Len(s)
         /\ \A i \in 1..Len(s) : /\ Market!Raised(s)[i].weight = s[i].weight
                                 /\ Leq(s[i].value, Market!Raised(s)[i].value)
                                 /\ i # Len(s) => Market!Raised(s)[i].value = s[i].value
<1> DEFINE n == Len(s)
           P == [of : Nat, value : Frac, weight : Nat \ {0}]
           e(i) == IF i = n THEN [s[i] EXCEPT !.value = Plus(@, Q(1))] ELSE s[i]
           t == [i \in 1..n |-> e(i)]
<1>1. n \in Nat /\ DOMAIN s = 1..n /\ \A i \in 1..n : s[i] \in P /\ s[i].value \in Frac
  BY SampleParts
<1>2. Market!Raised(s) = t
  BY <1>1, MarketArithmetic, MarketFraction DEF Market!Raised
<1>3. ASSUME NEW i \in 1..n
      PROVE  e(i) \in P /\ e(i).weight = s[i].weight /\ Leq(s[i].value, e(i).value)
             /\ (i # n => e(i).value = s[i].value)
  <2> DEFINE x == s[i].value
             y == Plus(x, Q(1))
  <2>1. x \in Frac /\ s[i] \in P
    BY <1>1
  <2>2. y \in Frac /\ Leq(x, y)
    <3>1. Q(1) \in Frac /\ Stands(Q(1), 1, 1)
      BY SmallFractions
    <3>2. Stands(x, x[1], x[2]) /\ x[1] \in Int /\ x[2] \in Nat \ {0}
      BY <2>1, StandsForItself, FracParts
    <3> DEFINE m == x[1]
               d == x[2]
    <3> HIDE DEF m, d, x
    <3>3. Stands(x, m, d) /\ m \in Int /\ d \in Nat \ {0}
      BY <3>2 DEF m, d
    <3>4. Stands(Q(1), 1 * d, 1 * d) /\ 1 * d = d
      BY <3>1, <3>3, StandsExtended
    <3>5. Stands(Q(1), d, d)
      BY <3>4
    <3>6. Stands(y, m + d, d)
      BY <3>3, <3>5, PlusStands
    <3>7. m <= m + d
      BY <3>3
    <3>8. Leq(x, y)
      BY <3>3, <3>6, <3>7, LeqSameStands
    <3> QED BY <3>6, <3>8 DEF Stands
  <2>3. CASE i = n
    <3>1. e(i) = [s[i] EXCEPT !.value = y]
      BY <2>3
    <3> HIDE DEF y, e
    <3>2. e(i) \in P /\ e(i).weight = s[i].weight /\ e(i).value = y
      BY <2>1, <2>2, <3>1
    <3> QED BY <2>2, <2>3, <3>2 DEF x
  <2>4. CASE i # n
    <3>1. e(i) = s[i]
      BY <2>4
    <3> HIDE DEF e
    <3>2. Leq(x, x)
      BY <2>1, LeqOrders
    <3> QED BY <2>1, <3>1, <3>2
  <2> QED BY <2>3, <2>4
<1> HIDE DEF e
<1>4. t \in Seq(P) /\ Len(t) = n /\ \A i \in 1..n : t[i] = e(i)
  <2> HIDE DEF n, P
  <2>1. \A i \in 1..n : t[i] = e(i) /\ e(i) \in P
    BY <1>3
  <2>2. t \in [1..n -> P]
    BY <2>1
  <2>3. t \in Seq(P) /\ DOMAIN t = 1..n
    BY <1>1, <2>2
  <2>4. Len(t) = n
    <3> HIDE DEF t
    <3> QED BY <1>1, <2>3
  <2> QED BY <2>1, <2>3, <2>4
<1> HIDE DEF t
<1>5. Market!Raised(s) \in Sampled /\ Len(Market!Raised(s)) = n
  BY <1>2, <1>4 DEF Sampled
<1>6. \A i \in 1..n : Market!Raised(s)[i] = e(i)
  BY <1>2, <1>4
<1> QED BY <1>3, <1>5, <1>6

\* A quantile is no less when the last point is raised.
LEMMA QuantileFollows ==
  ASSUME NEW s \in Sampled, Len(s) >= 1, NEW q, NEW a \in Nat \ {0}, NEW b \in Nat \ {0}, a < b,
         Stands(q, a, b)
  PROVE  Leq(Market!Quantile(s, q), Market!Quantile(Market!Raised(s), q))
<1> DEFINE n == Len(s)
           t == Market!Raised(s)
           r == Market!Quantile(s, q)
           w == Market!Quantile(t, q)
<1>1. n \in Nat /\ 1 \in 1..n
  BY SampleParts
<1>2. /\ t \in Sampled /\ Len(t) = n
      /\ \A i \in 1..n : /\ t[i].weight = s[i].weight /\ Leq(s[i].value, t[i].value)
                         /\ i # n => t[i].value = s[i].value
  BY RaisedIs
<1> HIDE DEF t
<1>3. CASE n = 1
  <2>1. r = s[1].value
    BY <1>3, QuantileOfOne
  <2>2. w = t[1].value
    BY <1>2, <1>3, QuantileOfOne
  <2>3. Leq(s[1].value, t[1].value)
    BY <1>1, <1>2
  <2>4. Leq(r, w)
    BY <2>1, <2>2, <2>3
  <2> QED BY <2>4 DEF t
<1>4. CASE n # 1
  <2>1. n >= 2 /\ Len(t) >= 2
    BY <1>1, <1>2, <1>4
  <2>2. PICK h \in 2..n : Between(s, h, a, b, r)
    BY <2>1, QuantileIs
  <2>3. PICK g \in 2..Len(t) : Between(t, g, a, b, w)
    BY <1>2, <2>1, QuantileIs
  <2>4. g \in 2..n /\ g \in 1..n /\ g - 1 \in 1..n /\ g - 1 # n /\ n \in 1..n
    BY <1>1, <1>2
  <2>5. \A i \in 1..n : Place(t, i) = Place(s, i)
    BY <1>2, PlacesAreWeights
  <2>6. Above(t, g, a, b) = Above(s, g, a, b) /\ Below(t, g, a, b) = Below(s, g, a, b)
    BY <1>2, <2>4, <2>5 DEF Above, Below
  <2> HIDE DEF r, w
  <2>7. h = g
    BY <2>1, <2>2, <2>3, <2>4, <2>6, BetweenOnce DEF Between
  <2>8. Mean(r, s[g - 1].value, s[g].value, Above(s, g, a, b), Below(s, g, a, b))
    BY <2>2, <2>7 DEF Between
  <2>9. Mean(w, s[g - 1].value, t[g].value, Above(s, g, a, b), Below(s, g, a, b))
    <3>1. Mean(w, t[g - 1].value, t[g].value, Above(t, g, a, b), Below(t, g, a, b))
      BY <2>3 DEF Between
    <3>2. t[g - 1].value = s[g - 1].value
      BY <1>2, <2>4
    <3> QED BY <2>6, <3>1, <3>2
  <2>10. Leq(s[g].value, t[g].value)
    BY <1>2, <2>4
  <2>11. Leq(r, w)
    BY <2>8, <2>9, <2>10, MeanFollows
  <2> QED BY <2>11 DEF r, w, t
<1> QED BY <1>3, <1>4

\* The mirrored sample has the mirrored band.
LEMMA MirroredIs ==
  ASSUME NEW s \in Sampled, Len(s) >= 1
  PROVE  /\ Market!Mirrored(s) \in Sampled /\ Len(Market!Mirrored(s)) = Len(s)
         /\ \A i \in 1..Len(s) :
              /\ Len(s) + 1 - i \in 1..Len(s)
              /\ Market!Mirrored(s)[i].weight = s[Len(s) + 1 - i].weight
              /\ Market!Mirrored(s)[i].value = Times(Q(-1), s[Len(s) + 1 - i].value)
<1> DEFINE n == Len(s)
           P == [of : Nat, value : Frac, weight : Nat \ {0}]
           e(i) == [s[n + 1 - i] EXCEPT !.value = Times(Q(-1), @)]
           t == [i \in 1..n |-> e(i)]
<1>1. n \in Nat /\ DOMAIN s = 1..n /\ \A i \in 1..n : s[i] \in P /\ s[i].value \in Frac
  BY SampleParts
<1>2. Market!Mirrored(s) = t
  BY <1>1, MarketArithmetic, MarketFraction DEF Market!Mirrored
<1>3. ASSUME NEW i \in 1..n
      PROVE  /\ n + 1 - i \in 1..n
             /\ e(i) \in P /\ e(i).weight = s[n + 1 - i].weight
             /\ e(i).value = Times(Q(-1), s[n + 1 - i].value)
  <2>1. n + 1 - i \in 1..n
    BY <1>1
  <2> DEFINE o == s[n + 1 - i]
             y == Times(Q(-1), o.value)
  <2>2. o \in P /\ o.value \in Frac
    BY <1>1, <2>1
  <2>3. y \in Frac
    <3>1. Q(-1) \in Frac
      BY SmallFractions
    <3> QED BY <2>2, <3>1, FracClosed
  <2>4. e(i) = [o EXCEPT !.value = y]
    OBVIOUS
  <2> HIDE DEF o, y, e
  <2>5. e(i) \in P /\ e(i).weight = o.weight /\ e(i).value = y
    BY <2>2, <2>3, <2>4
  <2> QED BY <2>1, <2>5 DEF o, y
<1> HIDE DEF e
<1>4. t \in Seq(P) /\ Len(t) = n /\ \A i \in 1..n : t[i] = e(i)
  BY <1>1, <1>3
<1> HIDE DEF t
<1>5. Market!Mirrored(s) \in Sampled /\ Len(Market!Mirrored(s)) = n
  BY <1>2, <1>4 DEF Sampled
<1>6. \A i \in 1..n : Market!Mirrored(s)[i] = e(i)
  BY <1>2, <1>4
<1> QED BY <1>3, <1>5, <1>6

\* Places in the mirrored sample are counted from the other end.
LEMMA PlacesMirror ==
  ASSUME NEW s \in Sampled, Len(s) >= 1
  PROVE  \A i \in 1..Len(s) :
           Place(Market!Mirrored(s), i) = Place(s, Len(s)) - Place(s, Len(s) + 1 - i)
<1> DEFINE n == Len(s)
           t == Market!Mirrored(s)
           X(i) == Market!SumUpTo(s, i)
           Y(i) == Market!SumUpTo(t, i)
           Bad == {k \in Nat : k <= n /\ Y(k) # X(n) - X(n - k)}
<1>1. n \in Nat /\ n >= 1 /\ \A i \in 1..n : s[i].weight \in Int
  BY SampleParts
<1>2. /\ X(0) = 0 /\ (\A i \in 0..n : X(i) \in Int) /\ \A i \in 1..n : X(i) = X(i - 1) + s[i].weight
  <2> HIDE DEF n
  <2> QED BY <1>1, SumUpToIs
<1>3. t \in Sampled /\ Len(t) = n /\ \A i \in 1..n : n + 1 - i \in 1..n /\ t[i].weight = s[n + 1 - i].weight
  BY MirroredIs
<1>4. \A i \in 1..n : t[i].weight \in Int
  BY <1>1, <1>3
<1>5. /\ Y(0) = 0 /\ (\A i \in 0..n : Y(i) \in Int) /\ \A i \in 1..n : Y(i) = Y(i - 1) + t[i].weight
  <2> HIDE DEF n, t
  <2> QED BY <1>1, <1>4, SumUpToIs
<1> HIDE DEF X, Y, t, n
<1>6. Bad = {}
  <2> SUFFICES ASSUME Bad # {} PROVE FALSE
    OBVIOUS
  <2>1. PICK k \in Bad : \A e \in Bad : k <= e
    <3>1. Bad \subseteq Nat
      OBVIOUS
    <3> HIDE DEF Bad
    <3> QED BY <3>1, LeastExists
  <2>2. k \in Nat /\ k <= n /\ Y(k) # X(n) - X(n - k)
    OBVIOUS
  <2>3. k # 0
    <3>1. X(n) \in Int /\ n - 0 = n
      BY <1>1, <1>2
    <3> QED BY <1>5, <2>2, <3>1
  <2>4. k \in 1..n /\ k - 1 \in Nat /\ k - 1 <= n /\ ~(k <= k - 1)
        /\ n - k \in 0..n /\ n \in 0..n /\ n - (k - 1) = n + 1 - k /\ (n + 1 - k) - 1 = n - k
    BY <1>1, <2>2, <2>3
  <2>5. Y(k - 1) = X(n) - X(n + 1 - k)
    <3>1. k - 1 \notin Bad
      BY <2>1, <2>4
    <3>2. Y(k - 1) = X(n) - X(n - (k - 1))
      BY <2>4, <3>1
    <3> QED BY <2>4, <3>2
  <2>6. Y(k) = Y(k - 1) + t[k].weight /\ t[k].weight = s[n + 1 - k].weight
        /\ n + 1 - k \in 1..n
    BY <1>3, <1>5, <2>4
  <2>7. X(n + 1 - k) = X((n + 1 - k) - 1) + s[n + 1 - k].weight
    BY <1>2, <2>6
  <2>8. X(n + 1 - k) = X(n - k) + s[n + 1 - k].weight
    BY <2>4, <2>7
  <2>9. X(n) \in Int /\ X(n - k) \in Int /\ s[n + 1 - k].weight \in Int
    BY <1>1, <1>2, <2>4, <2>6
  <2> HIDE DEF Bad
  <2> QED BY <2>2, <2>5, <2>6, <2>8, <2>9
<1>7. ASSUME NEW i \in 1..n PROVE Place(t, i) = Place(s, n) - Place(s, n + 1 - i)
  <2>1. /\ n + 1 - i \in 1..n /\ n - i \in 0..n /\ n \in 0..n /\ 1 \in 1..n /\ n \in 1..n
        /\ (n + 1 - i) - 1 = n - i /\ i \in Nat /\ i <= n /\ n + 1 - 1 = n
    BY <1>1
  <2>2. Y(i) = X(n) - X(n - i)
    BY <1>6, <2>1
  <2>3. X(n + 1 - i) = X((n + 1 - i) - 1) + s[n + 1 - i].weight
    BY <1>2, <2>1
  <2>4. X(n + 1 - i) = X(n - i) + s[n + 1 - i].weight
    BY <2>1, <2>3
  <2>5. t[i].weight = s[n + 1 - i].weight
    BY <1>3
  <2>6. t[1].weight = s[n + 1 - 1].weight
    BY <1>3, <2>1
  <2>7. t[1].weight = s[n].weight
    BY <2>1, <2>6
  <2>8. X(n) \in Int /\ X(n - i) \in Int /\ s[n + 1 - i].weight \in Int /\ s[n].weight \in Int
        /\ s[1].weight \in Int
    BY <1>1, <1>2, <2>1
  <2>9. /\ Place(t, i) = 2 * Y(i) - t[i].weight - t[1].weight
        /\ Place(s, n) = 2 * X(n) - s[n].weight - s[1].weight
        /\ Place(s, n + 1 - i) = 2 * X(n + 1 - i) - s[n + 1 - i].weight - s[1].weight
    BY DEF Place, X, Y
  <2> DEFINE A == X(n)
             B == X(n - i)
             C == X(n + 1 - i)
             d == s[n + 1 - i].weight
             e == s[n].weight
             f == s[1].weight
  <2>10. A \in Int /\ B \in Int /\ d \in Int /\ e \in Int /\ f \in Int /\ C = B + d
    BY <2>4, <2>8
  <2>11. Place(t, i) = 2 * (A - B) - d - e
    BY <2>2, <2>5, <2>7, <2>9
  <2>12. Place(s, n) = 2 * A - e - f /\ Place(s, n + 1 - i) = 2 * C - d - f
    BY <2>9
  <2> HIDE DEF A, B, C, d, e, f
  <2> QED BY <2>10, <2>11, <2>12
<1> QED BY <1>7 DEF n, t

\* The opposite of the opposite is the same.
LEMMA NegatedTwice ==
  ASSUME NEW x \in Frac PROVE Same(x, Times(Q(-1), Times(Q(-1), x)))
<1> DEFINE p == x[1]
           d == x[2]
<1>1. Stands(x, p, d) /\ p \in Int /\ d \in Nat \ {0}
  BY StandsForItself, FracParts
<1> HIDE DEF p, d
<1>2. Stands(Times(Q(-1), x), -p, d)
  BY <1>1, NegatedStands
<1>3. Stands(Times(Q(-1), Times(Q(-1), x)), -(-p), d)
  BY <1>2, NegatedStands
<1>4. -(-p) = p /\ p <= p
  BY <1>1
<1>5. Stands(Times(Q(-1), Times(Q(-1), x)), p, d)
  BY <1>3, <1>4
<1> QED BY <1>1, <1>4, <1>5, LeqSameStands DEF Same

\* What is the same as the same is the same,
LEMMA SameTransitive ==
  ASSUME NEW x \in Frac, NEW y \in Frac, NEW z \in Frac, Same(x, y), Same(y, z)
  PROVE  Same(x, z)
  BY LeqTransitive DEF Same

\* and so are the opposites of the same.
LEMMA NegatedSame ==
  ASSUME NEW x \in Frac, NEW y \in Frac, Same(x, y)
  PROVE  Same(Times(Q(-1), x), Times(Q(-1), y))
<1>1. PICK d \in Nat \ {0} : \E p, q \in Int : Stands(x, p, d) /\ Stands(y, q, d)
  BY TwoShare
<1>2. PICK p, q \in Int : Stands(x, p, d) /\ Stands(y, q, d)
  BY <1>1
<1>3. p <= q /\ q <= p
  BY <1>2, LeqSameStands DEF Same
<1>4. Stands(Times(Q(-1), x), -p, d) /\ Stands(Times(Q(-1), y), -q, d) /\ -p <= -q /\ -q <= -p
  BY <1>2, <1>3, NegatedStands
<1> QED BY <1>4, LeqSameStands DEF Same

\* A quantile of the sample is the opposite of the other one of the mirrored sample.
LEMMA QuantileMirrored ==
  ASSUME NEW s \in Sampled, Len(s) >= 1, NEW b \in Nat \ {0}, NEW a \in Nat \ {0}, a < b,
         NEW q, Stands(q, a, b), NEW p, Stands(p, b - a, b)
  PROVE  Same(Market!Quantile(s, q), Times(Q(-1), Market!Quantile(Market!Mirrored(s), p)))
<1> DEFINE n == Len(s)
           t == Market!Mirrored(s)
           r == Market!Quantile(s, q)
           w == Market!Quantile(t, p)
           W == Place(s, n)
<1>1. n \in Nat /\ 1 \in 1..n /\ \A i \in 1..n : s[i].value \in Frac
  BY SampleParts
<1>2. /\ t \in Sampled /\ Len(t) = n
      /\ \A i \in 1..n : n + 1 - i \in 1..n /\ t[i].value = Times(Q(-1), s[n + 1 - i].value)
  BY MirroredIs
<1>3. \A i \in 1..n : Place(t, i) = W - Place(s, n + 1 - i)
  BY PlacesMirror
<1> HIDE DEF t
<1>4. CASE n = 1
  <2>1. r = s[1].value
    BY <1>4, QuantileOfOne
  <2>2. w = t[1].value
    BY <1>2, <1>4, QuantileOfOne
  <2>3. t[1].value = Times(Q(-1), s[1].value)
    <3>1. n + 1 - 1 = 1
      BY <1>4
    <3> QED BY <1>1, <1>2, <3>1
  <2>4. Same(s[1].value, Times(Q(-1), Times(Q(-1), s[1].value)))
    BY <1>1, NegatedTwice
  <2>5. Same(r, Times(Q(-1), w))
    BY <2>1, <2>2, <2>3, <2>4
  <2> QED BY <2>5 DEF t
<1>5. CASE n # 1
  <2>1. n >= 2 /\ Len(t) >= 2 /\ b - a \in Nat \ {0} /\ b - a < b
    BY <1>1, <1>2, <1>5
  <2>2. PICK h \in 2..n : Between(s, h, a, b, r)
    BY <2>1, QuantileIs
  <2>3. PICK g \in 2..Len(t) : Between(t, g, b - a, b, w)
    BY <1>2, <2>1, QuantileIs
  <2> DEFINE j == n + 2 - g
  <2>4. /\ g \in 2..n /\ g \in 1..n /\ g - 1 \in 1..n /\ j \in 2..n /\ j \in 1..n /\ j - 1 \in 1..n
        /\ n + 1 - (g - 1) = j /\ n + 1 - g = j - 1 /\ n \in 1..n /\ n + 1 - n = 1
        /\ h - 1 \in 1..n /\ h \in 1..n
    BY <1>1, <1>2
  <2>5. W \in Nat \ {0} /\ (\A i \in 1..n : Place(s, i) \in Int) /\ Place(s, 1) = 0
    BY <2>1, AtStands, PlacesClimb
  <2>6. Place(t, n) = W
    <3>1. Place(t, n) = W - Place(s, n + 1 - n)
      BY <1>3, <2>4
    <3> QED BY <2>4, <2>5, <3>1
  <2>7. Place(t, g - 1) = W - Place(s, j) /\ Place(t, g) = W - Place(s, j - 1)
    <3>1. Place(t, g - 1) = W - Place(s, n + 1 - (g - 1))
      BY <1>3, <2>4
    <3>2. Place(t, g) = W - Place(s, n + 1 - g)
      BY <1>3, <2>4
    <3> QED BY <2>4, <3>1, <3>2
  <2> DEFINE x == Place(s, j - 1)
             y == Place(s, j)
  <2>8. x \in Int /\ y \in Int
    BY <2>4, <2>5
  <2>9. Above(t, g, b - a, b) = y * b - a * W /\ Below(t, g, b - a, b) = a * W - x * b
    <3>1. Above(t, g, b - a, b) = (b - a) * W - (W - y) * b
      BY <1>2, <2>6, <2>7 DEF Above
    <3>2. Below(t, g, b - a, b) = (W - x) * b - (b - a) * W
      BY <1>2, <2>6, <2>7 DEF Below
    <3> HIDE DEF x, y, W
    <3> QED BY <2>5, <2>8, <3>1, <3>2
  <2>10. Above(s, j, a, b) = a * W - x * b /\ Below(s, j, a, b) = y * b - a * W
    BY DEF Above, Below
  <2>11. Above(t, g, b - a, b) \in Nat \ {0} /\ Below(t, g, b - a, b) \in Nat
         /\ Above(s, h, a, b) \in Nat \ {0} /\ Below(s, h, a, b) \in Nat
    BY <2>2, <2>3 DEF Between
  <2>12. Mean(r, s[h - 1].value, s[h].value, Above(s, h, a, b), Below(s, h, a, b))
    BY <2>2 DEF Between
  <2>13. Mean(w, Times(Q(-1), s[j].value), Times(Q(-1), s[j - 1].value), y * b - a * W, a * W - x * b)
    <3>1. Mean(w, t[g - 1].value, t[g].value, Above(t, g, b - a, b), Below(t, g, b - a, b))
      BY <2>3 DEF Between
    <3>2. t[g - 1].value = Times(Q(-1), s[n + 1 - (g - 1)].value) /\ t[g].value = Times(Q(-1), s[n + 1 - g].value)
      BY <1>2, <2>4
    <3>3. t[g - 1].value = Times(Q(-1), s[j].value) /\ t[g].value = Times(Q(-1), s[j - 1].value)
      BY <2>4, <3>2
    <3> QED BY <2>9, <3>1, <3>3
  <2>14. y * b - a * W \in Nat \ {0} /\ a * W - x * b \in Nat
    BY <2>9, <2>11
  <2>15. s[j].value \in Frac /\ s[j - 1].value \in Frac /\ s[h - 1].value \in Frac /\ s[h].value \in Frac
    BY <1>1, <2>4
  <2> HIDE DEF r, w
  <2>16. CASE a * W - x * b > 0
    <3>1. Above(s, j, a, b) \in Nat \ {0} /\ Below(s, j, a, b) \in Nat
      BY <2>10, <2>14, <2>16
    <3> HIDE DEF x, y, W
    <3>2. h = j
      <4> HIDE DEF j
      <4> QED BY <2>1, <2>4, <2>11, <3>1, BetweenOnce
    <3>3. Mean(r, s[j - 1].value, s[j].value, a * W - x * b, y * b - a * W)
      BY <2>10, <2>12, <3>2
    <3> HIDE DEF j
    <3>4. Same(r, Times(Q(-1), w))
      BY <2>13, <3>3, MeanMirrored
    <3> QED BY <3>4 DEF r, w, t
  <2>17. CASE a * W - x * b = 0
    <3>1. x * b = a * W
      <4> DEFINE k == a * W
                 l == x * b
      <4>1. k \in Int /\ l \in Int
        <5> HIDE DEF W, x
        <5> QED BY <2>5, <2>8
      <4>2. k - l = 0
        BY <2>17
      <4> HIDE DEF k, l
      <4>3. l = k
        BY <4>1, <4>2
      <4> QED BY <4>3 DEF k, l
    <3>2. j # 2
      <4> HIDE DEF W, j
      <4>1. ASSUME j = 2 PROVE x = 0
        <5>1. j - 1 = 1
          BY <4>1
        <5> QED BY <2>5, <5>1
      <4>2. a * W > 0
        BY <2>5
      <4> HIDE DEF x
      <4>3. j = 2 => x * b = 0
        BY <4>1
      <4> QED BY <3>1, <4>2, <4>3
    <3>3. j - 1 \in 2..n /\ j - 2 \in 1..n /\ (j - 1) - 1 = j - 2 /\ j - 2 \in 1..(n - 1) /\ (j - 2) + 1 = j - 1
      <4>1. j \in 2..n /\ n \in Nat
        BY <1>1, <2>4
      <4> HIDE DEF j, n
      <4> QED BY <3>2, <4>1
    <3> DEFINE z == Place(s, (j - 1) - 1)
    <3>4. z \in Int /\ z < x
      <4>1. Place(s, j - 2) < Place(s, (j - 2) + 1)
        BY <2>1, <3>3, PlacesClimb
      <4> HIDE DEF j
      <4>2. Place(s, j - 2) \in Int
        BY <2>5, <3>3
      <4> QED BY <3>3, <4>1, <4>2
    <3>5. Above(s, j - 1, a, b) = a * W - z * b /\ Below(s, j - 1, a, b) = x * b - a * W
      BY DEF Above, Below
    <3>6. Above(s, j - 1, a, b) \in Nat \ {0} /\ Below(s, j - 1, a, b) \in Nat /\ Below(s, j - 1, a, b) = 0
      <4> DEFINE A == Above(s, j - 1, a, b)
                 B == Below(s, j - 1, a, b)
      <4> HIDE DEF x, z, W, A, B
      <4>1. A = a * W - z * b /\ B = x * b - a * W
        BY <3>5 DEF A, B, x, z, W
      <4> DEFINE k == a * W
                 l == x * b
                 o == z * b
      <4>2. k \in Int /\ l \in Int /\ o \in Int /\ l = k
        BY <2>5, <2>8, <3>1, <3>4
      <4>3. l - o \in Nat \ {0}
        <5>1. x - z \in Nat \ {0}
          BY <2>8, <3>4
        <5>2. (x - z) * b \in Nat \ {0} /\ (x - z) * b = x * b - z * b
          BY <2>8, <3>4, <5>1
        <5> QED BY <5>2
      <4>4. A = k - o /\ B = l - k
        BY <4>1
      <4> HIDE DEF k, l, o
      <4>6. A \in Nat \ {0} /\ B \in Nat /\ B = 0
        BY <4>2, <4>3, <4>4
      <4> QED BY <4>6 DEF A, B
    <3> HIDE DEF x, y, W, z
    <3>7. h = j - 1
      <4> HIDE DEF j
      <4> QED BY <2>1, <2>4, <2>11, <3>3, <3>6, BetweenOnce
    <3>8. Mean(r, s[h - 1].value, s[h].value, Above(s, h, a, b), 0)
      BY <2>12, <3>6, <3>7
    <3>9. Same(r, s[j - 1].value)
      <4>1. Same(r, s[h].value)
        BY <3>8, MeanAtLast
      <4> QED BY <3>7, <4>1
    <3> HIDE DEF j
    <3>10. Mean(w, Times(Q(-1), s[j].value), Times(Q(-1), s[j - 1].value), y * b - a * W, 0)
      BY <2>13, <2>17
    <3>11. Same(w, Times(Q(-1), s[j - 1].value))
      BY <3>10, MeanAtLast
    <3>12. r \in Frac /\ w \in Frac
      BY <3>9, <3>10, <3>8, MeanIsFraction
    <3>13. Times(Q(-1), s[j - 1].value) \in Frac /\ Times(Q(-1), w) \in Frac
           /\ Times(Q(-1), Times(Q(-1), s[j - 1].value)) \in Frac
      <4>1. Q(-1) \in Frac
        BY SmallFractions
      <4>2. Times(Q(-1), s[j - 1].value) \in Frac
        BY <2>15, <4>1, FracClosed
      <4> QED BY <3>12, <4>1, <4>2, FracClosed
    <3>14. Same(Times(Q(-1), w), Times(Q(-1), Times(Q(-1), s[j - 1].value)))
      BY <3>11, <3>12, <3>13, NegatedSame
    <3>15. Same(s[j - 1].value, Times(Q(-1), Times(Q(-1), s[j - 1].value)))
      BY <2>15, NegatedTwice
    <3>16. Same(s[j - 1].value, Times(Q(-1), w))
      <4>1. Same(Times(Q(-1), Times(Q(-1), s[j - 1].value)), Times(Q(-1), w))
        BY <3>14 DEF Same
      <4> QED BY <2>15, <3>13, <3>15, <4>1, SameTransitive
    <3>17. Same(r, Times(Q(-1), w))
      BY <2>15, <3>9, <3>12, <3>13, <3>16, SameTransitive
    <3> QED BY <3>17 DEF r, w, t
  <2>18. a * W - x * b > 0 \/ a * W - x * b = 0
    <3> DEFINE k == a * W - x * b
    <3>1. k \in Nat
      BY <2>14
    <3> HIDE DEF k
    <3>2. k > 0 \/ k = 0
      BY <3>1
    <3> QED BY <3>2 DEF k
  <2> QED BY <2>16, <2>17, <2>18
<1> QED BY <1>4, <1>5

\* The three quantiles of a band, in tenths.
LEMMA TenthsStand ==
  /\ Stands(<<1, 10>>, 1, 10) /\ Stands(<<9, 10>>, 9, 10)
  /\ Stands(<<1, 2>>, 5, 10)
<1>1. <<1, 10>> \in Frac /\ <<9, 10>> \in Frac /\ <<1, 2>> \in Frac
  BY FracIs
<1>2. <<1, 10>>[1] * 10 = 1 * <<1, 10>>[2] /\ <<9, 10>>[1] * 10 = 9 * <<9, 10>>[2]
      /\ <<1, 2>>[1] * 10 = 5 * <<1, 2>>[2]
  OBVIOUS
<1> QED BY <1>1, <1>2 DEF Stands

\* The band of a sample in order: ordered and within it, mirrored with it, raised with it.
LEMMA BandOfSample ==
  ASSUME NEW s \in Sampled, Len(s) >= 1, Rising(s)
  PROVE  /\ Leq(s[1].value, Market!Quantile(s, <<1, 10>>))
         /\ Leq(Market!Quantile(s, <<1, 10>>), Market!Quantile(s, <<1, 2>>))
         /\ Leq(Market!Quantile(s, <<1, 2>>), Market!Quantile(s, <<9, 10>>))
         /\ Leq(Market!Quantile(s, <<9, 10>>), s[Len(s)].value)
         /\ Same(Market!Quantile(s, <<9, 10>>),
                 Times(Q(-1), Market!Quantile(Market!Mirrored(s), <<1, 10>>)))
         /\ Same(Market!Quantile(s, <<1, 2>>),
                 Times(Q(-1), Market!Quantile(Market!Mirrored(s), <<1, 2>>)))
         /\ \A q \in {<<1, 10>>, <<1, 2>>, <<9, 10>>} :
              Leq(Market!Quantile(s, q), Market!Quantile(Market!Raised(s), q))
<1> DEFINE low == <<1, 10>>
           mid == <<1, 2>>
           top == <<9, 10>>
<1>1. Stands(low, 1, 10) /\ Stands(top, 9, 10) /\ Stands(mid, 5, 10)
  BY TenthsStand
<1>2. Stands(top, 10 - 1, 10) /\ Stands(low, 10 - 9, 10) /\ Stands(mid, 10 - 5, 10)
  BY <1>1
<1> HIDE DEF low, mid, top
<1>3. Leq(s[1].value, Market!Quantile(s, low))
  BY <1>1, QuantileWithin
<1>4. Leq(Market!Quantile(s, low), Market!Quantile(s, mid))
  BY <1>1, QuantilesRise
<1>5. Leq(Market!Quantile(s, mid), Market!Quantile(s, top))
  BY <1>1, QuantilesRise
<1>6. Leq(Market!Quantile(s, top), s[Len(s)].value)
  BY <1>1, QuantileWithin
<1>7. Same(Market!Quantile(s, top), Times(Q(-1), Market!Quantile(Market!Mirrored(s), low)))
  BY <1>1, <1>2, QuantileMirrored
<1>8. Same(Market!Quantile(s, mid), Times(Q(-1), Market!Quantile(Market!Mirrored(s), mid)))
  BY <1>1, <1>2, QuantileMirrored
<1>9. Leq(Market!Quantile(s, low), Market!Quantile(Market!Raised(s), low))
  BY <1>1, QuantileFollows
<1>10. Leq(Market!Quantile(s, mid), Market!Quantile(Market!Raised(s), mid))
  BY <1>1, QuantileFollows
<1>11. Leq(Market!Quantile(s, top), Market!Quantile(Market!Raised(s), top))
  BY <1>1, QuantileFollows
<1> QED BY <1>3, <1>4, <1>5, <1>6, <1>7, <1>8, <1>9, <1>10, <1>11 DEF low, mid, top

\* What is before another ranks lower.
LEMMA RanksFollow ==
  ASSUME NEW S, IsFiniteSet(S), NEW f, NEW b, Ranking(b, f, S), NEW i \in S, NEW j \in S, i \in b[j]
  PROVE  Rank(b, i) < Rank(b, j)
<1>1. b[i] \in SUBSET S /\ b[j] \in SUBSET S /\ i \notin b[i]
  BY DEF Ranking
<1>2. IsFiniteSet(b[i]) /\ IsFiniteSet(b[j])
  BY <1>1, FS_Subset
<1>3. b[i] \in SUBSET (b[j] \ {i})
  BY <1>1 DEF Ranking
<1>4. /\ IsFiniteSet(b[j] \ {i}) /\ Cardinality(b[j] \ {i}) < Cardinality(b[j])
      /\ Cardinality(b[j] \ {i}) \in Nat /\ Cardinality(b[j]) \in Nat
  BY <1>1, SmallerWithout, FS_Subset
<1>5. Cardinality(b[i]) <= Cardinality(b[j] \ {i}) /\ Cardinality(b[i]) \in Nat
  BY <1>2, <1>3, <1>4, FS_Subset, FS_CardinalityType
<1> QED BY <1>4, <1>5 DEF Rank

\* Points of distinct tenders are sorted by value.
LEMMA SortedIs ==
  ASSUME NEW S, IsFiniteSet(S), S \subseteq [of : Nat, value : Frac, weight : Nat \ {0}],
         \A a, b \in S : a.of = b.of => a = b
  PROVE  /\ Market!Sorted(S) \in Sampled /\ Len(Market!Sorted(S)) = Cardinality(S)
         /\ Rising(Market!Sorted(S))
<1> DEFINE n == Cardinality(S)
           before == [a \in S |-> {b \in S : Market!Before(b, a)}]
           f == [a \in S |-> 0]
           P == [of : Nat, value : Frac, weight : Nat \ {0}]
           s == Market!Sorted(S)
<1>1. \A a \in S : a.of \in Nat /\ a.value \in Frac
  OBVIOUS
<1>2. \A a, b \in S : Market!Before(a, b) <=> Less(a.value, b.value) \/ (~Less(b.value, a.value) /\ a.of < b.of)
  BY MarketOperators DEF Market!Before
<1>3. ASSUME NEW a \in S, NEW b \in S, NEW c \in S
      PROVE  /\ ~Market!Before(a, a)
             /\ a # b => Market!Before(a, b) \/ Market!Before(b, a)
             /\ Market!Before(a, b) /\ Market!Before(b, c) => Market!Before(a, c)
             /\ Less(a.value, b.value) => Market!Before(a, b)
  <2>1. PICK d \in Nat \ {0} : Shares(a.value, d) /\ Shares(b.value, d) /\ Shares(c.value, d)
    BY <1>1, CommonDenominator
  <2>2. PICK p \in Int : Stands(a.value, p, d)
    BY <2>1 DEF Shares
  <2>3. PICK q \in Int : Stands(b.value, q, d)
    BY <2>1 DEF Shares
  <2>4. PICK r \in Int : Stands(c.value, r, d)
    BY <2>1 DEF Shares
  <2>5. /\ Less(a.value, a.value) <=> p < p
        /\ Less(a.value, b.value) <=> p < q
        /\ Less(b.value, a.value) <=> q < p
        /\ Less(b.value, c.value) <=> q < r
        /\ Less(c.value, b.value) <=> r < q
        /\ Less(a.value, c.value) <=> p < r
        /\ Less(c.value, a.value) <=> r < p
    BY <2>2, <2>3, <2>4, LeqSameStands
  <2> DEFINE x == a.of
             y == b.of
             z == c.of
  <2>6. x \in Nat /\ y \in Nat /\ z \in Nat /\ (a # b => x # y)
    OBVIOUS
  <2>7. /\ Market!Before(a, a) <=> p < p \/ (~(p < p) /\ x < x)
        /\ Market!Before(a, b) <=> p < q \/ (~(q < p) /\ x < y)
        /\ Market!Before(b, a) <=> q < p \/ (~(p < q) /\ y < x)
        /\ Market!Before(b, c) <=> q < r \/ (~(r < q) /\ y < z)
        /\ Market!Before(a, c) <=> p < r \/ (~(r < p) /\ x < z)
    BY <1>2, <2>5
  <2> HIDE DEF x, y, z
  <2> QED BY <2>5, <2>6, <2>7
<1>4. Ranking(before, f, S)
  <2>1. before \in [S -> SUBSET S]
    OBVIOUS
  <2>2. \A a, b \in S : b \in before[a] <=> Market!Before(b, a)
    OBVIOUS
  <2>3. \A a, b \in S : ~(f[b] > f[a]) /\ f[b] >= f[a]
    OBVIOUS
  <2> HIDE DEF before, f
  <2> QED BY <1>3, <2>1, <2>2, <2>3 DEF Ranking
<1>5. n \in Nat
  BY FS_CardinalityType
<1>6. \A a \in S : Rank(before, a) = Market!Cardinality({b \in S : Market!Before(b, a)})
  BY MarketCardinality DEF Rank
<1> DEFINE e(i) == CHOOSE a \in S : Rank(before, a) = i - 1
<1>7. s = [i \in 1..n |-> e(i)]
  <2> DEFINE g(i) == CHOOSE a \in S : Market!Cardinality({b \in S : Market!Before(b, a)}) = i - 1
  <2>1. \A i : g(i) = e(i)
    <3> SUFFICES ASSUME NEW i PROVE g(i) = e(i)
      OBVIOUS
    <3>1. \A a : (a \in S /\ Rank(before, a) = i - 1)
                 <=> (a \in S /\ Market!Cardinality({b \in S : Market!Before(b, a)}) = i - 1)
      BY <1>6
    <3> HIDE DEF before
    <3> QED BY <3>1
  <2>2. s = [i \in 1..Market!Cardinality(S) |-> g(i)]
    BY Zenon DEF Market!Sorted
  <2> HIDE DEF e, g, s
  <2> QED BY <2>1, <2>2, MarketCardinality
<1> HIDE DEF s
<1>8. ASSUME NEW i \in 1..n PROVE s[i] \in S /\ Rank(before, s[i]) = i - 1
  <2> HIDE DEF before
  <2> DEFINE ranks == [a \in S |-> Rank(before, a)]
  <2>1. ranks \in Bijection(S, 0..(n - 1))
    <3> HIDE DEF f
    <3> QED BY <1>4, RanksAreNumbers
  <2>2. \A x \in 0..(n - 1) : \E a \in S : ranks[a] = x
    <3> HIDE DEF ranks
    <3> QED BY <2>1 DEF Bijection, Surjection
  <2>3. i - 1 \in 0..(n - 1)
    BY <1>5
  <2>4. \E a \in S : Rank(before, a) = i - 1
    BY <2>2, <2>3
  <2>5. s[i] = CHOOSE a \in S : Rank(before, a) = i - 1
    BY <1>7
  <2> QED BY <2>4, <2>5
<1>9. s \in Sampled /\ Len(s) = n
  <2>1. s \in [1..n -> P]
    <3>1. \A i \in 1..n : e(i) \in P
      <4> SUFFICES ASSUME NEW i \in 1..n PROVE e(i) \in P
        OBVIOUS
      <4>1. s[i] \in S /\ s[i] = e(i)
        BY <1>7, <1>8
      <4> HIDE DEF e
      <4> QED BY <4>1
    <3> DEFINE u == [i \in 1..n |-> e(i)]
    <3>2. u \in [1..n -> P]
      <4> HIDE DEF P, e, n
      <4> QED BY <3>1
    <3>3. s = u
      BY <1>7
    <3> HIDE DEF u, P, n
    <3> QED BY <3>2, <3>3
  <2>2. Sampled = Seq(P)
    BY DEF Sampled
  <2> HIDE DEF n, P
  <2> QED BY <1>5, <2>1, <2>2
<1>10. Rising(s)
  <2> SUFFICES ASSUME NEW i \in 1..n, NEW j \in 1..n, i <= j PROVE Leq(s[i].value, s[j].value)
    BY <1>9 DEF Rising
  <2>1. s[i] \in S /\ s[j] \in S /\ Rank(before, s[i]) = i - 1 /\ Rank(before, s[j]) = j - 1
    BY <1>8
  <2>2. ~(s[j] \in before[s[i]])
    <3> SUFFICES ASSUME s[j] \in before[s[i]] PROVE FALSE
      OBVIOUS
    <3>1. Rank(before, s[j]) < Rank(before, s[i])
      <4> HIDE DEF before, f
      <4> QED BY <1>4, <2>1, RanksFollow
    <3> QED BY <1>5, <2>1, <3>1
  <2>3. ~Less(s[j].value, s[i].value)
    BY <1>3, <2>1, <2>2
  <2> QED BY <2>3 DEF Less
<1> QED BY <1>9, <1>10 DEF s

-----------------------------------------------------------------------------
\* The power of a positive fraction.
LEMMA PowerIs ==
  ASSUME NEW a \in Growing, NEW n \in Nat
  PROVE  Market!Power(a, n) \in Growing
<1> DEFINE S == 1..n
           f == [i \in S |-> a]
           c == [s \in SUBSET S |-> CHOOSE x \in s : TRUE]
           Product(g) == [s \in SUBSET S |-> IF s = {} THEN Market!Q(1)
                            ELSE Market!Times(g[s \ {CHOOSE x \in s : TRUE}], a)]
           Fold(g) == [s \in SUBSET S |-> IF s = {} THEN Q(1) ELSE Times(g[s \ {c[s]}], f[c[s]])]
<1>1. IsFiniteSet(S)
  <2>1. n \in Int /\ 1 \in Int
    OBVIOUS
  <2> QED BY <2>1, FS_Interval
<1>2. Picks(c, S)
  BY DEF Picks
<1>3. f \in [S -> Growing]
  OBVIOUS
<1>4. ASSUME NEW g PROVE Product(g) = Fold(g)
  <2>1. ASSUME NEW s \in SUBSET S
        PROVE  (IF s = {} THEN Market!Q(1) ELSE Market!Times(g[s \ {CHOOSE x \in s : TRUE}], a))
                 = (IF s = {} THEN Q(1) ELSE Times(g[s \ {c[s]}], f[c[s]]))
    <3>1. CASE s # {}
      <4>1. c[s] = (CHOOSE x \in s : TRUE) /\ c[s] \in S
        BY <1>2, <3>1 DEF Picks
      <4>2. f[c[s]] = a
        BY <4>1
      <4> HIDE DEF f, c
      <4> QED BY <3>1, <4>1, <4>2, MarketArithmetic
    <3>2. CASE s = {}
      BY <3>2, MarketFraction
    <3> QED BY <3>1, <3>2
  <2> HIDE DEF f, c, S
  <2> QED BY <2>1
<1>5. PICK g : TimesFold(g, f, c, S)
  <2> HIDE DEF f, c, S
  <2> QED BY <1>1, <1>2, <1>3, TimesFoldExists
<1> DEFINE h == CHOOSE h : h = Product(h)
<1>6. h = Product(h)
  <2>1. g = Fold(g)
    <3> HIDE DEF f, c, S
    <3> QED BY <1>5, Zenon DEF TimesFold
  <2> HIDE DEF Product, Fold
  <2>2. g = Product(g)
    BY <1>4, <2>1
  <2> QED BY <2>2
<1>7. TimesFold(h, f, c, S)
  <2>1. h = Fold(h)
    <3> HIDE DEF Product, Fold, h
    <3> QED BY <1>4, <1>6
  <2> HIDE DEF f, c, h, S
  <2> QED BY <2>1, Zenon DEF TimesFold
<1>8. Market!Power(a, n) = h[S]
  BY Zenon DEF Market!Power, Market!FoldSet, Market!MapThenFoldSet
<1> HIDE DEF h, f, c, S
<1> QED BY <1>1, <1>2, <1>3, <1>7, <1>8, TimesFoldIs

\* The greatest of a set of numbers is one of them.
LEMMA MarketMax ==
  ASSUME NEW n \in Nat, NEW S, S \subseteq 1..n, S # {}
  PROVE  Market!Max(S) \in S
<1> DEFINE below == {n - y : y \in S}
<1>1. below \subseteq Nat /\ below # {}
  <2>1. \A y \in S : n - y \in Nat
    OBVIOUS
  <2> QED BY <2>1
<1>2. PICK d \in below : \A e \in below : d <= e
  <2> HIDE DEF below
  <2> QED BY <1>1, LeastExists
<1>3. PICK x \in S : d = n - x
  OBVIOUS
<1>4. \A y \in S : x >= y
  <2>1. ASSUME NEW y \in S PROVE x >= y
    <3>1. n - y \in below /\ x \in Int /\ y \in Int
      OBVIOUS
    <3> HIDE DEF below
    <3> QED BY <1>2, <1>3, <3>1
  <2> QED BY <2>1
<1> QED BY <1>4 DEF Market!Max

\* The least of a set of numbers is one of them, and no other is less.
LEMMA MarketMin ==
  ASSUME NEW S, S \subseteq Nat, S # {}
  PROVE  Market!Min(S) \in S /\ \A y \in S : Market!Min(S) <= y
<1>1. PICK x \in S : \A y \in S : x <= y
  BY LeastExists
<1> QED BY <1>1 DEF Market!Min

\* Positive numbers and their ratios are positive fractions.
LEMMA RatiosGrow ==
  ASSUME NEW n \in Nat \ {0}, NEW d \in Nat \ {0}
  PROVE  Market!Fraction(n, d) \in Growing /\ Market!Q(n) \in Growing
<1>1. Stands(Fraction(n, d), n, d)
  BY FractionStands
<1>2. Fraction(n, d) \in Frac
  BY <1>1 DEF Stands
<1>3. Fraction(n, d)[1] > 0
  BY <1>1, SignStands
<1>4. Q(n) \in Frac /\ Q(n)[1] = n
  BY FracIs DEF Q
<1> QED BY <1>2, <1>3, <1>4, MarketFraction DEF Growing, Positive

\* What the market's behaviour keeps of its data.
MarketState ==
  /\ m2 \in MarketSubjects /\ m3 \in Markets /\ m6 \subseteq 1..MarketClock
  /\ m5 \in [MarketIds -> Market!AwardRows]

\* The level of a year is positive, in the series and beyond it.
LEMMA LevelIs ==
  ASSUME MarketState, NEW y \in Nat \ {0}, NEW cutoff \in Nat, Market!Published(cutoff) # {}
  PROVE  Market!Level(y, cutoff) \in Growing
<1> DEFINE known == Market!Published(cutoff)
           last == Market!Max(known)
           yearly == IF last - 1 \in known THEN Market!Fraction(MarketLevels[last], MarketLevels[last - 1])
                     ELSE Market!Q(1)
<1>1. known \subseteq 1..MarketClock /\ MarketClock \in Nat
  BY MarketAssumption DEF Market!Published, MarketState
<1>2. last \in known
  BY <1>1, MarketMax
<1>3. Market!Level(y, cutoff)
        = IF y <= last THEN Market!Q(MarketLevels[y])
          ELSE Market!Times(Market!Q(MarketLevels[last]), Market!Power(yearly, y - last))
  BY Zenon DEF Market!Level
<1>4. \A x \in 1..MarketClock : MarketLevels[x] \in Nat \ {0}
  BY MarketAssumption
<1> HIDE DEF known
<1>5. last \in 1..MarketClock
  BY <1>1, <1>2
<1>6. yearly \in Growing
  <2>1. MarketLevels[last] \in Nat \ {0}
    BY <1>4, <1>5
  <2>2. CASE last - 1 \in known
    <3>1. MarketLevels[last - 1] \in Nat \ {0}
      BY <1>1, <1>4, <2>2
    <3> QED BY <2>1, <2>2, <3>1, RatiosGrow
  <2>3. CASE last - 1 \notin known
    BY <2>3, MarketFraction, OneGrows
  <2> QED BY <2>2, <2>3
<1> HIDE DEF last, yearly
<1>7. CASE y <= last
  <2>0. y \in 1..MarketClock
    BY <1>1, <1>5, <1>7
  <2>1. MarketLevels[y] \in Nat \ {0}
    BY <1>4, <2>0
  <2> QED BY <1>3, <1>7, <2>1, RatiosGrow
<1>8. CASE ~(y <= last)
  <2>1. MarketLevels[last] \in Nat \ {0}
    BY <1>4, <1>5
  <2>2. Market!Q(MarketLevels[last]) \in Growing
    BY <2>1, RatiosGrow
  <2>3. y - last \in Nat
    BY <1>5, <1>8
  <2>4. Market!Power(yearly, y - last) \in Growing
    BY <1>6, <2>3, PowerIs
  <2>5. Market!Times(Market!Q(MarketLevels[last]), Market!Power(yearly, y - last)) \in Growing
    BY <2>2, <2>4, GrowingClosed, MarketArithmetic
  <2> QED BY <1>3, <1>8, <2>5
<1> QED BY <1>7, <1>8

\* What a price is multiplied with in the money of the cutoff is positive.
LEMMA RestatedIs ==
  ASSUME MarketState, NEW age \in Nat, NEW cutoff \in Nat
  PROVE  Market!Restated(age, cutoff) \in Growing
<1>1. CASE Market!Published(cutoff) = {} \/ cutoff - age < Market!Min(Market!Published(cutoff))
  <2>1. MarketGrowth \in Growing
    BY MarketAssumption, MarketFrac DEF Growing, Positive
  <2>2. Market!Power(MarketGrowth, age) \in Growing
    BY <2>1, PowerIs
  <2> QED BY <1>1, <2>2, Zenon DEF Market!Restated
<1>2. CASE ~(Market!Published(cutoff) = {} \/ cutoff - age < Market!Min(Market!Published(cutoff)))
  <2> DEFINE known == Market!Published(cutoff)
             least == Market!Min(known)
  <2>1. /\ known # {} /\ ~(cutoff - age < least)
        /\ Market!Restated(age, cutoff)
             = Market!Over(Market!Level(cutoff, cutoff), Market!Level(cutoff - age, cutoff))
    BY <1>2, Zenon DEF Market!Restated
  <2>2. known \subseteq 1..MarketClock /\ MarketClock \in Nat /\ \A x \in known : x < cutoff
    BY MarketAssumption DEF Market!Published, MarketState
  <2>3. least \in known
    <3>1. known \subseteq Nat
      BY <2>2
    <3> HIDE DEF known
    <3> QED BY <2>1, <3>1, MarketMin
  <2> HIDE DEF least
  <2>4. cutoff \in Nat \ {0} /\ cutoff - age \in Nat \ {0}
    <3> HIDE DEF known
    <3> QED BY <2>1, <2>2, <2>3
  <2>5. Market!Level(cutoff, cutoff) \in Growing /\ Market!Level(cutoff - age, cutoff) \in Growing
    BY <2>1, <2>4, LevelIs
  <2>6. \A a, b \in Growing : Over(a, b) \in Growing
    BY FracClosed, FracSigns DEF Growing
  <2> QED BY <2>1, <2>5, <2>6, MarketOperators
<1> QED BY <1>1, <1>2

\* A comparable that retrieval keeps is a point: its value a fraction, its weight positive.
LEMMA PointIs ==
  ASSUME MarketState, NEW cutoff \in 0..MarketClock, NEW c \in MarketIds,
         ~Market!Excluded(c, cutoff), Market!Score(m3[c]) >= 20
  PROVE  Market!Point(c, cutoff) \in [of : Nat, value : Frac, weight : Nat \ {0}]
<1> DEFINE p == m3[c]
           age == Market!Age(c, cutoff)
           value == Market!Times(Market!Q(m5[c].value), Market!Restated(age, cutoff))
           score == Market!Score(p)
           half == 2 ^ (MarketClock - age)
<1>1. /\ MarketClock \in Nat /\ c \in Nat /\ m5[c].value \in Nat
      /\ p \in [opened : Nat, activity : 0..100, agency : 0..100, scale : 0..100,
                rest : 0..100, book : BOOLEAN]
  <2>1. MarketClock \in Nat /\ c \in Nat /\ MarketValues \subseteq Nat
    BY MarketAssumption
  <2>2. m5[c] \in Market!AwardRows
    BY DEF MarketState
  <2>3. m5[c].value \in Nat
    <3> DEFINE row == m5[c]
               times == 0..MarketClock
    <3>1. row \in [value : {0} \cup MarketValues, at : times]
      BY <2>2, Zenon DEF Market!AwardRows
    <3> HIDE DEF row, times
    <3>2. row.value \in {0} \cup MarketValues
      BY <3>1
    <3>3. \A x \in {0} \cup MarketValues : x \in Nat
      <4> HIDE DEF row
      <4> QED BY <2>1
    <3>4. row.value \in Nat
      BY <3>2, <3>3, Zenon
    <3> QED BY <3>4 DEF row
  <2>4. m3 \in [MarketIds -> [opened : Nat, activity : 0..100, agency : 0..100, scale : 0..100,
                              rest : 0..100, book : BOOLEAN]]
    BY MarketAssumption DEF MarketState
  <2> QED BY <2>1, <2>3, <2>4
<1>2. p.opened \in 1..(cutoff - 1)
  <2>1. p.opened # 0 /\ ~(p.opened >= cutoff)
    BY Zenon DEF Market!Excluded
  <2> HIDE DEF p
  <2> QED BY <1>1, <2>1
<1>3. age = cutoff - p.opened
  BY DEF Market!Age
<1> HIDE DEF p
<1>4. age \in Nat /\ MarketClock - age \in Nat /\ cutoff \in Nat
  BY <1>1, <1>2, <1>3
<1> HIDE DEF age
<1>5. value \in Frac
  <2>1. Market!Restated(age, cutoff) \in Frac
    BY <1>4, RestatedIs DEF Growing
  <2>2. Q(m5[c].value) \in Frac
    <3>1. m5[c].value \in Int
      BY <1>1
    <3> QED BY <3>1, FracIs DEF Q
  <2> QED BY <2>1, <2>2, FracClosed, MarketArithmetic, MarketFraction
<1>6. half \in Nat \ {0}
  BY <1>4, PowerOfTwo
<1>7. score \in Int
  <2> DEFINE x == IF m2.active THEN p.activity ELSE 0
             y == IF p.book THEN p.scale ELSE 50
             sum == 30 * x + 15 * p.agency + 20 * y + 35 * p.rest
  <2>1. x \in Int /\ y \in Int /\ p.agency \in Int /\ p.rest \in Int
    BY <1>1
  <2>2. score = sum \div 100
    BY Zenon DEF Market!Score
  <2> HIDE DEF x, y, score
  <2>3. sum \in Int
    BY <2>1
  <2> HIDE DEF sum
  <2> QED BY <2>2, <2>3
<1>8. score * half \in Nat \ {0}
  <2>1. score >= 20
    BY DEF p
  <2> HIDE DEF score, half
  <2> QED BY <1>6, <1>7, <2>1
<1>9. Market!Point(c, cutoff) = [of |-> c, value |-> value, weight |-> score * half]
  BY Zenon DEF Market!Point, p, age
<1> HIDE DEF value, score, half
<1> QED BY <1>1, <1>5, <1>8, <1>9

\* The sample is one of points in order.
LEMMA SampleIs ==
  ASSUME MarketState, NEW cutoff \in 0..MarketClock
  PROVE  Market!Sample(cutoff) \in Sampled /\ Rising(Market!Sample(cutoff))
<1> DEFINE kept == {c \in Market!Similar(cutoff) : Market!Score(m3[c]) >= 20 /\ m5[c].value >= 1}
           point(c) == Market!Point(c, cutoff)
           points == {point(c) : c \in kept}
           f == [c \in kept |-> point(c)]
<1>1. Market!Sample(cutoff) = Market!Sorted(points)
  BY Zenon DEF Market!Sample
<1>2. kept \subseteq MarketIds /\ \A c \in kept : ~Market!Excluded(c, cutoff) /\ Market!Score(m3[c]) >= 20
  <2>1. \A c \in Market!Similar(cutoff) : c \in MarketIds /\ ~Market!Excluded(c, cutoff)
    BY Zenon DEF Market!Similar
  <2> QED BY <2>1
<1>3. IsFiniteSet(kept)
  BY <1>2, MarketAssumption, FS_Subset
<1>4. \A c \in kept : point(c) \in [of : Nat, value : Frac, weight : Nat \ {0}] /\ point(c).of = c
  <2>1. ASSUME NEW c \in kept
        PROVE  point(c) \in [of : Nat, value : Frac, weight : Nat \ {0}] /\ point(c).of = c
    <3>1. point(c) \in [of : Nat, value : Frac, weight : Nat \ {0}]
      BY <1>2, PointIs
    <3>2. point(c).of = c
      BY DEF Market!Point
    <3> QED BY <3>1, <3>2
  <2> QED BY <2>1
<1> HIDE DEF kept, point
<1>5. points \subseteq [of : Nat, value : Frac, weight : Nat \ {0}]
  BY <1>4
<1>6. \A a, b \in points : a.of = b.of => a = b
  BY <1>4
<1>7. IsFiniteSet(points)
  <2>1. f \in Surjection(kept, points)
    BY DEF Surjection
  <2> HIDE DEF f, points
  <2> QED BY <1>3, <2>1, FS_Surjection
<1> HIDE DEF points
<1> QED BY <1>1, <1>5, <1>6, <1>7, SortedIs

\* A cutoff is a year of the bound, or 0.
LEMMA FirstOfIs ==
  ASSUME NEW dates \in Seq(0..MarketClock), NEW otherwise \in 0..MarketClock
  PROVE  Market!FirstOf(dates, otherwise) \in 0..MarketClock
<1> DEFINE given == {i \in DOMAIN dates : dates[i] # 0}
<1>1. Market!FirstOf(dates, otherwise) = IF given = {} THEN otherwise ELSE dates[Market!Min(given)]
  BY Zenon DEF Market!FirstOf
<1>2. CASE given # {}
  <2>1. given \subseteq Nat /\ given \subseteq DOMAIN dates
    OBVIOUS
  <2> HIDE DEF given
  <2>2. Market!Min(given) \in given
    BY <1>2, <2>1, MarketMin
  <2>3. dates[Market!Min(given)] \in 0..MarketClock
    <3> DEFINE T == 0..MarketClock
               x == Market!Min(given)
    <3>1. x \in DOMAIN dates /\ dates \in Seq(T)
      BY <2>1, <2>2
    <3> HIDE DEF T, x
    <3>2. dates[x] \in T
      BY <3>1, ElementOfSeq
    <3> QED BY <3>2 DEF T, x
  <2> QED BY <1>1, <1>2, <2>3
<1> HIDE DEF given
<1> QED BY <1>1, <1>2

\* So is the cutoff of a request.
LEMMA CutoffIs ==
  ASSUME MarketState, m1 \in 1..MarketClock, NEW asOf \in 0..m1
  PROVE  Market!Cutoff(asOf) \in 0..MarketClock
<1> DEFINE resolved == Market!ResolveAsOf(m2)
           point == Market!PointInTime(m2)
<1>1. MarketClock \in Nat /\ m2.opens \in 0..MarketClock /\ m2.last \in 0..MarketClock
      /\ m2.published \in 0..MarketClock
  BY MarketAssumption DEF MarketState
<1>2. resolved \in 0..MarketClock
  <2>1. <<m2.opens, m2.last>> \in Seq(0..MarketClock) /\ m1 \in 0..MarketClock
    BY <1>1
  <2>2. Market!FirstOf(<<m2.opens, m2.last>>, m1) \in 0..MarketClock
    BY <2>1, FirstOfIs
  <2> QED BY <2>2, Zenon DEF Market!ResolveAsOf
<1>3. point \in 0..MarketClock
  <2>1. <<m2.opens, m2.last, m2.published>> \in Seq(0..MarketClock) /\ 0 \in 0..MarketClock
    BY <1>1
  <2>2. Market!FirstOf(<<m2.opens, m2.last, m2.published>>, 0) \in 0..MarketClock
    BY <2>1, FirstOfIs
  <2> QED BY <2>2, Zenon DEF Market!PointInTime
<1>4. Market!Cutoff(asOf) = IF asOf # 0 THEN asOf ELSE IF point = 0 THEN resolved
                            ELSE Market!Min({resolved, point})
  BY Zenon DEF Market!Cutoff
<1> HIDE DEF resolved, point
<1>5. Market!Min({resolved, point}) \in {resolved, point}
  <2>1. {resolved, point} \subseteq Nat /\ {resolved, point} # {}
    BY <1>2, <1>3
  <2> QED BY <2>1, MarketMin
<1>6. asOf \in 0..MarketClock
  BY <1>1
<1> QED BY <1>2, <1>3, <1>4, <1>5, <1>6

\* The market may be spoken of on enough comparables only.
LEMMA GradeIs ==
  ASSUME MarketState, NEW cutoff
  PROVE  LET grade == Market!Grade(cutoff) IN
         IF Market!AllowsMarket(grade.tier) THEN grade.n >= MarketMinimum.C ELSE grade.why # "none"
<1> DEFINE ages == [c \in Market!Graded(cutoff) |-> cutoff - m5[c].at]
           loyal == Market!Cardinality({c \in Market!Graded(cutoff) : m3[c].agency = 100})
           n == Market!Cardinality(DOMAIN ages)
           like == Market!SimilarityConfidence(n, loyal, m2.active)
           fresh == Market!Freshness(ages)
           level == Market!Classify(MarketMinimum, MarketEffective, n, Market!Q(0), like, fresh)
           grade == Market!Grade(cutoff)
<1>1. n \in Nat
  <2>1. Market!Graded(cutoff) \subseteq MarketIds
    BY DEF Market!Graded
  <2>2. IsFiniteSet(DOMAIN ages)
    BY <2>1, MarketAssumption, FS_Subset
  <2> HIDE DEF ages
  <2> QED BY <2>2, MarketCardinality, FS_CardinalityType
<1>2. grade = [n |-> n, fresh |-> fresh, like |-> like, tier |-> level.tier, why |-> level.why]
  BY Zenon DEF Market!Grade, Market!MarketGrade
<1> HIDE DEF n, like, fresh, grade
<1>3. (level.tier # "D" /\ n >= MarketMinimum.C) \/ (level.tier = "D" /\ level.why # "none")
  <2> DEFINE a == MarketMinimum.A
             b == MarketMinimum.B
             c == MarketMinimum.C
             first == Market!Leq(Market!Q(MarketEffective.A), Market!Q(0)) /\ n >= a /\ like >= 60 /\ fresh >= 50
             second == Market!Leq(Market!Q(MarketEffective.B), Market!Q(0)) /\ n >= b
             graded == IF first THEN [tier |-> "A", why |-> "none"]
                       ELSE IF second THEN [tier |-> "B", why |-> "none"]
                       ELSE IF n >= c THEN [tier |-> "C", why |-> "INSUFFICIENT_EVIDENCE"]
                       ELSE [tier |-> "D", why |-> "INSUFFICIENT_EVIDENCE"]
  <2>1. a \in Nat /\ b \in Nat /\ c \in Nat /\ c <= b /\ b <= a
    BY MarketAssumption
  <2>2. level = CASE n = 0 -> [tier |-> "D", why |-> "NO_COMPARABLE_TENDERS"]
                  [] n > 0 /\ fresh < 15 -> [tier |-> "D", why |-> "STALE_DATA"]
                  [] n > 0 /\ fresh >= 15 /\ like < 25 -> [tier |-> "D", why |-> "LOW_SIMILARITY"]
                  [] OTHER -> graded
    BY Zenon DEF Market!Classify
  <2>3. (graded.tier # "D" /\ n >= c) \/ (graded.tier = "D" /\ graded.why # "none")
    <3>1. CASE first
      <4>1. n >= c
        <5>1. n >= a
          BY <3>1
        <5> HIDE DEF a, b, c
        <5> QED BY <1>1, <2>1, <5>1
      <4>2. graded = [tier |-> "A", why |-> "none"]
        BY <3>1, Zenon
      <4> HIDE DEF graded
      <4> QED BY <4>1, <4>2
    <3>2. CASE ~first /\ second
      <4>1. n >= c
        <5>1. n >= b
          BY <3>2
        <5> HIDE DEF a, b, c
        <5> QED BY <1>1, <2>1, <5>1
      <4>2. graded = [tier |-> "B", why |-> "none"]
        BY <3>2, Zenon
      <4> HIDE DEF graded
      <4> QED BY <4>1, <4>2
    <3>3. CASE ~first /\ ~second
      <4>1. graded = IF n >= c THEN [tier |-> "C", why |-> "INSUFFICIENT_EVIDENCE"]
                     ELSE [tier |-> "D", why |-> "INSUFFICIENT_EVIDENCE"]
        BY <3>3, Zenon
      <4> HIDE DEF graded, c
      <4> QED BY <4>1
    <3> QED BY <3>1, <3>2, <3>3
  <2> HIDE DEF graded, level
  <2>4. \/ level = graded
        \/ level = [tier |-> "D", why |-> "NO_COMPARABLE_TENDERS"]
        \/ level = [tier |-> "D", why |-> "STALE_DATA"]
        \/ level = [tier |-> "D", why |-> "LOW_SIMILARITY"]
    BY <2>2
  <2> QED BY <2>3, <2>4
<1> HIDE DEF level
<1>4. grade.n = n /\ grade.tier = level.tier /\ grade.why = level.why
  BY <1>2
<1>5. Market!AllowsMarket(grade.tier) <=> grade.tier # "D"
  BY DEF Market!AllowsMarket
<1>6. IF Market!AllowsMarket(grade.tier) THEN grade.n >= MarketMinimum.C ELSE grade.why # "none"
  BY <1>3, <1>4, <1>5
<1> QED BY <1>6 DEF grade

\* What BandIsSound says of an answer that speaks.
BandOf(r) ==
  LET s == r.sample IN
  /\ r.grade.n >= MarketMinimum.C
  /\ Market!Leq(s[1].value, r.p10) /\ Market!Leq(r.p10, r.p50)
  /\ Market!Leq(r.p50, r.p90) /\ Market!Leq(r.p90, s[Len(s)].value)
  /\ Market!Same(r.p90, Market!Times(Market!Q(-1), Market!Quantile(Market!Mirrored(s), <<1, 10>>)))
  /\ Market!Same(r.p50, Market!Times(Market!Q(-1), Market!Quantile(Market!Mirrored(s), <<1, 2>>)))
  /\ \A q \in {<<1, 10>>, <<1, 2>>, <<9, 10>>} :
       Market!Leq(Market!Quantile(s, q), Market!Quantile(Market!Raised(s), q))

\* The band of a sample in order is sound.
LEMMA BandSpoken ==
  ASSUME NEW s \in Sampled, Len(s) >= 1, Rising(s), NEW cutoff, NEW grade, NEW why,
         grade.n >= MarketMinimum.C
  PROVE  BandOf([cutoff |-> cutoff, grade |-> grade, why |-> why, sample |-> s,
                 p10 |-> Market!Quantile(s, <<1, 10>>), p50 |-> Market!Quantile(s, <<1, 2>>),
                 p90 |-> Market!Quantile(s, <<9, 10>>)])
<1> DEFINE low == <<1, 10>>
           mid == <<1, 2>>
           top == <<9, 10>>
           p10 == Market!Quantile(s, low)
           p50 == Market!Quantile(s, mid)
           p90 == Market!Quantile(s, top)
           r == [cutoff |-> cutoff, grade |-> grade, why |-> why, sample |-> s,
                 p10 |-> p10, p50 |-> p50, p90 |-> p90]
<1>1. /\ Leq(s[1].value, p10) /\ Leq(p10, p50) /\ Leq(p50, p90) /\ Leq(p90, s[Len(s)].value)
      /\ Same(p90, Times(Q(-1), Market!Quantile(Market!Mirrored(s), low)))
      /\ Same(p50, Times(Q(-1), Market!Quantile(Market!Mirrored(s), mid)))
      /\ \A q \in {low, mid, top} : Leq(Market!Quantile(s, q), Market!Quantile(Market!Raised(s), q))
  BY BandOfSample, Zenon
<1> HIDE DEF low, mid, top, p10, p50, p90
<1>2. r.sample = s /\ r.grade = grade /\ r.p10 = p10 /\ r.p50 = p50 /\ r.p90 = p90
  OBVIOUS
<1> HIDE DEF r
<1>3. \A a, b : Market!Same(a, b) <=> Same(a, b)
  BY MarketArithmetic DEF Market!Same, Same
<1>4. /\ r.grade.n >= MarketMinimum.C
      /\ Market!Leq(s[1].value, r.p10) /\ Market!Leq(r.p10, r.p50)
      /\ Market!Leq(r.p50, r.p90) /\ Market!Leq(r.p90, s[Len(s)].value)
      /\ Market!Same(r.p90, Market!Times(Market!Q(-1), Market!Quantile(Market!Mirrored(s), low)))
      /\ Market!Same(r.p50, Market!Times(Market!Q(-1), Market!Quantile(Market!Mirrored(s), mid)))
      /\ \A q \in {low, mid, top} :
           Market!Leq(Market!Quantile(s, q), Market!Quantile(Market!Raised(s), q))
  BY <1>1, <1>2, <1>3, MarketArithmetic, MarketFraction
<1>5. BandOf(r)
  BY <1>2, <1>4, Zenon DEF BandOf, low, mid, top
<1> QED BY <1>5, Zenon DEF r, p10, p50, p90, low, mid, top

\* At first nothing is asked or answered.
LEMMA MarketInit == ASSUME Market!Init PROVE Market!BandInv
<1>1. m8 = Market!Nothing /\ m9 = Market!Nothing /\ Market!Nothing.cutoff = 0
  BY DEF Market!Init, Market!Nothing
<1>2. Market!TypeOK
  <2>1. MarketClock \in Nat \ {0} /\ MarketVisits \in Nat
    BY MarketAssumption
  <2>2. m1 = 1 /\ m2 \in MarketSubjects /\ m3 \in Markets /\ m6 = {} /\ m7 = 0
    BY DEF Market!Init
  <2>3. m4 = [c \in MarketIds |-> Market!NoAward] /\ m5 = [c \in MarketIds |-> Market!NoAward]
    BY DEF Market!Init
  <2>4. Market!NoAward \in Market!AwardRows
    BY <2>1 DEF Market!NoAward, Market!AwardRows
  <2>5. m4 \in [MarketIds -> Market!AwardRows] /\ m5 \in [MarketIds -> Market!AwardRows]
    BY <2>3, <2>4
  <2>6. m1 \in 1..MarketClock /\ m6 \subseteq 1..MarketClock /\ m7 \in 0..MarketVisits
        /\ 0 \in 0..MarketClock
    BY <2>1, <2>2
  <2> QED BY <1>1, <2>2, <2>5, <2>6 DEF Market!TypeOK
<1>3. Market!BandIsSound
  BY <1>1, Zenon DEF Market!BandIsSound, Market!Speaks
<1> QED BY <1>1, <1>2, <1>3 DEF Market!BandInv

\* A band is spoken of a sample in order, on the grade that was asked with, and nothing is done
\* to it after.
LEMMA MarketStep ==
  ASSUME Market!BandInv, Market!Next \/ UNCHANGED Market!vars
  PROVE  Market!BandInv'
<1> DEFINE Cutoffs == 0..MarketClock
<1>1. /\ m1 \in 1..MarketClock /\ m2 \in MarketSubjects /\ m3 \in Markets
      /\ m4 \in [MarketIds -> Market!AwardRows] /\ m5 \in [MarketIds -> Market!AwardRows]
      /\ m6 \subseteq 1..MarketClock /\ m7 \in 0..MarketVisits
      /\ m8.cutoff \in Cutoffs /\ m9.cutoff \in Cutoffs
      /\ m8 # Market!Nothing => m8.grade.n >= MarketMinimum.C
      /\ Market!BandIsSound
  BY DEF Market!BandInv, Market!TypeOK
<1>2. MarketState
  BY <1>1 DEF MarketState
<1>3. MarketClock \in Nat \ {0} /\ MarketVisits \in Nat
  BY MarketAssumption
<1>4. Market!Nothing' = Market!Nothing /\ Market!AwardRows' = Market!AwardRows /\ Market!Nothing.cutoff = 0
      /\ Market!NoAward' = Market!NoAward
  BY DEF Market!Nothing, Market!AwardRows, Market!NoAward
<1>5. ASSUME m9' = m9 PROVE Market!BandIsSound'
  BY <1>1, <1>5, Zenon DEF Market!BandIsSound, Market!Speaks, Market!Nothing
<1>6. ASSUME m9'.why # "none" PROVE Market!BandIsSound'
  BY <1>6, Zenon DEF Market!BandIsSound, Market!Speaks
<1>7. ASSUME NEW r, BandOf(r), m9' = r PROVE Market!BandIsSound'
  BY <1>7, Zenon DEF Market!BandIsSound, BandOf
<1>8. ASSUME m1' \in 1..MarketClock, m2' = m2, m3' = m3,
             m4' \in [MarketIds -> Market!AwardRows], m5' \in [MarketIds -> Market!AwardRows],
             m6' \subseteq 1..MarketClock, m7' \in 0..MarketVisits,
             m8'.cutoff \in Cutoffs, m9'.cutoff \in Cutoffs,
             m8' # Market!Nothing => m8'.grade.n >= MarketMinimum.C,
             Market!BandIsSound'
      PROVE  Market!BandInv'
  <2>1. Market!TypeOK'
    BY <1>1, <1>4, <1>8 DEF Market!TypeOK
  <2> QED BY <1>4, <1>8, <2>1 DEF Market!BandInv
<1> HIDE DEF Cutoffs
<1>9. CASE Market!Tick
  <2>1. m2' = m2 /\ m3' = m3 /\ m4' = m4 /\ m5' = m5 /\ m6' = m6 /\ m7' = m7 /\ m8' = m8 /\ m9' = m9
    BY <1>9 DEF Market!Tick
  <2>2. m1' \in 1..MarketClock
    BY <1>1, <1>3, <1>9 DEF Market!Tick
  <2> QED BY <1>1, <1>5, <1>8, <2>1, <2>2
<1>10. ASSUME NEW c \in MarketIds, NEW v \in MarketValues, Market!Decide(c, v) PROVE Market!BandInv'
  <2>1. m1' = m1 /\ m2' = m2 /\ m3' = m3 /\ m5' = m5 /\ m6' = m6 /\ m7' = m7 /\ m8' = m8 /\ m9' = m9
    BY <1>10 DEF Market!Decide
  <2>2. m4' \in [MarketIds -> Market!AwardRows]
    <3>1. [value |-> v, at |-> m1] \in Market!AwardRows
      BY <1>1, <1>3 DEF Market!AwardRows
    <3> QED BY <1>1, <1>10, <3>1 DEF Market!Decide
  <2> QED BY <1>1, <1>5, <1>8, <2>1, <2>2
<1>11. ASSUME NEW c \in MarketIds, Market!Harvest(c) PROVE Market!BandInv'
  <2>1. m1' = m1 /\ m2' = m2 /\ m3' = m3 /\ m4' = m4 /\ m6' = m6 /\ m8' = m8 /\ m9' = m9
    BY <1>11 DEF Market!Harvest
  <2>2. m5' \in [MarketIds -> Market!AwardRows]
    <3>1. m4[c] \in Market!AwardRows
      BY <1>1
    <3>2. [value |-> m4[c].value, at |-> m1] \in Market!AwardRows
      BY <1>1, <1>3, <3>1 DEF Market!AwardRows
    <3> QED BY <1>1, <1>11, <3>2 DEF Market!Harvest
  <2>3. m7' \in 0..MarketVisits
    BY <1>1, <1>3, <1>11 DEF Market!Harvest
  <2> QED BY <1>1, <1>5, <1>8, <2>1, <2>2, <2>3
<1>12. CASE Market!FetchIndices
  <2>1. m1' = m1 /\ m2' = m2 /\ m3' = m3 /\ m4' = m4 /\ m5' = m5 /\ m7' = m7 /\ m8' = m8 /\ m9' = m9
    BY <1>12 DEF Market!FetchIndices
  <2>2. m6' \subseteq 1..MarketClock
    BY <1>1, <1>3, <1>12 DEF Market!FetchIndices
  <2> QED BY <1>1, <1>5, <1>8, <2>1, <2>2
<1>13. ASSUME NEW asOf \in 0..m1, Market!Assess(asOf) PROVE Market!BandInv'
  <2> DEFINE cutoff == Market!Cutoff(asOf)
             grade == Market!Grade(cutoff)
  <2>1. m1' = m1 /\ m2' = m2 /\ m3' = m3 /\ m4' = m4 /\ m5' = m5 /\ m6' = m6 /\ m7' = m7
    BY <1>13, Zenon DEF Market!Assess
  <2>2. cutoff \in Cutoffs
    BY <1>1, <1>2, CutoffIs DEF Cutoffs
  <2> HIDE DEF cutoff
  <2>3. IF Market!AllowsMarket(grade.tier) THEN grade.n >= MarketMinimum.C ELSE grade.why # "none"
    BY <1>2, GradeIs
  <2>4. CASE Market!AllowsMarket(grade.tier)
    <3>1. m8' = [cutoff |-> cutoff, grade |-> grade] /\ m9' = m9
      BY <1>13, <2>4, Zenon DEF Market!Assess, cutoff
    <3> HIDE DEF grade
    <3>2. m8'.cutoff = cutoff /\ m8'.grade = grade
      BY <3>1
    <3> QED BY <1>1, <1>5, <1>8, <2>1, <2>2, <2>3, <2>4, <3>1, <3>2
  <2>5. CASE ~Market!AllowsMarket(grade.tier)
    <3>1. m9' = [cutoff |-> cutoff, grade |-> grade, why |-> grade.why, sample |-> <<>>] /\ m8' = m8
      BY <1>13, <2>5, Zenon DEF Market!Assess, Market!Suppressed, cutoff
    <3> HIDE DEF grade
    <3>2. m9'.cutoff = cutoff /\ m9'.why = grade.why
      BY <3>1
    <3> QED BY <1>1, <1>6, <1>8, <2>1, <2>2, <2>3, <2>5, <3>1, <3>2
  <2> QED BY <2>4, <2>5
<1>14. CASE Market!MarketQuantiles
  <2> DEFINE cutoff == m8.cutoff
             grade == m8.grade
             s == Market!Sample(cutoff)
  <2>1. /\ m1' = m1 /\ m2' = m2 /\ m3' = m3 /\ m4' = m4 /\ m5' = m5 /\ m6' = m6 /\ m7' = m7
        /\ m8 # Market!Nothing /\ m8' = Market!Nothing
    BY <1>14, Zenon DEF Market!MarketQuantiles
  <2>2. s \in Sampled /\ Rising(s)
    BY <1>1, <1>2, SampleIs DEF Cutoffs
  <2>3. m8'.cutoff \in Cutoffs
    BY <1>3, <1>4, <2>1 DEF Cutoffs
  <2>4. CASE s = <<>>
    <3>1. m9' = [cutoff |-> cutoff, grade |-> grade, why |-> "NO_COMPARABLE_TENDERS", sample |-> <<>>]
      BY <1>14, <2>4, Zenon DEF Market!MarketQuantiles, Market!Suppressed
    <3>2. m9'.cutoff = cutoff /\ m9'.why # "none"
      BY <3>1
    <3> QED BY <1>1, <1>6, <1>8, <2>1, <2>3, <3>2
  <2>5. CASE s # <<>>
    <3> DEFINE r == [cutoff |-> cutoff, grade |-> grade, why |-> "none", sample |-> s,
                     p10 |-> Market!Quantile(s, <<1, 10>>), p50 |-> Market!Quantile(s, <<1, 2>>),
                     p90 |-> Market!Quantile(s, <<9, 10>>)]
    <3>1. m9' = r
      BY <1>14, <2>5, Zenon DEF Market!MarketQuantiles
    <3>2. Len(s) >= 1
      <4> HIDE DEF s
      <4> QED BY <2>2, <2>5, EmptySeq DEF Sampled
    <3>3. grade.n >= MarketMinimum.C
      BY <1>1, <2>1
    <3> HIDE DEF s, grade
    <3>4. BandOf(r)
      BY <2>2, <3>2, <3>3, BandSpoken
    <3>5. m9'.cutoff = cutoff
      BY <3>1
    <3> HIDE DEF r
    <3>6. Market!BandIsSound'
      BY <1>7, <3>1, <3>4
    <3> QED BY <1>1, <1>8, <2>1, <2>3, <3>5, <3>6
  <2> QED BY <2>4, <2>5
<1>15. CASE UNCHANGED Market!vars
  <2>1. /\ m1' = m1 /\ m2' = m2 /\ m3' = m3 /\ m4' = m4 /\ m5' = m5 /\ m6' = m6 /\ m7' = m7
        /\ m8' = m8 /\ m9' = m9
    BY <1>15 DEF Market!vars
  <2> QED BY <1>1, <1>5, <1>8, <2>1
<1> QED BY <1>9, <1>10, <1>11, <1>12, <1>13, <1>14, <1>15 DEF Market!Next

-----------------------------------------------------------------------------
(***************************************************************************)
(* BidOptimizer: m1 .. m6 are stage, scenarios, curve, proposed, asked and *)
(* result.                                                                 *)
(***************************************************************************)
\* The module computes as Evidence does.
LEMMA BidGcd == Bid!Gcd = Gcd
  BY DEF Bid!Gcd, Gcd

\* Its fractions are those of Evidence,
LEMMA BidFraction == \A n, d : Bid!Fraction(n, d) = Fraction(n, d) /\ Bid!Q(n) = Q(n)
  BY BidGcd DEF Bid!Fraction, Fraction, Bid!Magnitude, Magnitude, Bid!Q, Q

\* its sums, products and order,
LEMMA BidArithmetic ==
  \A a, b : /\ Bid!Plus(a, b) = Plus(a, b) /\ Bid!Times(a, b) = Times(a, b)
            /\ Bid!Leq(a, b) = Leq(a, b)
<1>1. \A a, b : Bid!Plus(a, b) = Plus(a, b)
  BY BidGcd, BidFraction DEF Bid!Plus, Plus
<1>2. \A a, b : Bid!Times(a, b) = Times(a, b)
  BY BidFraction DEF Bid!Times, Times
<1>3. \A a, b : Bid!Leq(a, b) = Leq(a, b)
  BY BidGcd DEF Bid!Leq, Leq
<1> QED BY <1>1, <1>2, <1>3

\* and what is defined by them.
LEMMA BidOperators ==
  \A a, b : /\ Bid!Over(a, b) = Over(a, b) /\ Bid!Minus(a, b) = Minus(a, b)
            /\ Bid!Less(a, b) = Less(a, b)
            /\ Bid!Lower(a, b) = Lower(a, b) /\ Bid!Higher(a, b) = Higher(a, b)
<1>1. \A a, b : Bid!Over(a, b) = Over(a, b)
  BY BidArithmetic, BidFraction DEF Bid!Over, Over
<1>2. \A a, b : Bid!Minus(a, b) = Minus(a, b)
  BY BidArithmetic DEF Bid!Minus, Minus
<1>3. \A a, b : Bid!Less(a, b) = Less(a, b)
  BY BidArithmetic DEF Bid!Less, Less
<1>4. \A a, b : Bid!Lower(a, b) = Lower(a, b) /\ Bid!Higher(a, b) = Higher(a, b)
  BY BidArithmetic DEF Bid!Lower, Lower, Bid!Higher, Higher
<1> QED BY <1>1, <1>2, <1>3, <1>4

\* What the instance calls a cardinality is one.
LEMMA BidCardinality == \A S : Bid!Cardinality(S) = Cardinality(S)
  BY DEF Bid!Cardinality, Cardinality

\* The image of a finite set is finite.
LEMMA ImageFinite ==
  ASSUME NEW S, IsFiniteSet(S), NEW f
  PROVE  IsFiniteSet({f[x] : x \in S})
<1> DEFINE T == {f[x] : x \in S}
           h == [x \in S |-> f[x]]
<1>1. h \in Surjection(S, T)
  BY DEF Surjection
<1> HIDE DEF h, T
<1>2. IsFiniteSet(T)
  BY <1>1, FS_Surjection
<1> QED BY <1>2 DEF T

\* A finite set that a total preorder orders has a first member.
LEMMA FirstExists ==
  ASSUME NEW S, IsFiniteSet(S), S # {}, NEW r,
         \A x, y \in S : <<x, y>> \in r \/ <<y, x>> \in r,
         \A x, y, z \in S : <<x, y>> \in r /\ <<y, z>> \in r => <<x, z>> \in r
  PROVE  \E x \in S : \A y \in S : <<x, y>> \in r
<1> DEFINE First(T) == \E x \in T : \A y \in T : <<x, y>> \in r
           bad == {n \in Nat : \E T \in SUBSET S : T # {} /\ Cardinality(T) = n /\ ~First(T)}
<1>1. ASSUME bad # {} PROVE FALSE
  <2>1. PICK n \in bad : \A k \in bad : n <= k
    <3>1. bad \subseteq Nat
      OBVIOUS
    <3> HIDE DEF bad
    <3> QED BY <1>1, <3>1, LeastExists
  <2>2. PICK T \in SUBSET S : T # {} /\ Cardinality(T) = n /\ ~First(T)
    OBVIOUS
  <2>3. PICK x \in T : TRUE
    BY <2>2
  <2> DEFINE R == T \ {x}
  <2>4. R \in SUBSET S /\ Cardinality(R) \in Nat /\ Cardinality(R) < n
    BY <2>2, SmallerWithout
  <2>5. CASE R = {}
    <3>1. \A y \in T : <<x, y>> \in r
      BY <2>5
    <3> QED BY <2>2, <3>1
  <2>6. CASE R # {}
    <3>1. Cardinality(R) \notin bad
      <4>1. n \in Nat
        OBVIOUS
      <4> HIDE DEF bad, R
      <4> QED BY <2>1, <2>4, <4>1
    <3>2. First(R)
      <4> HIDE DEF R, First
      <4> QED BY <2>4, <2>6, <3>1
    <3>3. PICK y \in R : \A z \in R : <<y, z>> \in r
      BY <3>2
    <3>4. CASE <<x, y>> \in r
      <4>1. \A z \in T : <<x, z>> \in r
        BY <3>3, <3>4
      <4> QED BY <2>2, <4>1
    <3>5. CASE <<y, x>> \in r
      <4>1. \A z \in T : <<y, z>> \in r
        BY <3>3, <3>5
      <4> QED BY <2>2, <3>3, <4>1
    <3> QED BY <3>3, <3>4, <3>5
  <2> QED BY <2>5, <2>6
<1>2. Cardinality(S) \in Nat
  BY FS_CardinalityType
<1>3. First(S)
  <2> HIDE DEF First
  <2> QED BY <1>1, <1>2
<1> QED BY <1>3

\* The least of finitely many fractions is one of them, and so is the greatest.
LEMMA LeastIs ==
  ASSUME NEW S, IsFiniteSet(S), S # {}, S \subseteq Frac
  PROVE  /\ Bid!Least(S) \in S /\ \A y \in S : Leq(Bid!Least(S), y)
         /\ Bid!Greatest(S) \in S /\ \A y \in S : Leq(y, Bid!Greatest(S))
<1>1. \E x \in S : \A y \in S : Leq(x, y)
  <2> DEFINE r == {p \in S \X S : Leq(p[1], p[2])}
  <2>1. \A x, y \in S : <<x, y>> \in r <=> Leq(x, y)
    OBVIOUS
  <2> HIDE DEF r
  <2>2. \A x, y \in S : <<x, y>> \in r \/ <<y, x>> \in r
    BY <2>1, LeqOrders
  <2>3. \A x, y, z \in S : <<x, y>> \in r /\ <<y, z>> \in r => <<x, z>> \in r
    BY <2>1, LeqTransitive
  <2>4. \E x \in S : \A y \in S : <<x, y>> \in r
    BY <2>2, <2>3, FirstExists
  <2> QED BY <2>1, <2>4
<1>2. \E x \in S : \A y \in S : Leq(y, x)
  <2> DEFINE r == {p \in S \X S : Leq(p[2], p[1])}
  <2>1. \A x, y \in S : <<x, y>> \in r <=> Leq(y, x)
    OBVIOUS
  <2> HIDE DEF r
  <2>2. \A x, y \in S : <<x, y>> \in r \/ <<y, x>> \in r
    BY <2>1, LeqOrders
  <2>3. \A x, y, z \in S : <<x, y>> \in r /\ <<y, z>> \in r => <<x, z>> \in r
    BY <2>1, LeqTransitive
  <2>4. \E x \in S : \A y \in S : <<x, y>> \in r
    BY <2>2, <2>3, FirstExists
  <2> QED BY <2>1, <2>4
<1>3. Bid!Least(S) \in S /\ \A y \in S : Bid!Leq(Bid!Least(S), y)
  BY <1>1, BidArithmetic, Zenon DEF Bid!Least
<1>4. Bid!Greatest(S) \in S /\ \A y \in S : Bid!Leq(y, Bid!Greatest(S))
  BY <1>2, BidArithmetic, Zenon DEF Bid!Greatest
<1> QED BY <1>3, <1>4, BidArithmetic

\* The least and the greatest price of the grid, or of a part of it.
LEMMA GridEnds ==
  ASSUME NEW S, S \subseteq BidGrid, S # {}
  PROVE  /\ Bid!Min(S) \in S /\ \A y \in S : Bid!Min(S) <= y
         /\ Bid!Max(S) \in S /\ \A y \in S : y <= Bid!Max(S)
<1>1. IsFiniteSet(S) /\ S \subseteq Int
  <2>1. IsFiniteSet(BidGrid) /\ BidGrid \subseteq Int
    BY BidAssumption
  <2>2. IsFiniteSet(S)
    BY <2>1, FS_Subset
  <2> QED BY <2>1, <2>2
<1> DEFINE down == {p \in S \X S : p[1] <= p[2]}
           up == {p \in S \X S : p[2] <= p[1]}
<1>2. \A x, y \in S : (<<x, y>> \in down <=> x <= y) /\ (<<x, y>> \in up <=> y <= x)
  OBVIOUS
<1> HIDE DEF down, up
<1>3. \E x \in S : \A y \in S : x <= y
  <2>1. \A x, y \in S : <<x, y>> \in down \/ <<y, x>> \in down
    <3>1. \A x, y \in S : x <= y \/ y <= x
      BY <1>1
    <3> QED BY <1>2, <3>1
  <2>2. \A x, y, z \in S : <<x, y>> \in down /\ <<y, z>> \in down => <<x, z>> \in down
    BY <1>1, <1>2
  <2>3. \E x \in S : \A y \in S : <<x, y>> \in down
    BY <1>1, <2>1, <2>2, FirstExists
  <2> QED BY <1>2, <2>3
<1>4. \E x \in S : \A y \in S : x >= y
  <2>1. \A x, y \in S : <<x, y>> \in up \/ <<y, x>> \in up
    <3>1. \A x, y \in S : x <= y \/ y <= x
      BY <1>1
    <3> QED BY <1>2, <3>1
  <2>2. \A x, y, z \in S : <<x, y>> \in up /\ <<y, z>> \in up => <<x, z>> \in up
    BY <1>1, <1>2
  <2>3. \E x \in S : \A y \in S : <<x, y>> \in up
    BY <1>1, <2>1, <2>2, FirstExists
  <2> QED BY <1>1, <1>2, <2>3
<1>5. Bid!Min(S) \in S /\ \A y \in S : Bid!Min(S) <= y
  BY <1>3 DEF Bid!Min
<1>6. Bid!Max(S) \in S /\ \A y \in S : Bid!Max(S) >= y
  BY <1>4 DEF Bid!Max
<1> QED BY <1>1, <1>5, <1>6

\* Those of the whole grid are positive.
LEMMA GridBounds ==
  /\ Bid!Min(BidGrid) \in BidGrid /\ Bid!Min(BidGrid) \in Nat \ {0}
  /\ Bid!Max(BidGrid) \in BidGrid /\ Bid!Max(BidGrid) \in Nat \ {0}
<1> DEFINE x == Bid!Min(BidGrid)
           y == Bid!Max(BidGrid)
<1>1. BidGrid # {} /\ BidGrid \subseteq Nat \ {0}
  BY BidAssumption
<1>2. BidGrid \subseteq BidGrid
  OBVIOUS
<1>3. x \in BidGrid /\ y \in BidGrid
  BY <1>1, <1>2, GridEnds
<1> HIDE DEF x, y
<1>4. x \in Nat \ {0} /\ y \in Nat \ {0}
  BY <1>1, <1>3
<1> QED BY <1>3, <1>4 DEF x, y

-----------------------------------------------------------------------------
(***************************************************************************)
(* The curve, a line between neighbours of the grid.                       *)
(***************************************************************************)
Pieces == [lo : Frac, hi : Frac, x0 : Nat, p0 : Nat, slope : Frac]
Curves == [BidGrid -> Nat]
On(g, b) == Along(g.p0, g.slope, g.x0, b)
Within(g, b) == Leq(g.lo, b) /\ Leq(b, g.hi)

\* What the optimizer computes on a piece is what stands on its line.
LEMMA WinAtIs == \A g, b : Bid!WinAt(g, b) = On(g, b)
  BY BidArithmetic, BidOperators, BidFraction DEF Bid!WinAt, On, Along

\* A point of a piece is a fraction.
LEMMA OnIs ==
  ASSUME NEW g \in Pieces, NEW b \in Frac
  PROVE  On(g, b) \in Frac
<1>1. g.p0 \in Int /\ g.x0 \in Int /\ g.slope \in Frac
  BY DEF Pieces
<1> QED BY <1>1, GainIsFraction DEF On

\* A segment runs from a price of the grid to the next, and its line through both; a grid of
\* one price has one segment.
Spans(pairs, g, x, y) ==
  /\ g.lo = Q(x) /\ g.hi = Q(y) /\ g.x0 = x /\ g.p0 = pairs[x]
  /\ x <= y /\ Same(On(g, Q(x)), Q(pairs[x])) /\ Same(On(g, Q(y)), Q(pairs[y]))
  /\ (\A z \in BidGrid : pairs[z] <= pairs[x] \/ z < x) => g.slope[1] <= 0

\* The next price of the grid.
LEMMA NextPriceIs ==
  ASSUME NEW x \in BidGrid, x # Bid!Max(BidGrid)
  PROVE  /\ Bid!NextPrice(x) \in BidGrid /\ x < Bid!NextPrice(x)
         /\ \A z \in BidGrid : z <= x \/ Bid!NextPrice(x) <= z
<1> DEFINE S == {y \in BidGrid : y > x}
<1>1. BidGrid \subseteq Int /\ BidGrid # {}
  BY BidAssumption
<1>2. Bid!Max(BidGrid) \in BidGrid /\ x <= Bid!Max(BidGrid)
  BY <1>1, GridEnds
<1>3. S # {} /\ S \subseteq BidGrid
  <2> DEFINE m == Bid!Max(BidGrid)
  <2>0. x # m /\ m \in BidGrid /\ x <= m
    BY <1>2
  <2> HIDE DEF m
  <2>1. x \in Int /\ m \in BidGrid /\ m \in Int /\ x < m
    BY <1>1, <2>0
  <2> QED BY <1>2, <2>1
<1>4. Bid!NextPrice(x) = Bid!Min(S)
  BY DEF Bid!NextPrice
<1>5. Bid!Min(S) \in S /\ \A y \in S : Bid!Min(S) <= y
  <2> HIDE DEF S
  <2> QED BY <1>3, GridEnds
<1> QED BY <1>1, <1>4, <1>5

\* The segments of a curve.
LEMMA SegmentIs ==
  ASSUME NEW pairs \in Curves, NEW g \in Bid!Segments(pairs)
  PROVE  /\ g \in Pieces
         /\ \E x, y \in BidGrid :
              /\ Spans(pairs, g, x, y)
              /\ Bid!Cardinality(BidGrid) = 1 => x = y
              /\ Bid!Cardinality(BidGrid) # 1 => x # Bid!Max(BidGrid) /\ y = Bid!NextPrice(x)
<1>1. BidGrid \subseteq Nat
  BY BidAssumption
<1>2. CASE Bid!Cardinality(BidGrid) = 1
  <2>1. PICK x \in BidGrid :
          g = [lo |-> Bid!Q(x), hi |-> Bid!Q(x), x0 |-> x, p0 |-> pairs[x], slope |-> Bid!Q(0)]
    BY <1>2, Zenon DEF Bid!Segments
  <2>2. /\ g = [lo |-> Q(x), hi |-> Q(x), x0 |-> x, p0 |-> pairs[x], slope |-> Q(0)]
        /\ x \in Nat /\ pairs[x] \in Nat
    BY <1>1, <2>1, BidFraction DEF Curves
  <2>3. Q(x) \in Frac /\ Q(0) \in Frac /\ Q(0)[1] = 0
    BY <2>2, SmallFractions DEF Q
  <2>4. g \in Pieces
    BY <2>2, <2>3 DEF Pieces
  <2>5. g.lo = Q(x) /\ g.hi = Q(x) /\ g.x0 = x /\ g.p0 = pairs[x] /\ g.slope = Q(0)
    BY <2>2
  <2>6. Same(On(g, Q(x)), Q(pairs[x]))
    BY <2>2, <2>3, <2>5, AlongStart DEF On
  <2>7. x <= x /\ g.slope[1] <= 0
    BY <2>2, <2>3, <2>5
  <2>8. Spans(pairs, g, x, x)
    BY <2>5, <2>6, <2>7 DEF Spans
  <2> QED BY <1>2, <2>4, <2>8
<1>3. CASE Bid!Cardinality(BidGrid) # 1
  <2>1. PICK x \in BidGrid \ {Bid!Max(BidGrid)} :
          g = [lo |-> Bid!Q(x), hi |-> Bid!Q(Bid!NextPrice(x)), x0 |-> x, p0 |-> pairs[x],
               slope |-> <<pairs[Bid!NextPrice(x)] - pairs[x], Bid!NextPrice(x) - x>>]
    BY <1>3, Zenon DEF Bid!Segments
  <2> DEFINE y == Bid!NextPrice(x)
             s == <<pairs[y] - pairs[x], y - x>>
  <2>2. y \in BidGrid /\ x < y /\ \A z \in BidGrid : z <= x \/ y <= z
    BY NextPriceIs
  <2>3. x \in Nat /\ y \in Nat /\ pairs[x] \in Nat /\ pairs[y] \in Nat
    BY <1>1, <2>2 DEF Curves
  <2>4. s \in Frac /\ Same(Along(pairs[x], s, x, Q(y)), Q(pairs[y]))
    <3> HIDE DEF y
    <3> QED BY <2>2, <2>3, AlongEnd
  <2>5. s[1] = pairs[y] - pairs[x]
    OBVIOUS
  <2>6. g = [lo |-> Q(x), hi |-> Q(y), x0 |-> x, p0 |-> pairs[x], slope |-> s]
    BY <2>1, BidFraction
  <2> HIDE DEF s, y
  <2>7. Q(x) \in Frac /\ Q(y) \in Frac
    BY <2>3, SmallFractions
  <2>8. g.lo = Q(x) /\ g.hi = Q(y) /\ g.x0 = x /\ g.p0 = pairs[x] /\ g.slope = s
    BY <2>6
  <2>9. g \in Pieces
    BY <2>3, <2>4, <2>6, <2>7 DEF Pieces
  <2>10. Same(On(g, Q(x)), Q(pairs[x])) /\ Same(On(g, Q(y)), Q(pairs[y]))
    BY <2>3, <2>4, <2>8, AlongStart DEF On
  <2>11. (\A z \in BidGrid : pairs[z] <= pairs[x] \/ z < x) => g.slope[1] <= 0
    BY <2>2, <2>3, <2>5, <2>8
  <2>12. Spans(pairs, g, x, y)
    BY <2>2, <2>3, <2>8, <2>10, <2>11 DEF Spans
  <2>13. x # Bid!Max(BidGrid) /\ y = Bid!NextPrice(x) /\ x \in BidGrid
    BY DEF y
  <2> QED BY <1>3, <2>2, <2>9, <2>12, <2>13
<1> QED BY <1>2, <1>3

\* Whole numbers are ordered as numbers are.
LEMMA WholeOrder == \A n, m \in Int : (Leq(Q(n), Q(m)) <=> n <= m) /\ Q(n) \in Frac
<1> SUFFICES ASSUME NEW n \in Int, NEW m \in Int
             PROVE  (Leq(Q(n), Q(m)) <=> n <= m) /\ Q(n) \in Frac
  OBVIOUS
<1>1. Stands(Q(n), n, 1) /\ Stands(Q(m), m, 1) /\ Q(n) \in Frac
  BY SmallFractions
<1> QED BY <1>1, LeqSameStands

\* Every price between the ends of the grid is on a segment.
LEMMA SegmentsCover ==
  ASSUME NEW pairs \in Curves, NEW b \in Frac,
         Leq(Q(Bid!Min(BidGrid)), b), Leq(b, Q(Bid!Max(BidGrid)))
  PROVE  \E g \in Bid!Segments(pairs) : Within(g, b)
<1>1. BidGrid \subseteq Nat /\ BidGrid # {} /\ IsFiniteSet(BidGrid)
  BY BidAssumption
<1> DEFINE lo == Bid!Min(BidGrid)
           hi == Bid!Max(BidGrid)
<1>2. lo \in BidGrid /\ hi \in BidGrid /\ \A y \in BidGrid : lo <= y /\ y <= hi
  BY <1>1, GridEnds
<1> HIDE DEF lo, hi
<1>3. CASE Bid!Cardinality(BidGrid) = 1
  <2> DEFINE g == [lo |-> Q(lo), hi |-> Q(lo), x0 |-> lo, p0 |-> pairs[lo], slope |-> Q(0)]
  <2>1. lo = hi
    <3>1. PICK x : BidGrid = {x}
      BY <1>1, <1>3, BidCardinality, FS_Singleton
    <3> QED BY <1>2, <3>1
  <2>2. g \in Bid!Segments(pairs)
    <3>1. g = [lo |-> Bid!Q(lo), hi |-> Bid!Q(lo), x0 |-> lo, p0 |-> pairs[lo], slope |-> Bid!Q(0)]
      BY BidFraction
    <3> HIDE DEF g
    <3> QED BY <1>2, <1>3, <3>1 DEF Bid!Segments
  <2>3. Within(g, b)
    BY <2>1 DEF Within, lo, hi
  <2> QED BY <2>2, <2>3
<1>4. CASE Bid!Cardinality(BidGrid) # 1
  <2> DEFINE S == {x \in BidGrid \ {hi} : Leq(Q(x), b)}
  <2>1. lo # hi
    <3>1. ASSUME lo = hi PROVE BidGrid = {lo}
      <4>1. \A y \in BidGrid : y \in Int /\ lo \in Int /\ lo <= y /\ y <= lo
        BY <1>1, <1>2, <3>1
      <4>2. \A y \in BidGrid : y = lo
        BY <4>1
      <4> QED BY <1>2, <4>2
    <3>2. \A x : Cardinality({x}) = 1
      BY FS_Singleton
    <3> QED BY <1>4, <3>1, <3>2, BidCardinality
  <2>2. S # {} /\ S \subseteq BidGrid
    BY <1>2, <2>1 DEF lo
  <2> DEFINE x == Bid!Max(S)
             y == Bid!NextPrice(x)
  <2>3. x \in S /\ \A z \in S : z <= x
    <3> HIDE DEF S
    <3> QED BY <2>2, GridEnds
  <2>4. x \in BidGrid /\ x # hi /\ Leq(Q(x), b)
    BY <2>3
  <2>5. y \in BidGrid /\ x < y
    <3> HIDE DEF x
    <3> QED BY <2>4, NextPriceIs DEF hi
  <2>6. Leq(b, Q(y))
    <3>1. CASE y = hi
      BY <3>1 DEF hi
    <3>2. CASE y # hi
      <4>1. y \notin S
        <5> HIDE DEF S, x, y
        <5>1. x \in Int /\ y \in Int /\ ~(y <= x)
          BY <1>1, <2>4, <2>5
        <5> QED BY <2>3, <5>1
      <4>2. ~Leq(Q(y), b)
        <5> HIDE DEF y
        <5> QED BY <2>5, <3>2, <4>1
      <4>3. Q(y) \in Frac
        <5> HIDE DEF y
        <5> QED BY <1>1, <2>5, WholeOrder
      <4> QED BY <4>2, <4>3, LeqOrders
    <3> QED BY <3>1, <3>2
  <2> HIDE DEF x
  <2> DEFINE g == [lo |-> Q(x), hi |-> Q(y), x0 |-> x, p0 |-> pairs[x],
                   slope |-> <<pairs[y] - pairs[x], y - x>>]
  <2>7. g \in Bid!Segments(pairs)
    <3>1. g = [lo |-> Bid!Q(x), hi |-> Bid!Q(y), x0 |-> x, p0 |-> pairs[x],
               slope |-> <<pairs[y] - pairs[x], y - x>>]
      BY BidFraction
    <3>2. x \in BidGrid \ {Bid!Max(BidGrid)}
      BY <2>4 DEF hi
    <3> HIDE DEF g
    <3> QED BY <1>4, <3>1, <3>2 DEF Bid!Segments
  <2>8. Within(g, b)
    BY <2>4, <2>6 DEF Within
  <2> QED BY <2>7, <2>8
<1> QED BY <1>3, <1>4

\* A segment is known by where it starts.
LEMMA SegmentStarts ==
  ASSUME NEW pairs, NEW g \in Bid!Segments(pairs), NEW h \in Bid!Segments(pairs), g.x0 = h.x0
  PROVE  g = h
<1>1. CASE Bid!Cardinality(BidGrid) = 1
  <2> DEFINE R(x) == [lo |-> Bid!Q(x), hi |-> Bid!Q(x), x0 |-> x, p0 |-> pairs[x], slope |-> Bid!Q(0)]
  <2>1. PICK x \in BidGrid : g = R(x)
    BY <1>1, Zenon DEF Bid!Segments
  <2>2. PICK u \in BidGrid : h = R(u)
    BY <1>1, Zenon DEF Bid!Segments
  <2>3. R(x).x0 = x /\ R(u).x0 = u
    OBVIOUS
  <2> HIDE DEF R
  <2> QED BY <2>1, <2>2, <2>3
<1>2. CASE Bid!Cardinality(BidGrid) # 1
  <2> DEFINE R(x) == [lo |-> Bid!Q(x), hi |-> Bid!Q(Bid!NextPrice(x)), x0 |-> x, p0 |-> pairs[x],
                      slope |-> <<pairs[Bid!NextPrice(x)] - pairs[x], Bid!NextPrice(x) - x>>]
  <2>1. PICK x \in BidGrid \ {Bid!Max(BidGrid)} : g = R(x)
    BY <1>2, Zenon DEF Bid!Segments
  <2>2. PICK u \in BidGrid \ {Bid!Max(BidGrid)} : h = R(u)
    BY <1>2, Zenon DEF Bid!Segments
  <2>3. R(x).x0 = x /\ R(u).x0 = u
    OBVIOUS
  <2> HIDE DEF R
  <2> QED BY <2>1, <2>2, <2>3
<1> QED BY <1>1, <1>2

\* Same is symmetric.
LEMMA SameSymmetric == \A a, b : Same(a, b) => Same(b, a)
  BY DEF Same

\* Where two segments meet, they agree.
LEMMA SegmentsMeet ==
  ASSUME NEW pairs \in Curves, NEW b \in Frac,
         NEW g \in Bid!Segments(pairs), NEW h \in Bid!Segments(pairs),
         Within(g, b), Within(h, b), g.x0 < h.x0
  PROVE  Same(On(g, b), On(h, b))
<1>1. BidGrid \subseteq Nat
  BY BidAssumption
<1>2. /\ g \in Pieces
      /\ \E x, y \in BidGrid :
           /\ Spans(pairs, g, x, y)
           /\ Bid!Cardinality(BidGrid) = 1 => x = y
           /\ Bid!Cardinality(BidGrid) # 1 => x # Bid!Max(BidGrid) /\ y = Bid!NextPrice(x)
  BY SegmentIs
<1>3. PICK x, y \in BidGrid :
        /\ Spans(pairs, g, x, y)
        /\ Bid!Cardinality(BidGrid) # 1 => x # Bid!Max(BidGrid) /\ y = Bid!NextPrice(x)
  BY <1>2
<1>4. /\ h \in Pieces
      /\ \E u, v \in BidGrid : Spans(pairs, h, u, v)
  BY SegmentIs
<1>5. PICK u, v \in BidGrid : Spans(pairs, h, u, v)
  BY <1>4
<1>6. x < u /\ x \in Nat /\ y \in Nat /\ u \in Nat
  BY <1>1, <1>3, <1>5 DEF Spans
<1>7. Bid!Cardinality(BidGrid) # 1
  <2> SUFFICES ASSUME Bid!Cardinality(BidGrid) = 1 PROVE FALSE
    OBVIOUS
  <2>1. PICK z : BidGrid = {z}
    BY BidAssumption, BidCardinality, FS_Singleton
  <2> QED BY <1>6, <2>1
<1>8. y <= u
  BY <1>3, <1>6, <1>7, NextPriceIs
<1>9. Leq(b, Q(y)) /\ Leq(Q(u), b)
  BY <1>3, <1>5 DEF Spans, Within
<1>10. Q(y) \in Frac /\ Q(u) \in Frac /\ (Leq(Q(u), Q(y)) <=> u <= y)
  BY <1>6, WholeOrder
<1>11. u = y
  BY <1>6, <1>8, <1>9, <1>10, LeqTransitive
<1>12. Same(b, Q(y)) /\ Same(Q(u), b)
  BY <1>9, <1>11 DEF Same
<1>13. Same(On(g, b), On(g, Q(y)))
  <2>1. g.p0 \in Int /\ g.x0 \in Int /\ g.slope \in Frac
    BY <1>2 DEF Pieces
  <2> QED BY <1>10, <1>12, <2>1, AlongSame DEF On
<1>14. Same(On(h, Q(u)), On(h, b))
  <2>1. h.p0 \in Int /\ h.x0 \in Int /\ h.slope \in Frac
    BY <1>4 DEF Pieces
  <2> QED BY <1>10, <1>12, <2>1, AlongSame DEF On
<1>15. Same(On(g, Q(y)), Q(pairs[y])) /\ Same(On(h, Q(u)), Q(pairs[u]))
  BY <1>3, <1>5 DEF Spans
<1>16. /\ On(g, b) \in Frac /\ On(h, b) \in Frac /\ On(g, Q(y)) \in Frac /\ On(h, Q(u)) \in Frac
       /\ Q(pairs[y]) \in Frac
  <2>1. pairs[y] \in Int
    BY DEF Curves
  <2> QED BY <1>2, <1>4, <1>10, <2>1, OnIs, WholeOrder
<1>17. Same(On(g, b), Q(pairs[y]))
  BY <1>13, <1>15, <1>16, SameTransitive
<1>18. Same(Q(pairs[y]), On(h, Q(u)))
  BY <1>11, <1>15, SameSymmetric
<1>19. Same(Q(pairs[y]), On(h, b))
  BY <1>14, <1>16, <1>18, SameTransitive
<1> QED BY <1>16, <1>17, <1>19, SameTransitive

\* So the win probability at a price is that of any segment it is on.
LEMMA ProbabilityIs ==
  ASSUME NEW pairs \in Curves, NEW b \in Frac, NEW g \in Bid!Segments(pairs), Within(g, b)
  PROVE  /\ Bid!WinProbabilityAt(pairs, b) \in Frac
         /\ Same(Bid!WinProbabilityAt(pairs, b), On(g, b))
<1> DEFINE h == CHOOSE h \in Bid!Segments(pairs) : Bid!Leq(h.lo, b) /\ Bid!Leq(b, h.hi)
<1>1. Bid!Leq(g.lo, b) /\ Bid!Leq(b, g.hi)
  BY BidArithmetic DEF Within
<1>2. h \in Bid!Segments(pairs) /\ Bid!Leq(h.lo, b) /\ Bid!Leq(b, h.hi)
  BY <1>1, Zenon
<1>3. Bid!WinProbabilityAt(pairs, b) = Bid!WinAt(h, b)
  BY Zenon DEF Bid!WinProbabilityAt
<1> HIDE DEF h
<1>4. Within(h, b)
  BY <1>2, BidArithmetic DEF Within
<1>5. g \in Pieces /\ h \in Pieces
  BY <1>2, SegmentIs
<1>6. On(g, b) \in Frac /\ On(h, b) \in Frac
  BY <1>5, OnIs
<1>7. Same(On(h, b), On(g, b))
  <2>1. g.x0 \in Nat /\ h.x0 \in Nat
    BY <1>5 DEF Pieces
  <2>2. CASE g.x0 < h.x0
    BY <1>2, <1>4, <2>2, SegmentsMeet, SameSymmetric
  <2>3. CASE h.x0 < g.x0
    BY <1>2, <1>4, <2>3, SegmentsMeet
  <2>4. CASE g.x0 = h.x0
    <3>1. g = h
      BY <1>2, <2>4, SegmentStarts
    <3> QED BY <1>6, <3>1, LeqOrders DEF Same
  <2> QED BY <2>1, <2>2, <2>3, <2>4
<1> QED BY <1>3, <1>6, <1>7, WinAtIs

\* No probability is negative.
LEMMA OnNotNegative ==
  ASSUME NEW pairs \in Curves, NEW b \in Frac, NEW g \in Bid!Segments(pairs), Within(g, b)
  PROVE  Leq(Q(0), On(g, b))
<1>1. g \in Pieces /\ \E x, y \in BidGrid : Spans(pairs, g, x, y)
  BY SegmentIs
<1>2. PICK x, y \in BidGrid : Spans(pairs, g, x, y)
  BY <1>1
<1>3. g.p0 \in Int /\ g.x0 \in Int /\ g.slope \in Frac
  BY <1>1 DEF Pieces
<1>4. x \in Int /\ y \in Int /\ pairs[x] \in Nat /\ pairs[y] \in Nat
  BY BidAssumption DEF Curves
<1>5. /\ Q(x) \in Frac /\ Q(y) \in Frac /\ Q(0) \in Frac
      /\ Q(pairs[x]) \in Frac /\ Q(pairs[y]) \in Frac
      /\ Leq(Q(0), Q(pairs[x])) /\ Leq(Q(0), Q(pairs[y]))
  BY <1>4, WholeOrder
<1>6. On(g, Q(x)) \in Frac /\ On(g, Q(y)) \in Frac
  BY <1>1, <1>5, OnIs
<1>7. Leq(Q(0), On(g, Q(x))) /\ Leq(Q(0), On(g, Q(y)))
  BY <1>2, <1>5, <1>6, LeqTransitive DEF Spans, Same
<1>8. Leq(Q(x), b) /\ Leq(b, Q(y))
  BY <1>2 DEF Spans, Within
<1> QED BY <1>3, <1>5, <1>7, <1>8, AlongBetween DEF On

-----------------------------------------------------------------------------
(***************************************************************************)
(* What is left of the curve under the constraints: parts of segments.     *)
(***************************************************************************)
SameLine(g, h) == g.x0 = h.x0 /\ g.p0 = h.p0 /\ g.slope = h.slope

\* On one line are the same points.
LEMMA SameLineSame == \A g, h, b : SameLine(g, h) => On(g, b) = On(h, b)
  BY DEF SameLine, On

\* The higher and the lower of two fractions.
LEMMA HigherLower ==
  ASSUME NEW a \in Frac, NEW b \in Frac
  PROVE  /\ Higher(a, b) \in Frac /\ Leq(a, Higher(a, b)) /\ Leq(b, Higher(a, b))
         /\ Lower(a, b) \in Frac /\ Leq(Lower(a, b), a) /\ Leq(Lower(a, b), b)
         /\ \A c \in Frac : Leq(a, c) /\ Leq(b, c) => Leq(Higher(a, b), c)
         /\ \A c \in Frac : Leq(c, a) /\ Leq(c, b) => Leq(c, Lower(a, b))
<1>1. Leq(a, b) \/ Leq(b, a)
  BY LeqOrders
<1>2. Leq(a, a) /\ Leq(b, b)
  BY LeqOrders
<1> QED BY <1>1, <1>2 DEF Higher, Lower

\* A piece clipped to an interval.
LEMMA ClippedIs ==
  ASSUME NEW g \in Pieces, NEW lo \in Frac, NEW hi \in Frac
  PROVE  /\ Bid!Clipped(g, lo, hi) \in Pieces /\ SameLine(Bid!Clipped(g, lo, hi), g)
         /\ Leq(g.lo, Bid!Clipped(g, lo, hi).lo) /\ Leq(lo, Bid!Clipped(g, lo, hi).lo)
         /\ Leq(Bid!Clipped(g, lo, hi).hi, g.hi) /\ Leq(Bid!Clipped(g, lo, hi).hi, hi)
         /\ \A b \in Frac : Within(g, b) /\ Leq(lo, b) /\ Leq(b, hi) => Within(Bid!Clipped(g, lo, hi), b)
<1> DEFINE l == Higher(g.lo, lo)
           u == Lower(g.hi, hi)
           h == [g EXCEPT !.lo = l, !.hi = u]
<1>1. Bid!Clipped(g, lo, hi) = h
  BY BidOperators DEF Bid!Clipped
<1>2. g.lo \in Frac /\ g.hi \in Frac
  BY DEF Pieces
<1>3. /\ l \in Frac /\ Leq(g.lo, l) /\ Leq(lo, l)
      /\ u \in Frac /\ Leq(u, g.hi) /\ Leq(u, hi)
      /\ \A c \in Frac : Leq(g.lo, c) /\ Leq(lo, c) => Leq(l, c)
      /\ \A c \in Frac : Leq(c, g.hi) /\ Leq(c, hi) => Leq(c, u)
  BY <1>2, HigherLower
<1> HIDE DEF l, u
<1>4. h \in Pieces /\ h.lo = l /\ h.hi = u /\ h.x0 = g.x0 /\ h.p0 = g.p0 /\ h.slope = g.slope
  BY <1>3 DEF Pieces
<1> HIDE DEF h
<1> QED BY <1>1, <1>3, <1>4 DEF SameLine, Within

\* The part of a piece at or above a target.
LEMMA AtTargetIs ==
  ASSUME NEW g \in Pieces, NEW t \in Frac
  PROVE  /\ IsFiniteSet(Bid!AtTarget(g, t))
         /\ \A h \in Bid!AtTarget(g, t) :
              /\ h \in Pieces /\ SameLine(h, g)
              /\ Leq(g.lo, h.lo) /\ Leq(h.lo, h.hi) /\ Leq(h.hi, g.hi)
              /\ Leq(t, On(h, h.lo)) /\ Leq(t, On(h, h.hi))
         /\ \A b \in Frac : Within(g, b) /\ Leq(t, On(g, b)) =>
              \E h \in Bid!AtTarget(g, t) : Within(h, b)
<1> DEFINE lo == g.lo
           hi == g.hi
           p == g.p0
           s == g.slope
           x == g.x0
           from == Leq(t, On(g, lo))
           to == Leq(t, On(g, hi))
           c == Plus(Q(x), Over(Minus(t, Q(p)), s))
           A == Bid!AtTarget(g, t)
<1>1. lo \in Frac /\ hi \in Frac /\ p \in Int /\ s \in Frac /\ x \in Int /\ s[1] \in Int
  BY FracParts DEF Pieces
<1>2. On(g, lo) \in Frac /\ On(g, hi) \in Frac
  BY <1>1, OnIs
<1>3. /\ Bid!Less(hi, lo) <=> ~Leq(lo, hi)
      /\ Bid!Leq(t, Bid!WinAt(g, lo)) <=> from
      /\ Bid!Leq(t, Bid!WinAt(g, hi)) <=> to
      /\ Bid!Plus(Bid!Q(x), Bid!Over(Bid!Minus(t, Bid!Q(p)), s)) = c
  <2>1. Bid!Less(hi, lo) <=> ~Leq(lo, hi)
    BY BidOperators DEF Less
  <2>2. Bid!WinAt(g, lo) = On(g, lo) /\ Bid!WinAt(g, hi) = On(g, hi)
    BY WinAtIs
  <2>3. /\ Bid!Leq(t, Bid!WinAt(g, lo)) <=> from
        /\ Bid!Leq(t, Bid!WinAt(g, hi)) <=> to
    BY <2>2, BidArithmetic
  <2>4. Bid!Plus(Bid!Q(x), Bid!Over(Bid!Minus(t, Bid!Q(p)), s)) = c
    BY BidArithmetic, BidOperators, BidFraction
  <2> QED BY <2>1, <2>3, <2>4
<1>4. \A b \in Frac : On(g, b) = Along(p, s, x, b)
  BY DEF On
<1>5. CASE ~Leq(lo, hi)
  <2>1. A = {}
    BY <1>3, <1>5, Zenon DEF Bid!AtTarget
  <2>2. ~\E b \in Frac : Within(g, b)
    BY <1>1, <1>5, LeqTransitive DEF Within
  <2> QED BY <2>1, <2>2, FS_EmptySet
<1>6. CASE Leq(lo, hi) /\ from /\ to
  <2>1. A = {g}
    BY <1>3, <1>6, Zenon DEF Bid!AtTarget
  <2>2. Leq(lo, lo) /\ Leq(hi, hi)
    BY <1>1, LeqOrders
  <2>3. IsFiniteSet({g})
    BY FS_Singleton
  <2> QED BY <1>6, <2>1, <2>2, <2>3 DEF SameLine
<1>7. CASE Leq(lo, hi) /\ ~from /\ ~to
  <2>1. A = {}
    BY <1>3, <1>7, Zenon DEF Bid!AtTarget
  <2>2. \A b \in Frac : Within(g, b) => ~Leq(t, On(g, b))
    <3> SUFFICES ASSUME NEW b \in Frac, Within(g, b), Leq(t, On(g, b)) PROVE FALSE
      OBVIOUS
    <3>1. Leq(lo, b) /\ Leq(b, hi)
      BY DEF Within
    <3>2. On(g, b) \in Frac
      BY OnIs
    <3>3. Leq(On(g, b), On(g, lo)) \/ Leq(On(g, b), On(g, hi))
      <4>1. CASE s[1] < 0
        BY <1>1, <1>4, <3>1, <4>1, AlongOrders
      <4>2. CASE s[1] > 0
        BY <1>1, <1>4, <3>1, <4>2, AlongOrders
      <4>3. CASE s[1] = 0
        BY <1>1, <1>4, <3>1, <4>3, AlongOrders
      <4> QED BY <1>1, <4>1, <4>2, <4>3
    <3> QED BY <1>2, <1>7, <3>2, <3>3, LeqTransitive
  <2> QED BY <2>1, <2>2, FS_EmptySet
<1>8. CASE Leq(lo, hi) /\ from /\ ~to
  <2> DEFINE h == [g EXCEPT !.hi = c]
  <2>1. A = {h}
    <3>1. A = {[g EXCEPT !.hi = Bid!Plus(Bid!Q(x), Bid!Over(Bid!Minus(t, Bid!Q(p)), s))]}
      BY <1>3, <1>8, Zenon DEF Bid!AtTarget
    <3> QED BY <1>3, <3>1
  <2>2. s[1] < 0
    <3>1. ~Leq(On(g, lo), On(g, hi))
      BY <1>2, <1>8, LeqTransitive
    <3>2. s[1] # 0 /\ ~(s[1] > 0)
      BY <1>1, <1>4, <1>8, <3>1, AlongOrders
    <3> QED BY <1>1, <3>2
  <2>3. c \in Frac /\ Same(Along(p, s, x, c), t)
    BY <1>1, <2>2, Crossing
  <2> HIDE DEF c
  <2>4. \A b \in Frac : Leq(t, On(g, b)) <=> Leq(b, c)
    <3> SUFFICES ASSUME NEW b \in Frac PROVE Leq(t, On(g, b)) <=> Leq(b, c)
      OBVIOUS
    <3>1. Leq(b, c) <=> Leq(On(g, c), On(g, b))
      BY <1>1, <1>4, <2>2, <2>3, AlongOrders
    <3>2. On(g, b) \in Frac /\ On(g, c) \in Frac /\ Leq(t, On(g, c)) /\ Leq(On(g, c), t)
      BY <1>4, <2>3, OnIs DEF Same
    <3>3. Leq(t, On(g, b)) => Leq(On(g, c), On(g, b))
      BY <3>2, LeqTransitive
    <3>4. Leq(On(g, c), On(g, b)) => Leq(t, On(g, b))
      BY <3>2, LeqTransitive
    <3> QED BY <3>1, <3>3, <3>4
  <2>5. Leq(lo, c) /\ ~Leq(hi, c) /\ Leq(t, On(g, c))
    <3>1. Leq(c, c)
      BY <2>3, LeqOrders
    <3> QED BY <1>1, <1>8, <2>3, <2>4, <3>1
  <2>6. Leq(c, hi) /\ Leq(lo, lo)
    BY <1>1, <2>3, <2>5, LeqOrders
  <2>7. h \in Pieces /\ h.lo = lo /\ h.hi = c /\ h.x0 = x /\ h.p0 = p /\ h.slope = s
    BY <2>3 DEF Pieces
  <2> HIDE DEF h
  <2>8. SameLine(h, g) /\ \A b : On(h, b) = On(g, b)
    BY <2>7, SameLineSame DEF SameLine
  <2>9. IsFiniteSet({h})
    BY FS_Singleton
  <2>10. \A b \in Frac : Within(g, b) /\ Leq(t, On(g, b)) => Within(h, b)
    BY <2>4, <2>7 DEF Within
  <2> QED BY <1>8, <2>1, <2>5, <2>6, <2>7, <2>8, <2>9, <2>10
<1>9. CASE Leq(lo, hi) /\ ~from /\ to
  <2> DEFINE h == [g EXCEPT !.lo = c]
  <2>1. A = {h}
    <3>1. A = {[g EXCEPT !.lo = Bid!Plus(Bid!Q(x), Bid!Over(Bid!Minus(t, Bid!Q(p)), s))]}
      BY <1>3, <1>9, Zenon DEF Bid!AtTarget
    <3> QED BY <1>3, <3>1
  <2>2. s[1] > 0
    <3>1. ~Leq(On(g, hi), On(g, lo))
      BY <1>2, <1>9, LeqTransitive
    <3>2. ~(s[1] < 0)
      BY <1>1, <1>4, <1>9, <3>1, AlongOrders
    <3>3. s[1] # 0
      BY <1>1, <1>4, <3>1, AlongOrders
    <3> QED BY <1>1, <3>2, <3>3
  <2>3. c \in Frac /\ Same(Along(p, s, x, c), t)
    BY <1>1, <2>2, Crossing
  <2> HIDE DEF c
  <2>4. \A b \in Frac : Leq(t, On(g, b)) <=> Leq(c, b)
    <3> SUFFICES ASSUME NEW b \in Frac PROVE Leq(t, On(g, b)) <=> Leq(c, b)
      OBVIOUS
    <3>1. Leq(c, b) <=> Leq(On(g, c), On(g, b))
      BY <1>1, <1>4, <2>2, <2>3, AlongOrders
    <3>2. On(g, b) \in Frac /\ On(g, c) \in Frac /\ Leq(t, On(g, c)) /\ Leq(On(g, c), t)
      BY <1>4, <2>3, OnIs DEF Same
    <3>3. Leq(t, On(g, b)) => Leq(On(g, c), On(g, b))
      BY <3>2, LeqTransitive
    <3>4. Leq(On(g, c), On(g, b)) => Leq(t, On(g, b))
      BY <3>2, LeqTransitive
    <3> QED BY <3>1, <3>3, <3>4
  <2>5. Leq(c, hi) /\ ~Leq(c, lo) /\ Leq(t, On(g, c))
    <3>1. Leq(c, c)
      BY <2>3, LeqOrders
    <3> QED BY <1>1, <1>9, <2>3, <2>4, <3>1
  <2>6. Leq(lo, c) /\ Leq(hi, hi)
    BY <1>1, <2>3, <2>5, LeqOrders
  <2>7. h \in Pieces /\ h.lo = c /\ h.hi = hi /\ h.x0 = x /\ h.p0 = p /\ h.slope = s
    BY <2>3 DEF Pieces
  <2> HIDE DEF h
  <2>8. SameLine(h, g) /\ \A b : On(h, b) = On(g, b)
    BY <2>7, SameLineSame DEF SameLine
  <2>9. IsFiniteSet({h})
    BY FS_Singleton
  <2>10. \A b \in Frac : Within(g, b) /\ Leq(t, On(g, b)) => Within(h, b)
    BY <2>4, <2>7 DEF Within
  <2> QED BY <1>9, <2>1, <2>5, <2>6, <2>7, <2>8, <2>9, <2>10
<1> QED BY <1>5, <1>6, <1>7, <1>8, <1>9

\* The feasible parts of finitely many pieces.
LEMMA FeasibleIs ==
  ASSUME NEW P, IsFiniteSet(P), P \subseteq Pieces, NEW lo \in Frac, NEW hi \in Frac, NEW t \in Frac
  PROVE  /\ IsFiniteSet(Bid!Feasible(P, lo, hi, t))
         /\ \A h \in Bid!Feasible(P, lo, hi, t) :
              /\ h \in Pieces
              /\ \E g \in P : SameLine(h, g) /\ Leq(g.lo, h.lo) /\ Leq(h.hi, g.hi)
              /\ Leq(lo, h.lo) /\ Leq(h.lo, h.hi) /\ Leq(h.hi, hi)
              /\ Leq(t, On(h, h.lo)) /\ Leq(t, On(h, h.hi))
         /\ \A g \in P, b \in Frac :
              Within(g, b) /\ Leq(lo, b) /\ Leq(b, hi) /\ Leq(t, On(g, b)) =>
                \E h \in Bid!Feasible(P, lo, hi, t) : SameLine(h, g) /\ Within(h, b)
<1> DEFINE part(g) == Bid!AtTarget(Bid!Clipped(g, lo, hi), t)
           parts == {part(g) : g \in P}
<1>1. Bid!Feasible(P, lo, hi, t) = UNION parts
  BY DEF Bid!Feasible
<1>2. \A g \in P : Bid!Clipped(g, lo, hi) \in Pieces
  BY ClippedIs
<1>3. IsFiniteSet(UNION parts)
  <2>1. IsFiniteSet(parts)
    <3> DEFINE f == [g \in P |-> part(g)]
    <3>1. parts = {f[g] : g \in P}
      OBVIOUS
    <3> HIDE DEF f, parts
    <3> QED BY <3>1, ImageFinite
  <2>2. \A S \in parts : IsFiniteSet(S)
    BY <1>2, AtTargetIs
  <2> HIDE DEF parts
  <2> QED BY <2>1, <2>2, FS_UNION
<1>4. ASSUME NEW g \in P, NEW h \in part(g)
      PROVE  /\ h \in Pieces
             /\ SameLine(h, g) /\ Leq(g.lo, h.lo) /\ Leq(h.hi, g.hi)
             /\ Leq(lo, h.lo) /\ Leq(h.lo, h.hi) /\ Leq(h.hi, hi)
             /\ Leq(t, On(h, h.lo)) /\ Leq(t, On(h, h.hi))
  <2> DEFINE k == Bid!Clipped(g, lo, hi)
  <2>1. /\ k \in Pieces /\ SameLine(k, g)
        /\ Leq(g.lo, k.lo) /\ Leq(lo, k.lo) /\ Leq(k.hi, g.hi) /\ Leq(k.hi, hi)
    BY ClippedIs
  <2> HIDE DEF k
  <2>2. /\ h \in Pieces /\ SameLine(h, k)
        /\ Leq(k.lo, h.lo) /\ Leq(h.lo, h.hi) /\ Leq(h.hi, k.hi)
        /\ Leq(t, On(h, h.lo)) /\ Leq(t, On(h, h.hi))
    BY <2>1, AtTargetIs DEF k
  <2>3. SameLine(h, g)
    BY <2>1, <2>2 DEF SameLine
  <2>4. h.lo \in Frac /\ h.hi \in Frac /\ k.lo \in Frac /\ k.hi \in Frac /\ g.lo \in Frac /\ g.hi \in Frac
    BY <2>1, <2>2 DEF Pieces
  <2>5. Leq(g.lo, h.lo) /\ Leq(lo, h.lo)
    BY <2>1, <2>2, <2>4, LeqTransitive
  <2>6. Leq(h.hi, g.hi) /\ Leq(h.hi, hi)
    BY <2>1, <2>2, <2>4, LeqTransitive
  <2> QED BY <2>2, <2>3, <2>5, <2>6
<1>5. ASSUME NEW g \in P, NEW b \in Frac,
             Within(g, b), Leq(lo, b), Leq(b, hi), Leq(t, On(g, b))
      PROVE  \E h \in part(g) : SameLine(h, g) /\ Within(h, b)
  <2> DEFINE k == Bid!Clipped(g, lo, hi)
  <2>1. k \in Pieces /\ SameLine(k, g) /\ Within(k, b)
    BY <1>5, ClippedIs
  <2>2. Leq(t, On(k, b))
    BY <1>5, <2>1, SameLineSame
  <2> HIDE DEF k
  <2>3. PICK h \in Bid!AtTarget(k, t) : Within(h, b)
    BY <2>1, <2>2, AtTargetIs
  <2>4. SameLine(h, k)
    BY <2>1, AtTargetIs
  <2> QED BY <2>1, <2>3, <2>4 DEF SameLine, k
<1> HIDE DEF part
<1>6. \A h \in UNION parts :
        /\ h \in Pieces
        /\ \E g \in P : SameLine(h, g) /\ Leq(g.lo, h.lo) /\ Leq(h.hi, g.hi)
        /\ Leq(lo, h.lo) /\ Leq(h.lo, h.hi) /\ Leq(h.hi, hi)
        /\ Leq(t, On(h, h.lo)) /\ Leq(t, On(h, h.hi))
  <2> SUFFICES ASSUME NEW h \in UNION parts
               PROVE  /\ h \in Pieces
                      /\ \E g \in P : SameLine(h, g) /\ Leq(g.lo, h.lo) /\ Leq(h.hi, g.hi)
                      /\ Leq(lo, h.lo) /\ Leq(h.lo, h.hi) /\ Leq(h.hi, hi)
                      /\ Leq(t, On(h, h.lo)) /\ Leq(t, On(h, h.hi))
    OBVIOUS
  <2>1. PICK g \in P : h \in part(g)
    OBVIOUS
  <2> QED BY <1>4, <2>1
<1>7. \A g \in P, b \in Frac :
        Within(g, b) /\ Leq(lo, b) /\ Leq(b, hi) /\ Leq(t, On(g, b)) =>
          \E h \in UNION parts : SameLine(h, g) /\ Within(h, b)
  <2> SUFFICES ASSUME NEW g \in P, NEW b \in Frac,
                      Within(g, b), Leq(lo, b), Leq(b, hi), Leq(t, On(g, b))
               PROVE  \E h \in UNION parts : SameLine(h, g) /\ Within(h, b)
    OBVIOUS
  <2>1. PICK h \in part(g) : SameLine(h, g) /\ Within(h, b)
    BY <1>5
  <2>2. h \in UNION parts
    OBVIOUS
  <2> QED BY <2>1, <2>2
<1> QED BY <1>1, <1>3, <1>6, <1>7

-----------------------------------------------------------------------------
(***************************************************************************)
(* The best price on what is left.                                         *)
(***************************************************************************)
GainOn(g, e, b) == Gain(g.p0, g.slope, g.x0, e, b)

\* The contribution that the optimizer computes on a piece.
LEMMA ContributionIs ==
  ASSUME NEW c, NEW g, NEW b
  PROVE  Bid!Contribution(c, b, Bid!WinAt(g, b)) = GainOn(g, c.cost + c.reserve, b)
<1>1. Bid!Contribution(c, b, Bid!WinAt(g, b)) = Times(On(g, b), Minus(b, Q(c.cost + c.reserve)))
  BY BidArithmetic, BidOperators, BidFraction, WinAtIs DEF Bid!Contribution
<1> QED BY <1>1 DEF GainOn, Gain, On

\* The candidates of a piece are on it, and one of them is no worse than any price on it.
LEMMA CandidatesAreBest ==
  ASSUME NEW g \in Pieces, Leq(g.lo, g.hi), g.slope[1] <= 0, NEW e \in Int
  PROVE  /\ IsFiniteSet(Bid!Candidates(g, e)) /\ Bid!Candidates(g, e) # {}
         /\ \A d \in Bid!Candidates(g, e) : d \in Frac /\ Within(g, d) /\ GainOn(g, e, d) \in Frac
         /\ \A b \in Frac : Within(g, b) =>
              \E d \in Bid!Candidates(g, e) : Leq(GainOn(g, e, b), GainOn(g, e, d))
<1> DEFINE p == g.p0
           s == g.slope
           x == g.x0
           lo == g.lo
           hi == g.hi
           C == Bid!Candidates(g, e)
           v == Peak(p, s, x, e)
           V == {w \in IF s[1] < 0 THEN {v} ELSE {} : ~Leq(w, lo) /\ ~Leq(hi, w)}
<1>1. lo \in Frac /\ hi \in Frac /\ p \in Nat /\ s \in Frac /\ x \in Int /\ s[1] \in Int
  BY FracParts DEF Pieces
<1>2. C = {lo, hi} \cup V
  <2>1. Bid!Vertex(g, e) = v
    BY BidArithmetic, BidOperators, BidFraction DEF Bid!Vertex, Peak
  <2>2. \A w : (Bid!Less(lo, w) <=> ~Leq(w, lo)) /\ (Bid!Less(w, hi) <=> ~Leq(hi, w))
    BY BidOperators DEF Less
  <2> HIDE DEF v
  <2> QED BY <2>1, <2>2 DEF Bid!Candidates
<1>3. s[1] < 0 => v \in Frac
  BY <1>1, PeakIs
<1>4. Leq(lo, lo) /\ Leq(hi, hi)
  BY <1>1, LeqOrders
<1>5. \A b \in Frac : GainOn(g, e, b) \in Frac /\ GainOn(g, e, b) = Gain(p, s, x, e, b)
  BY <1>1, GainIsFraction DEF GainOn
<1>6. \A d \in V : d = v /\ s[1] < 0 /\ ~Leq(v, lo) /\ ~Leq(hi, v)
  OBVIOUS
<1> HIDE DEF v, V, C, lo, hi, p, s, x
<1>7. IsFiniteSet(C)
  <2>1. V \subseteq {v}
    BY <1>6
  <2>2. C \subseteq {lo} \cup ({hi} \cup {v})
    BY <1>2, <2>1
  <2>3. IsFiniteSet({lo} \cup ({hi} \cup {v}))
    BY FS_Singleton, FS_Union
  <2> QED BY <2>2, <2>3, FS_Subset
<1>8. \A d \in C : d \in Frac /\ Within(g, d)
  <2> SUFFICES ASSUME NEW d \in C PROVE d \in Frac /\ Leq(lo, d) /\ Leq(d, hi)
    BY DEF Within, lo, hi
  <2>1. CASE d = lo
    BY <1>1, <1>4, <2>1 DEF lo, hi
  <2>2. CASE d = hi
    BY <1>1, <1>4, <2>2 DEF lo, hi
  <2>3. CASE d \in V
    <3>1. d = v /\ v \in Frac /\ ~Leq(v, lo) /\ ~Leq(hi, v)
      BY <1>3, <1>6, <2>3
    <3> QED BY <1>1, <3>1, LeqOrders
  <2> QED BY <1>2, <2>1, <2>2, <2>3
<1>9. ASSUME NEW b \in Frac, Within(g, b)
      PROVE  \E d \in C : Leq(GainOn(g, e, b), GainOn(g, e, d))
  <2>1. Leq(lo, b) /\ Leq(b, hi)
    BY <1>9 DEF Within, lo, hi
  <2>2. lo \in C /\ hi \in C
    BY <1>2
  <2>3. CASE s[1] = 0
    <3>1. Leq(GainOn(g, e, b), GainOn(g, e, hi))
      BY <1>1, <1>5, <2>1, <2>3, GainLevel
    <3> QED BY <2>2, <3>1
  <2>4. CASE s[1] < 0
    <3>1. v \in Frac
      BY <1>3, <2>4
    <3>2. CASE Leq(v, lo)
      <4>1. Leq(GainOn(g, e, b), GainOn(g, e, lo))
        BY <1>1, <1>5, <2>1, <2>4, <3>2, GainOrders DEF v
      <4> QED BY <2>2, <4>1
    <3>3. CASE Leq(hi, v)
      <4>1. Leq(GainOn(g, e, b), GainOn(g, e, hi))
        BY <1>1, <1>5, <2>1, <2>4, <3>3, GainOrders DEF v
      <4> QED BY <2>2, <4>1
    <3>4. CASE ~Leq(v, lo) /\ ~Leq(hi, v)
      <4>1. v \in V
        BY <2>4, <3>4 DEF V
      <4>2. Leq(v, v) /\ (Leq(b, v) \/ Leq(v, b))
        BY <3>1, LeqOrders
      <4>3. Leq(GainOn(g, e, b), GainOn(g, e, v))
        BY <1>1, <1>5, <2>4, <3>1, <4>2, GainOrders DEF v
      <4> QED BY <1>2, <4>1, <4>3
    <3> QED BY <3>2, <3>3, <3>4
  <2>5. s[1] <= 0
    BY DEF s
  <2> QED BY <1>1, <2>3, <2>4, <2>5
<1>10. C # {}
  BY <1>2
<1> QED BY <1>5, <1>7, <1>8, <1>9, <1>10 DEF C

\* Of finitely many things with a value and a price, one is preferred to all: no other has a
\* greater value, and none of the same value a lower price.
LEMMA PreferenceExists ==
  ASSUME NEW S, IsFiniteSet(S), S # {}, NEW value \in [S -> Frac], NEW price \in [S -> Frac]
  PROVE  \E x \in S : \A y \in S :
           ~Leq(value[x], value[y]) \/ (Leq(value[y], value[x]) /\ Leq(price[x], price[y]))
<1> DEFINE Outdoes(x, y) == ~Leq(value[x], value[y]) \/ (Leq(value[y], value[x]) /\ Leq(price[x], price[y]))
           r == {p \in S \X S : Outdoes(p[1], p[2])}
<1>1. \A x, y \in S : <<x, y>> \in r <=> Outdoes(x, y)
  <2> HIDE DEF Outdoes
  <2> QED OBVIOUS
<1>2. \A x \in S : value[x] \in Frac /\ price[x] \in Frac
  OBVIOUS
<1>3. \A x, y \in S : Outdoes(x, y) \/ Outdoes(y, x)
  BY <1>2, LeqOrders
<1>4. ASSUME NEW x \in S, NEW y \in S, NEW z \in S, Outdoes(x, y), Outdoes(y, z)
      PROVE  Outdoes(x, z)
  <2>1. /\ value[x] \in Frac /\ price[x] \in Frac /\ value[y] \in Frac /\ price[y] \in Frac
        /\ value[z] \in Frac /\ price[z] \in Frac
    BY <1>2
  <2>2. Leq(value[y], value[x]) /\ Leq(value[z], value[y])
    BY <1>4, <2>1, LeqOrders
  <2>3. Leq(value[z], value[x])
    BY <2>1, <2>2, LeqTransitive
  <2>4. CASE ~Leq(value[x], value[y])
    <3>1. ~Leq(value[x], value[z])
      BY <2>1, <2>2, <2>4, LeqTransitive
    <3> QED BY <3>1
  <2>5. CASE ~Leq(value[y], value[z])
    <3>1. ~Leq(value[x], value[z])
      BY <2>1, <2>2, <2>5, LeqTransitive
    <3> QED BY <3>1
  <2>6. CASE Leq(value[x], value[y]) /\ Leq(value[y], value[z])
    <3>1. Leq(price[x], price[y]) /\ Leq(price[y], price[z])
      BY <1>4, <2>6
    <3>2. Leq(price[x], price[z])
      BY <2>1, <3>1, LeqTransitive
    <3> QED BY <2>3, <3>2
  <2> QED BY <2>4, <2>5, <2>6
<1> HIDE DEF r, Outdoes
<1>5. \A x, y, z \in S : <<x, y>> \in r /\ <<y, z>> \in r => <<x, z>> \in r
  BY <1>1, <1>4
<1>6. \A x, y \in S : <<x, y>> \in r \/ <<y, x>> \in r
  BY <1>1, <1>3
<1>7. \E x \in S : \A y \in S : <<x, y>> \in r
  BY <1>5, <1>6, FirstExists
<1> QED BY <1>1, <1>7 DEF Outdoes

\* Of finitely many pairs the preferred one has the greatest value.
LEMMA PreferredIs ==
  ASSUME NEW S, IsFiniteSet(S), S # {}, S \subseteq Frac \X Frac
  PROVE  \E x \in S : Bid!Preferred(S) = x[1] /\ \A y \in S : Leq(y[2], x[2])
<1> DEFINE Beats(x, y) == Bid!Less(y[2], x[2]) \/ (Bid!Leq(y[2], x[2]) /\ Bid!Leq(x[1], y[1]))
           best == CHOOSE x \in S : \A y \in S : Beats(x, y)
           value == [x \in S |-> x[2]]
           price == [x \in S |-> x[1]]
<1>1. \A x \in S : x[1] \in Frac /\ x[2] \in Frac
  OBVIOUS
<1>2. value \in [S -> Frac] /\ price \in [S -> Frac]
  BY <1>1
<1>3. \A x \in S : value[x] = x[2] /\ price[x] = x[1]
  OBVIOUS
<1> HIDE DEF value, price
<1>4. \E x \in S : \A y \in S :
        ~Leq(value[x], value[y]) \/ (Leq(value[y], value[x]) /\ Leq(price[x], price[y]))
  BY <1>2, PreferenceExists
<1>5. \A x, y : Beats(x, y) <=> ~Leq(x[2], y[2]) \/ (Leq(y[2], x[2]) /\ Leq(x[1], y[1]))
  BY BidArithmetic, BidOperators DEF Less
<1>6. Bid!Preferred(S) = best[1]
  BY Zenon DEF Bid!Preferred
<1> HIDE DEF Beats
<1>7. \E x \in S : \A y \in S : Beats(x, y)
  BY <1>3, <1>4, <1>5
<1>8. best \in S /\ \A y \in S : Beats(best, y)
  BY <1>7, Zenon
<1> HIDE DEF best
<1>9. \A y \in S : Leq(y[2], best[2])
  <2> SUFFICES ASSUME NEW y \in S PROVE Leq(y[2], best[2])
    OBVIOUS
  <2>1. ~Leq(best[2], y[2]) \/ Leq(y[2], best[2])
    BY <1>5, <1>8
  <2> QED BY <1>1, <1>8, <2>1, LeqOrders
<1> QED BY <1>6, <1>8, <1>9

\* The price that the optimizer returns is on one of the pieces, and no price on any piece has
\* a better contribution.
LEMMA BestOfIs ==
  ASSUME NEW P, IsFiniteSet(P), P # {}, P \subseteq Pieces,
         \A g \in P : Leq(g.lo, g.hi) /\ g.slope[1] <= 0,
         NEW c, c.cost + c.reserve \in Int
  PROVE  \E g \in P :
           /\ Bid!BestOf(c, P) \in Frac /\ Within(g, Bid!BestOf(c, P))
           /\ \A h \in P, b \in Frac : Within(h, b) =>
                Leq(GainOn(h, c.cost + c.reserve, b), GainOn(g, c.cost + c.reserve, Bid!BestOf(c, P)))
<1> DEFINE e == c.cost + c.reserve
           pairs(g) == {<<b, GainOn(g, e, b)>> : b \in Bid!Candidates(g, e)}
           S == UNION {pairs(g) : g \in P}
           best == Bid!BestOf(c, P)
<1>1. best = Bid!Preferred(S)
  <2>1. \A g : {<<b, Bid!Contribution(c, b, Bid!WinAt(g, b))>> : b \in Bid!Candidates(g, e)} = pairs(g)
    BY ContributionIs
  <2>2. UNION {{<<b, Bid!Contribution(c, b, Bid!WinAt(g, b))>> : b \in Bid!Candidates(g, e)} : g \in P} = S
    <3> HIDE DEF pairs
    <3> QED BY <2>1
  <2> HIDE DEF S
  <2> QED BY <2>2 DEF Bid!BestOf
<1>2. \A g \in P : /\ IsFiniteSet(Bid!Candidates(g, e)) /\ Bid!Candidates(g, e) # {}
                   /\ \A d \in Bid!Candidates(g, e) : d \in Frac /\ Within(g, d) /\ GainOn(g, e, d) \in Frac
  BY CandidatesAreBest
<1>3. IsFiniteSet(S)
  <2>1. \A g \in P : IsFiniteSet(pairs(g))
    <3> SUFFICES ASSUME NEW g \in P PROVE IsFiniteSet(pairs(g))
      OBVIOUS
    <3> DEFINE C == Bid!Candidates(g, e)
               f == [b \in C |-> <<b, GainOn(g, e, b)>>]
    <3>1. IsFiniteSet(C)
      BY <1>2
    <3>2. pairs(g) = {f[b] : b \in C}
      OBVIOUS
    <3> HIDE DEF f, C, pairs
    <3> QED BY <3>1, <3>2, ImageFinite
  <2> DEFINE sets == {pairs(g) : g \in P}
  <2>2. IsFiniteSet(sets)
    <3> DEFINE f == [g \in P |-> pairs(g)]
    <3> HIDE DEF pairs
    <3>1. sets = {f[g] : g \in P}
      OBVIOUS
    <3> HIDE DEF f, sets
    <3> QED BY <3>1, ImageFinite
  <2>3. \A T \in sets : IsFiniteSet(T)
    BY <2>1
  <2> HIDE DEF sets
  <2>4. IsFiniteSet(UNION sets)
    BY <2>2, <2>3, FS_UNION
  <2> QED BY <2>4 DEF sets
<1>4. \A y \in S : \E g \in P : y[1] \in Bid!Candidates(g, e) /\ y = <<y[1], GainOn(g, e, y[1])>>
  OBVIOUS
<1>5. S \subseteq Frac \X Frac
  <2> HIDE DEF S
  <2> QED BY <1>2, <1>4
<1>6. \A g \in P : \A d \in Bid!Candidates(g, e) : <<d, GainOn(g, e, d)>> \in S
  OBVIOUS
<1>7. S # {}
  <2>1. PICK g \in P : TRUE
    OBVIOUS
  <2>2. PICK d \in Bid!Candidates(g, e) : TRUE
    BY <1>2
  <2> HIDE DEF S
  <2> QED BY <1>6
<1> HIDE DEF S, best
<1>8. PICK x \in S : best = x[1] /\ \A y \in S : Leq(y[2], x[2])
  BY <1>1, <1>3, <1>5, <1>7, PreferredIs
<1>9. PICK g \in P : x[1] \in Bid!Candidates(g, e) /\ x = <<x[1], GainOn(g, e, x[1])>>
  BY <1>4
<1>10. best \in Frac /\ Within(g, best) /\ x[2] = GainOn(g, e, best) /\ GainOn(g, e, best) \in Frac
  BY <1>2, <1>8, <1>9
<1>11. ASSUME NEW h \in P, NEW b \in Frac, Within(h, b)
       PROVE  Leq(GainOn(h, e, b), GainOn(g, e, best))
  <2>1. PICK d \in Bid!Candidates(h, e) : Leq(GainOn(h, e, b), GainOn(h, e, d))
    BY <1>11, CandidatesAreBest
  <2>2. d \in Frac /\ GainOn(h, e, d) \in Frac
    BY <1>2
  <2>3. Leq(GainOn(h, e, d), GainOn(g, e, best))
    <3> DEFINE y == <<d, GainOn(h, e, d)>>
    <3>1. y \in S /\ y[2] = GainOn(h, e, d)
      BY <1>6
    <3> HIDE DEF y
    <3> QED BY <1>8, <1>10, <3>1
  <2>4. GainOn(h, e, b) \in Frac
    <3>1. h.p0 \in Int /\ h.slope \in Frac /\ h.x0 \in Int
      BY DEF Pieces
    <3> QED BY <3>1, GainIsFraction DEF GainOn
  <2> QED BY <1>10, <2>1, <2>2, <2>3, <2>4, LeqTransitive
<1> QED BY <1>10, <1>11 DEF best

-----------------------------------------------------------------------------
(***************************************************************************)
(* The constraints.                                                        *)
(***************************************************************************)
\* The inputs of an operator are numbers.
LEMMA ConstraintsAre ==
  ASSUME NEW c \in Bid!Constraints
  PROVE  /\ c.cost \in Nat /\ c.margin \in Int /\ c.floor \in Nat /\ c.target \in Nat
         /\ c.reserve \in Nat /\ c.cap \in Nat /\ c.cost + c.reserve \in Int
<1>1. /\ c.cost \in BidCosts /\ c.margin \in BidMargins /\ c.floor \in BidFloors
      /\ c.target \in BidTargets /\ c.reserve \in BidReserves /\ c.cap \in BidCaps
  BY DEF Bid!Constraints
<1>2. /\ BidCosts \subseteq Nat /\ BidMargins \subseteq Int /\ BidFloors \subseteq Nat
      /\ BidTargets \subseteq Nat /\ BidReserves \subseteq Nat /\ BidCaps \subseteq Nat
  BY BidAssumption
<1>3. /\ c.cost \in Nat /\ c.margin \in Int /\ c.floor \in Nat /\ c.target \in Nat
      /\ c.reserve \in Nat /\ c.cap \in Nat
  BY <1>1, <1>2
<1> QED BY <1>3

\* The least price whose margin is enough.
LEMMA MarginFloorIs ==
  ASSUME NEW c \in Bid!Constraints, Bid!Reachable(c)
  PROVE  /\ Bid!MarginFloor(c) \in Frac
         /\ c.cost = 0 => Bid!MarginFloor(c) = Q(0)
         /\ c.cost > 0 => c.margin < 100 /\ Stands(Bid!MarginFloor(c), c.cost * 100, 100 - c.margin)
<1>1. c.cost \in Nat /\ c.margin \in Int
  BY ConstraintsAre
<1>2. CASE c.cost = 0
  BY <1>2, BidFraction, SmallFractions DEF Bid!MarginFloor
<1>3. CASE c.cost > 0
  <2>1. c.margin < 100
    BY <1>3 DEF Bid!Reachable
  <2>2. c.cost * 100 \in Int /\ 100 - c.margin \in Nat \ {0}
    BY <1>1, <2>1
  <2>3. Bid!MarginFloor(c) = Fraction(c.cost * 100, 100 - c.margin)
    BY <1>3, BidFraction DEF Bid!MarginFloor
  <2>4. Stands(Bid!MarginFloor(c), c.cost * 100, 100 - c.margin)
    BY <2>2, <2>3, FractionStands
  <2> QED BY <1>3, <2>1, <2>4 DEF Stands
<1> QED BY <1>1, <1>2, <1>3

\* A positive price keeps the margin if it is no less than the least one.
LEMMA MarginIs ==
  ASSUME NEW c \in Bid!Constraints, NEW b \in Frac, Positive(b)
  PROVE  /\ Bid!MarginHolds(c, b) => Bid!Reachable(c) /\ Leq(Bid!MarginFloor(c), b)
         /\ Bid!MarginHolds(c, b) /\ c.cost = 0 => c.margin <= 100
         /\ Bid!Reachable(c) /\ Leq(Bid!MarginFloor(c), b) /\ c.margin <= 100 => Bid!MarginHolds(c, b)
<1> DEFINE B == b[1]
           d == b[2]
           m == c.margin
           k == c.cost
<1>1. B \in Nat \ {0} /\ d \in Nat \ {0} /\ Stands(b, B, d)
  BY FracParts, StandsForItself DEF Positive
<1>2. k \in Nat /\ m \in Int
  BY ConstraintsAre
<1> HIDE DEF B, d
<1>3. Bid!MarginHolds(c, b) <=> m * B <= 100 * (B - k * d)
  <2>1. Bid!MarginHolds(c, b) <=> Leq(Times(Q(m), b), Times(Q(100), Minus(b, Q(k))))
    BY BidArithmetic, BidOperators, BidFraction DEF Bid!MarginHolds
  <2>2. Stands(Q(m), m, 1) /\ Stands(Q(100), 100, 1)
    BY <1>2, SmallFractions
  <2>3. Stands(Times(Q(m), b), m * B, 1 * d)
    BY <1>1, <2>2, TimesStands
  <2>4. Stands(Minus(b, Q(k)), B - k * d, d)
    <3>1. k \in Int /\ d \in Nat \ {0} /\ Stands(b, B, d)
      BY <1>1, <1>2
    <3> HIDE DEF k
    <3>2. Stands(Q(k), k * d, d)
      BY <3>1, WholeStands
    <3> QED BY <3>1, <3>2, MinusStands
  <2>5. Stands(Times(Q(100), Minus(b, Q(k))), 100 * (B - k * d), 1 * d)
    BY <2>2, <2>4, TimesStands
  <2> QED BY <2>1, <2>3, <2>5, LeqSameStands
<1>4. ASSUME Bid!Reachable(c), k > 0
      PROVE  m < 100 /\ (Leq(Bid!MarginFloor(c), b) <=> (k * 100) * d <= B * (100 - m))
  <2>1. m < 100 /\ Stands(Bid!MarginFloor(c), k * 100, 100 - m)
    BY <1>4, MarginFloorIs
  <2> QED BY <1>1, <2>1, LeqStands
<1>5. ASSUME Bid!Reachable(c), k = 0 PROVE Leq(Bid!MarginFloor(c), b)
  <2>1. Bid!MarginFloor(c) = Q(0)
    BY <1>5, MarginFloorIs
  <2>2. Stands(Q(0), 0 * d, d)
    BY <1>1, WholeStands
  <2>3. 0 * d <= B
    BY <1>1
  <2> QED BY <1>1, <2>1, <2>2, <2>3, LeqSameStands
<1>6. Bid!Reachable(c) <=> m < 100 \/ k = 0
  BY DEF Bid!Reachable
<1> HIDE DEF m, k
<1> DEFINE y == k * d
           z == m * B
<1>7. y \in Nat /\ z \in Int /\ (k * 100) * d = 100 * y /\ B * (100 - m) = 100 * B - z
  BY <1>1, <1>2
<1>8. k = 0 => y = 0
  BY <1>1
<1>9. k > 0 => y > 0
  BY <1>1, <1>2
<1>10. /\ m >= 100 => z >= 100 * B
       /\ m <= 100 => z <= 100 * B
       /\ m > 100 => z > 100 * B
  <2>1. z = B * m /\ 100 * B = B * 100
    BY <1>1, <1>2
  <2>2. m >= 100 => B * m >= B * 100
    BY <1>1, <1>2
  <2>3. m <= 100 => B * m <= B * 100
    BY <1>1, <1>2
  <2>4. m > 100 => B * m > B * 100
    BY <1>1, <1>2
  <2> QED BY <2>1, <2>2, <2>3, <2>4
<1>11. Bid!MarginHolds(c, b) <=> z <= 100 * B - 100 * y
  <2> HIDE DEF y, z
  <2>1. 100 * (B - y) = 100 * B - 100 * y
    BY <1>1, <1>7
  <2> QED BY <1>3, <2>1 DEF y, z
<1> HIDE DEF y, z
<1>12. ASSUME Bid!MarginHolds(c, b) PROVE Bid!Reachable(c) /\ (k = 0 => m <= 100)
  <2>1. z <= 100 * B - 100 * y
    BY <1>11, <1>12
  <2>2. k = 0 => m <= 100
    BY <1>1, <1>2, <1>7, <1>8, <1>10, <2>1
  <2>3. k > 0 => m < 100
    BY <1>1, <1>2, <1>7, <1>9, <1>10, <2>1
  <2> QED BY <1>2, <1>6, <2>2, <2>3
<1>13. ASSUME Bid!MarginHolds(c, b) PROVE Leq(Bid!MarginFloor(c), b)
  <2>1. z <= 100 * B - 100 * y /\ Bid!Reachable(c)
    BY <1>11, <1>12, <1>13
  <2>2. CASE k = 0
    BY <1>5, <2>1, <2>2
  <2>3. CASE k > 0
    <3>1. 100 * y <= 100 * B - z
      BY <1>1, <1>7, <2>1
    <3> QED BY <1>4, <1>7, <2>1, <2>3, <3>1
  <2> QED BY <1>2, <2>2, <2>3
<1>14. ASSUME Bid!Reachable(c), Leq(Bid!MarginFloor(c), b), m <= 100 PROVE Bid!MarginHolds(c, b)
  <2>1. CASE k = 0
    BY <1>1, <1>7, <1>8, <1>10, <1>11, <1>14, <2>1
  <2>2. CASE k > 0
    <3>1. 100 * y <= 100 * B - z
      BY <1>4, <1>7, <1>14, <2>2
    <3> QED BY <1>1, <1>7, <1>11, <3>1
  <2> QED BY <1>2, <2>1, <2>2
<1> QED BY <1>12, <1>13, <1>14 DEF m, k

\* The bounds of the price.
LEMMA LowerBoundIs ==
  ASSUME NEW c \in Bid!Constraints, Bid!Reachable(c)
  PROVE  /\ Bid!LowerBound(c) \in Frac
         /\ Leq(Bid!MarginFloor(c), Bid!LowerBound(c)) /\ Leq(Q(c.floor), Bid!LowerBound(c))
         /\ Leq(Q(Bid!Min(BidGrid)), Bid!LowerBound(c))
         /\ \A b : Leq(Bid!MarginFloor(c), b) /\ Leq(Q(c.floor), b) /\ Leq(Q(Bid!Min(BidGrid)), b) =>
                     Leq(Bid!LowerBound(c), b)
<1> DEFINE u == Bid!MarginFloor(c)
           v == Q(c.floor)
           w == Q(Bid!Min(BidGrid))
           S == {u, v, w}
<1>1. Bid!LowerBound(c) = Bid!Greatest(S)
  BY BidFraction DEF Bid!LowerBound
<1>2. u \in Frac /\ v \in Frac /\ w \in Frac
  <2>1. c.floor \in Int
    BY ConstraintsAre
  <2>2. Bid!Min(BidGrid) \in Int
    BY GridBounds
  <2> QED BY <2>1, <2>2, MarginFloorIs, WholeOrder
<1> HIDE DEF u, v, w
<1>3. IsFiniteSet(S)
  <2>1. S = {u} \cup ({v} \cup {w})
    OBVIOUS
  <2>2. IsFiniteSet({u}) /\ IsFiniteSet({v}) /\ IsFiniteSet({w})
    BY FS_Singleton
  <2>3. IsFiniteSet({v} \cup {w})
    BY <2>2, FS_Union
  <2>4. IsFiniteSet({u} \cup ({v} \cup {w}))
    BY <2>2, <2>3, FS_Union
  <2> QED BY <2>1, <2>4
<1>4. S # {} /\ S \subseteq Frac
  BY <1>2
<1> DEFINE g == Bid!Greatest(S)
<1>5. g \in S /\ \A y \in S : Leq(y, g)
  <2> HIDE DEF S
  <2> QED BY <1>3, <1>4, LeastIs
<1> HIDE DEF g
<1>6. g \in Frac /\ Leq(u, g) /\ Leq(v, g) /\ Leq(w, g)
  BY <1>2, <1>5
<1>7. g = u \/ g = v \/ g = w
  BY <1>5
<1>8. \A b : Leq(u, b) /\ Leq(v, b) /\ Leq(w, b) => Leq(g, b)
  BY <1>7
<1> QED BY <1>1, <1>6, <1>8 DEF g, u, v, w

\* No price that keeps the cap, and is on the curve, is above the upper bound.
LEMMA UpperBoundIs ==
  ASSUME NEW c \in Bid!Constraints
  PROVE  /\ Bid!UpperBound(c) \in Frac
         /\ Leq(Bid!UpperBound(c), Q(Bid!Max(BidGrid)))
         /\ c.cap # 0 => Leq(Bid!UpperBound(c), Q(c.cap))
         /\ \A b \in Frac : Leq(b, Q(Bid!Max(BidGrid))) /\ (c.cap # 0 => Leq(b, Q(c.cap))) =>
                              Leq(b, Bid!UpperBound(c))
<1>1. Q(c.cap) \in Frac /\ Q(Bid!Max(BidGrid)) \in Frac
  <2>1. c.cap \in Int
    BY ConstraintsAre
  <2>2. Bid!Max(BidGrid) \in Int
    BY GridBounds
  <2> QED BY <2>1, <2>2, WholeOrder
<1>2. CASE c.cap = 0
  <2>1. Bid!UpperBound(c) = Q(Bid!Max(BidGrid))
    BY <1>2, BidFraction DEF Bid!UpperBound
  <2> QED BY <1>1, <1>2, <2>1, LeqOrders
<1>3. CASE c.cap # 0
  <2>1. Bid!UpperBound(c) = Lower(Q(c.cap), Q(Bid!Max(BidGrid)))
    BY <1>3, BidFraction, BidOperators DEF Bid!UpperBound
  <2> QED BY <1>1, <1>3, <2>1, HigherLower
<1> QED BY <1>2, <1>3

\* What the winners of a tie share.
LEMMA SharesAre == Bid!Shares \in Nat /\ Bid!Full \in Nat
<1> DEFINE S == 1..(Cardinality(BidRivals) + 1)
           op == [p \in Nat \X Nat |-> p[1] * p[2]]
           f == [k \in S |-> k]
           c == [s \in SUBSET S |-> CHOOSE x \in s : TRUE]
           Product(g) == [s \in SUBSET S |-> IF s = {} THEN 1
                            ELSE (CHOOSE x \in s : TRUE) * g[s \ {CHOOSE x \in s : TRUE}]]
<1>1. Cardinality(BidRivals) \in Nat
  <2>1. IsFiniteSet(BidRivals)
    BY BidAssumption
  <2> QED BY <2>1, FS_CardinalityType
<1>2. IsFiniteSet(S) /\ S \subseteq Nat
  <2>1. 1 \in Int /\ Cardinality(BidRivals) + 1 \in Int
    BY <1>1
  <2>2. IsFiniteSet(S)
    BY <2>1, FS_Interval
  <2>3. S \subseteq Nat
    BY <2>1
  <2> QED BY <2>2, <2>3
<1> HIDE DEF S
<1>3. Picks(c, S)
  BY DEF Picks
<1>4. op \in [Nat \X Nat -> Nat] /\ f \in [S -> Nat] /\ 1 \in Nat
  BY <1>2
<1>5. PICK g \in [SUBSET S -> Nat] : IsFold(g, op, 1, f, c, S)
  <2> HIDE DEF op, f, c
  <2> QED BY <1>2, <1>3, <1>4, FoldExists
<1>6. g = Product(g)
  <2>1. \A s \in SUBSET S : s # {} =>
          op[f[c[s]], g[s \ {c[s]}]] = (CHOOSE x \in s : TRUE) * g[s \ {CHOOSE x \in s : TRUE}]
    <3> SUFFICES ASSUME NEW s \in SUBSET S, s # {}
                 PROVE  op[f[c[s]], g[s \ {c[s]}]] = (CHOOSE x \in s : TRUE) * g[s \ {CHOOSE x \in s : TRUE}]
      OBVIOUS
    <3> DEFINE x == CHOOSE x \in s : TRUE
    <3>1. c[s] = x /\ x \in s
      BY <1>3 DEF Picks
    <3> HIDE DEF x, c
    <3>2. f[x] = x /\ x \in Nat
      BY <1>2, <3>1
    <3>3. g[s \ {x}] \in Nat
      BY <1>5
    <3>4. op[x, g[s \ {x}]] = x * g[s \ {x}]
      BY <3>2, <3>3
    <3> QED BY <3>1, <3>2, <3>4 DEF x
  <2>2. \A s \in SUBSET S : (IF s = {} THEN 1 ELSE op[f[c[s]], g[s \ {c[s]}]])
                              = (IF s = {} THEN 1 ELSE (CHOOSE x \in s : TRUE) * g[s \ {CHOOSE x \in s : TRUE}])
    BY <2>1
  <2> HIDE DEF op, f, c
  <2>3. g = [s \in SUBSET S |-> IF s = {} THEN 1 ELSE op[f[c[s]], g[s \ {c[s]}]]]
    BY <1>5 DEF IsFold
  <2> QED BY <2>2, <2>3, Zenon
<1> HIDE DEF op, f, c
<1> DEFINE h == CHOOSE h : h = Product(h)
<1>7. h = Product(h)
  <2> HIDE DEF Product
  <2> QED BY <1>6, Zenon
<1>8. Bid!Shares = h[S]
  BY BidCardinality, Zenon DEF Bid!Shares, Bid!FoldSet, Bid!MapThenFoldSet, S
<1> HIDE DEF h
<1>9. ASSUME NEW s \in SUBSET S
      PROVE  h[s] = IF s = {} THEN 1 ELSE (CHOOSE x \in s : TRUE) * h[s \ {CHOOSE x \in s : TRUE}]
  BY <1>7, Zenon
<1> DEFINE Bad == {n \in Nat : \E s \in SUBSET S : Cardinality(s) = n /\ h[s] \notin Nat}
<1>10. Bad = {}
  <2> SUFFICES ASSUME Bad # {} PROVE FALSE
    OBVIOUS
  <2>1. PICK n \in Bad : \A k \in Bad : n <= k
    <3>1. Bad \subseteq Nat
      OBVIOUS
    <3> HIDE DEF Bad
    <3> QED BY <3>1, LeastExists
  <2>2. PICK s \in SUBSET S : Cardinality(s) = n /\ h[s] \notin Nat
    OBVIOUS
  <2>3. CASE s = {}
    <3>1. h[s] = 1
      BY <1>9, <2>3
    <3> QED BY <2>2, <3>1
  <2>4. CASE s # {}
    <3> DEFINE x == CHOOSE x \in s : TRUE
               r == s \ {x}
    <3>1. x \in s /\ x \in Nat
      BY <1>2, <2>4
    <3>4. h[s] = x * h[r]
      BY <1>9, <2>4
    <3> HIDE DEF x
    <3>2. r \in SUBSET S /\ Cardinality(r) \in Nat /\ n \in Nat /\ ~(n <= Cardinality(r))
      <4>1. r \in SUBSET S /\ Cardinality(r) \in Nat /\ Cardinality(r) < Cardinality(s)
            /\ Cardinality(s) \in Nat
        BY <1>2, <3>1, SmallerWithout
      <4>2. Cardinality(s) = n
        BY <2>2
      <4> HIDE DEF r, Bad
      <4> QED BY <4>1, <4>2
    <3>3. h[r] \in Nat
      BY <2>1, <3>2
    <3> HIDE DEF r
    <3>5. x * h[r] \in Nat
      BY <3>1, <3>3
    <3> QED BY <2>2, <3>4, <3>5
  <2> QED BY <2>3, <2>4
<1>11. Cardinality(S) \in Nat /\ S \in SUBSET S
  BY <1>2, FS_CardinalityType
<1>12. Bid!Shares \in Nat
  BY <1>8, <1>10, <1>11
<1>13. BidIterations \in Nat
  BY BidAssumption
<1>14. Bid!Full \in Nat
  BY <1>12, <1>13 DEF Bid!Full
<1> QED BY <1>12, <1>14

\* The target of a bid is a fraction: none, or a share of the scenarios.
LEMMA TargetIs ==
  ASSUME NEW c \in Bid!Constraints
  PROVE  /\ Bid!Target(c) \in Frac
         /\ c.target = 0 => Bid!Target(c) = Q(-1)
         /\ c.target # 0 => /\ <<c.target * Bid!Full, 100>> \in Frac
                            /\ Same(Bid!Target(c), <<c.target * Bid!Full, 100>>)
<1> DEFINE n == c.target * Bid!Full
           t == <<n, 100>>
<1>1. c.target \in Nat
  BY ConstraintsAre
<1>2. n \in Int /\ 100 \in Nat \ {0}
  <2> DEFINE k == Bid!Full
  <2>1. k \in Nat
    BY SharesAre
  <2> HIDE DEF k
  <2>2. c.target * k \in Int
    BY <1>1, <2>1
  <2> QED BY <2>2 DEF k
<1> HIDE DEF n
<1>3. CASE c.target = 0
  <2>1. Bid!Target(c) = Q(-1)
    BY <1>3, BidFraction DEF Bid!Target
  <2>2. Q(-1) \in Frac
    BY WholeOrder
  <2> QED BY <1>3, <2>1, <2>2
<1>4. CASE c.target # 0
  <2>1. Bid!Target(c) = Fraction(n, 100)
    BY <1>4, BidFraction DEF Bid!Target, n
  <2>2. Stands(Fraction(n, 100), n, 100) /\ Fraction(n, 100) \in Frac
    BY <1>2, FractionStands DEF Stands
  <2>3. t \in Frac /\ t[1] = n /\ t[2] = 100
    BY <1>2, FracIs
  <2>4. Stands(t, n, 100)
    BY <2>3, StandsForItself
  <2>5. Same(Fraction(n, 100), t)
    BY <2>2, <2>4, SameStands
  <2> QED BY <1>4, <2>1, <2>2, <2>3, <2>5 DEF n
<1> QED BY <1>3, <1>4

-----------------------------------------------------------------------------
(***************************************************************************)
(* The bid that is returned.                                               *)
(***************************************************************************)
Falling(pairs) == \A x, y \in BidGrid : x <= y => pairs[y] <= pairs[x]
Left(pairs, c) ==
  Bid!Feasible(Bid!Segments(pairs), Bid!LowerBound(c), Bid!UpperBound(c), Bid!Target(c))

\* The segments are finitely many,
LEMMA SegmentsFinite ==
  ASSUME NEW pairs \in Curves
  PROVE  IsFiniteSet(Bid!Segments(pairs)) /\ Bid!Segments(pairs) \subseteq Pieces
<1>1. IsFiniteSet(BidGrid)
  BY BidAssumption
<1>2. Bid!Segments(pairs) \subseteq Pieces
  BY SegmentIs
<1>3. CASE Bid!Cardinality(BidGrid) = 1
  <2> DEFINE f == [x \in BidGrid |-> [lo |-> Bid!Q(x), hi |-> Bid!Q(x), x0 |-> x, p0 |-> pairs[x],
                                      slope |-> Bid!Q(0)]]
  <2>1. Bid!Segments(pairs) = {f[x] : x \in BidGrid}
    BY <1>3 DEF Bid!Segments
  <2> HIDE DEF f
  <2> QED BY <1>1, <1>2, <2>1, ImageFinite
<1>4. CASE Bid!Cardinality(BidGrid) # 1
  <2> DEFINE S == BidGrid \ {Bid!Max(BidGrid)}
             f == [x \in S |-> [lo |-> Bid!Q(x), hi |-> Bid!Q(Bid!NextPrice(x)), x0 |-> x, p0 |-> pairs[x],
                                slope |-> <<pairs[Bid!NextPrice(x)] - pairs[x], Bid!NextPrice(x) - x>>]]
  <2>1. Bid!Segments(pairs) = {f[x] : x \in S}
    BY <1>4 DEF Bid!Segments
  <2>2. IsFiniteSet(S)
    BY <1>1, FS_Subset
  <2> HIDE DEF f, S
  <2> QED BY <1>2, <2>1, <2>2, ImageFinite
<1> QED BY <1>3, <1>4

\* and none climbs when the curve does not.
LEMMA SegmentsFall ==
  ASSUME NEW pairs \in Curves, Falling(pairs), NEW g \in Bid!Segments(pairs)
  PROVE  g.slope[1] <= 0
<1>1. PICK x, y \in BidGrid : Spans(pairs, g, x, y)
  BY SegmentIs
<1>2. BidGrid \subseteq Int
  BY BidAssumption
<1>3. \A z \in BidGrid : pairs[z] <= pairs[x] \/ z < x
  <2>1. \A z \in BidGrid : x <= z => pairs[z] <= pairs[x]
    BY DEF Falling
  <2>2. \A z \in BidGrid : x <= z \/ z < x
    BY <1>2
  <2> QED BY <2>1, <2>2
<1> QED BY <1>1, <1>3 DEF Spans

\* What is left under the constraints: falling parts of segments, all of them within the bounds
\* and at the target.
LEMMA LeftIs ==
  ASSUME NEW pairs \in Curves, NEW c \in Bid!Constraints, Bid!Reachable(c)
  PROVE  /\ IsFiniteSet(Left(pairs, c)) /\ Left(pairs, c) \subseteq Pieces
         /\ \A h \in Left(pairs, c) :
              /\ Leq(h.lo, h.hi) /\ Leq(Bid!LowerBound(c), h.lo) /\ Leq(h.hi, Bid!UpperBound(c))
              /\ Leq(Bid!Target(c), On(h, h.lo)) /\ Leq(Bid!Target(c), On(h, h.hi))
              /\ \E g \in Bid!Segments(pairs) : SameLine(h, g) /\ Leq(g.lo, h.lo) /\ Leq(h.hi, g.hi)
         /\ Falling(pairs) => \A h \in Left(pairs, c) : h.slope[1] <= 0
         /\ \A g \in Bid!Segments(pairs), b \in Frac :
              /\ Within(g, b) /\ Leq(Bid!LowerBound(c), b) /\ Leq(b, Bid!UpperBound(c))
              /\ Leq(Bid!Target(c), On(g, b)) 
              => \E h \in Left(pairs, c) : Within(h, b)
<1> DEFINE S == Bid!Segments(pairs)
           l == Bid!LowerBound(c)
           u == Bid!UpperBound(c)
           t == Bid!Target(c)
<1>1. IsFiniteSet(S) /\ S \subseteq Pieces
  BY SegmentsFinite
<1>2. l \in Frac /\ u \in Frac /\ t \in Frac
  BY LowerBoundIs, UpperBoundIs, TargetIs
<1>3. Left(pairs, c) = Bid!Feasible(S, l, u, t)
  BY DEF Left
<1>4. Falling(pairs) => \A g \in S : g.slope[1] <= 0
  BY SegmentsFall
<1> HIDE DEF S, l, u, t
<1> DEFINE F == Bid!Feasible(S, l, u, t)
<1>5. /\ IsFiniteSet(F)
      /\ \A h \in F :
           /\ h \in Pieces
           /\ \E g \in S : SameLine(h, g) /\ Leq(g.lo, h.lo) /\ Leq(h.hi, g.hi)
           /\ Leq(l, h.lo) /\ Leq(h.lo, h.hi) /\ Leq(h.hi, u)
           /\ Leq(t, On(h, h.lo)) /\ Leq(t, On(h, h.hi))
      /\ \A g \in S, b \in Frac :
           Within(g, b) /\ Leq(l, b) /\ Leq(b, u) /\ Leq(t, On(g, b)) =>
             \E h \in F : SameLine(h, g) /\ Within(h, b)
  BY <1>1, <1>2, FeasibleIs
<1> HIDE DEF F
<1>6. Falling(pairs) => \A h \in F : h.slope[1] <= 0
  BY <1>4, <1>5 DEF SameLine
<1>7. F \subseteq Pieces
  BY <1>5
<1>8. Left(pairs, c) = F
  BY <1>3 DEF F
<1>9. \A h \in F :
        /\ Leq(h.lo, h.hi) /\ Leq(l, h.lo) /\ Leq(h.hi, u)
        /\ Leq(t, On(h, h.lo)) /\ Leq(t, On(h, h.hi))
        /\ \E g \in S : SameLine(h, g) /\ Leq(g.lo, h.lo) /\ Leq(h.hi, g.hi)
  BY <1>5
<1>10. \A g \in S, b \in Frac :
           Within(g, b) /\ Leq(l, b) /\ Leq(b, u) /\ Leq(t, On(g, b)) => \E h \in F : Within(h, b)
  BY <1>5
<1> QED BY <1>5, <1>6, <1>7, <1>8, <1>9, <1>10, Zenon DEF S, l, u, t

\* A price that is no less than the least of the grid is positive.
LEMMA AboveGrid ==
  ASSUME NEW b \in Frac, Leq(Q(Bid!Min(BidGrid)), b)
  PROVE  Positive(b) /\ Leq(Q(0), b) /\ ~Leq(b, Q(0))
<1> DEFINE m == Bid!Min(BidGrid)
<1>1. m \in Nat \ {0}
  BY GridBounds
<1>2. Leq(Q(m), b)
  OBVIOUS
<1> HIDE DEF m
<1>3. m \in Int /\ 0 \in Int /\ 0 <= m /\ ~(m <= 0)
  BY <1>1
<1>4. Q(m) \in Frac /\ Q(0) \in Frac /\ Leq(Q(0), Q(m)) /\ ~Leq(Q(m), Q(0))
  BY <1>3, WholeOrder
<1>5. Leq(Q(0), b) /\ ~Leq(b, Q(0))
  BY <1>2, <1>4, LeqTransitive
<1>6. Positive(b)
  <2> DEFINE n == b[1]
             d == b[2]
  <2>1. n \in Int /\ d \in Nat \ {0} /\ Stands(b, n, d)
    BY FracParts, StandsForItself
  <2> HIDE DEF n, d
  <2>2. Stands(Q(0), 0 * d, d)
    <3>1. 0 \in Int
      OBVIOUS
    <3> QED BY <2>1, <3>1, WholeStands
  <2>3. ~(n <= 0 * d)
    BY <1>5, <2>1, <2>2, LeqSameStands
  <2>4. n > 0
    BY <2>1, <2>3
  <2> QED BY <2>4 DEF Positive, n
<1> QED BY <1>5, <1>6

\* A price on what is left meets every constraint, if no margin above 100 % is asked for.
LEMMA LeftIsVerified ==
  ASSUME NEW pairs \in Curves, NEW c \in Bid!Constraints, Bid!Reachable(c), c.margin <= 100,
         NEW h \in Left(pairs, c), NEW b \in Frac, Within(h, b)
  PROVE  Bid!Verified(pairs, c, b)
<1> DEFINE l == Bid!LowerBound(c)
           u == Bid!UpperBound(c)
           t == Bid!Target(c)
           w == Bid!WinProbabilityAt(pairs, b)
<1>1. /\ h \in Pieces /\ Leq(l, h.lo) /\ Leq(h.hi, u)
      /\ Leq(t, On(h, h.lo)) /\ Leq(t, On(h, h.hi))
      /\ \E g \in Bid!Segments(pairs) : SameLine(h, g) /\ Leq(g.lo, h.lo) /\ Leq(h.hi, g.hi)
  BY LeftIs
<1>2. PICK g \in Bid!Segments(pairs) : SameLine(h, g) /\ Leq(g.lo, h.lo) /\ Leq(h.hi, g.hi)
  BY <1>1
<1>3. h.lo \in Frac /\ h.hi \in Frac /\ h.p0 \in Int /\ h.x0 \in Int /\ h.slope \in Frac
  BY <1>1 DEF Pieces
<1>4. g \in Pieces /\ g.lo \in Frac /\ g.hi \in Frac
  BY SegmentIs DEF Pieces
<1>5. Leq(h.lo, b) /\ Leq(b, h.hi)
  BY DEF Within
<1>6. l \in Frac /\ u \in Frac /\ t \in Frac
  BY LowerBoundIs, UpperBoundIs, TargetIs
<1>7. Leq(l, b) /\ Leq(b, u)
  <2> HIDE DEF l, u
  <2> QED BY <1>1, <1>3, <1>5, <1>6, LeqTransitive
<1>8. Within(g, b)
  <2>1. Leq(g.lo, b) /\ Leq(b, g.hi)
    BY <1>2, <1>3, <1>4, <1>5, LeqTransitive
  <2> QED BY <2>1 DEF Within
<1>9. Leq(t, On(h, b))
  <2> HIDE DEF t
  <2> QED BY <1>1, <1>3, <1>5, <1>6, AlongBetween DEF On
<1>10. Leq(t, w)
  <2>1. w \in Frac /\ Same(w, On(g, b))
    BY <1>8, ProbabilityIs
  <2>2. On(g, b) = On(h, b) /\ On(h, b) \in Frac
    BY <1>1, <1>2, SameLineSame, OnIs
  <2> HIDE DEF t, w
  <2> QED BY <1>6, <1>9, <2>1, <2>2, LeqTransitive DEF Same
<1>11. /\ Leq(Bid!MarginFloor(c), b) /\ Leq(Q(c.floor), b) /\ Leq(Q(Bid!Min(BidGrid)), b)
  <2>1. /\ Leq(Bid!MarginFloor(c), l) /\ Leq(Q(c.floor), l) /\ Leq(Q(Bid!Min(BidGrid)), l)
    BY LowerBoundIs
  <2>2. Bid!MarginFloor(c) \in Frac
    BY MarginFloorIs
  <2>3. c.floor \in Int /\ Bid!Min(BidGrid) \in Int
    BY ConstraintsAre, GridBounds
  <2>4. Q(c.floor) \in Frac /\ Q(Bid!Min(BidGrid)) \in Frac
    BY <2>3, WholeOrder
  <2> HIDE DEF l
  <2> QED BY <1>6, <1>7, <2>1, <2>2, <2>4, LeqTransitive
<1>12. Positive(b) /\ ~Leq(b, Q(0))
  BY <1>11, AboveGrid
<1>13. Bid!MarginHolds(c, b)
  BY <1>11, <1>12, MarginIs
<1>14. c.cap # 0 => Leq(b, Q(c.cap))
  <2> SUFFICES ASSUME c.cap # 0 PROVE Leq(b, Q(c.cap))
    OBVIOUS
  <2>1. Leq(u, Q(c.cap))
    BY UpperBoundIs
  <2>2. Q(c.cap) \in Frac
    <3>1. c.cap \in Int
      BY ConstraintsAre
    <3> QED BY <3>1, WholeOrder
  <2> HIDE DEF u
  <2> QED BY <1>6, <1>7, <2>1, <2>2, LeqTransitive
<1>15. Bid!Less(Bid!Q(0), b)
  BY <1>12, BidOperators, BidFraction DEF Less
<1>16. \A x, y : (Bid!Leq(x, y) <=> Leq(x, y)) /\ Bid!Q(x) = Q(x)
  BY BidArithmetic, BidFraction
<1> HIDE DEF l, u, t, w
<1> QED BY <1>7, <1>10, <1>11, <1>13, <1>14, <1>15, <1>16, Zenon DEF Bid!Verified, l, u, t, w

\* What a price that is allowed is: on what is left.
LEMMA AllowedIsLeft ==
  ASSUME m3 \in Curves, NEW c \in Bid!Constraints, NEW b \in Bid!Allowed(c)
  PROVE  /\ b \in Frac /\ Bid!Reachable(c) /\ c.margin <= 100
         /\ Leq(Bid!LowerBound(c), b) /\ Leq(b, Bid!UpperBound(c))
         /\ \E h \in Left(m3, c) : Within(h, b)
<1> DEFINE lo == Bid!Min(BidGrid)
           hi == Bid!Max(BidGrid)
           t == Bid!Target(c)
           w == Bid!WinProbabilityAt(m3, b)
           r == <<c.target * Bid!Full, 100>>
<1>1. /\ b \in {<<n, 4>> : n \in (4 * lo)..(4 * hi)}
      /\ Bid!MarginHolds(c, b)
      /\ c.floor # 0 => Leq(Q(c.floor), b)
      /\ c.cap # 0 => Leq(b, Q(c.cap))
      /\ c.target # 0 => Leq(r, w)
  BY BidArithmetic, BidFraction DEF Bid!Allowed
<1>2. PICK n \in (4 * lo)..(4 * hi) : b = <<n, 4>>
  BY <1>1
<1>3. lo \in Nat \ {0} /\ hi \in Nat \ {0}
  BY GridBounds
<1>4. b \in Frac /\ Leq(Q(lo), b) /\ Leq(b, Q(hi))
  <2> HIDE DEF lo, hi
  <2>1. n \in Int /\ 4 \in Nat \ {0} /\ 4 * lo <= n /\ n <= 4 * hi /\ lo \in Int /\ hi \in Int
    BY <1>2, <1>3
  <2>2. b \in Frac /\ b[1] = n /\ b[2] = 4
    BY <1>2, <2>1, FracIs
  <2>3. Stands(b, n, 4)
    BY <2>2, StandsForItself
  <2>4. Stands(Q(lo), lo * 4, 4) /\ Stands(Q(hi), hi * 4, 4)
    BY <2>1, WholeStands
  <2>5. lo * 4 <= n /\ n <= hi * 4
    BY <2>1
  <2> QED BY <2>2, <2>3, <2>4, <2>5, LeqSameStands
<1>5. Positive(b) /\ Leq(Q(0), b)
  BY <1>4, AboveGrid
<1>6. /\ Bid!Reachable(c) /\ Leq(Bid!MarginFloor(c), b)
      /\ c.cost = 0 => c.margin <= 100
  BY <1>1, <1>4, <1>5, MarginIs
<1>7. c.margin <= 100
  <2>1. c.margin \in Int
    BY ConstraintsAre
  <2> QED BY <1>6, <2>1 DEF Bid!Reachable
<1>8. Leq(Q(c.floor), b)
  <2>1. CASE c.floor = 0
    BY <1>5, <2>1
  <2>2. CASE c.floor # 0
    BY <1>1, <2>2
  <2> QED BY <2>1, <2>2
<1>9. Leq(Bid!LowerBound(c), b)
  BY <1>4, <1>6, <1>8, LowerBoundIs
<1>10. Leq(b, Bid!UpperBound(c))
  BY <1>1, <1>4, UpperBoundIs
<1>11. PICK g \in Bid!Segments(m3) : Within(g, b)
  BY <1>4, SegmentsCover
<1>12. w \in Frac /\ Same(w, On(g, b)) /\ On(g, b) \in Frac
  <2>1. g \in Pieces
    BY SegmentIs
  <2> QED BY <1>4, <1>11, <2>1, ProbabilityIs, OnIs
<1>13. Leq(t, On(g, b))
  <2>1. CASE c.target = 0
    <3>1. t = Q(-1)
      BY <2>1, TargetIs
    <3>2. Q(-1) \in Frac /\ Q(0) \in Frac /\ Leq(Q(-1), Q(0))
      <4>1. -1 \in Int /\ 0 \in Int /\ -1 <= 0
        OBVIOUS
      <4> QED BY <4>1, WholeOrder
    <3>3. Leq(Q(0), On(g, b))
      BY <1>4, <1>11, OnNotNegative
    <3> QED BY <1>12, <3>1, <3>2, <3>3, LeqTransitive
  <2>2. CASE c.target # 0
    <3>1. t \in Frac /\ r \in Frac /\ Same(t, r)
      BY <2>2, TargetIs
    <3>2. Leq(r, w)
      BY <1>1, <2>2
    <3> HIDE DEF t, r, w
    <3>3. Leq(t, w)
      BY <1>12, <3>1, <3>2, LeqTransitive DEF Same
    <3> QED BY <1>12, <3>1, <3>3, LeqTransitive DEF Same
  <2> QED BY <2>1, <2>2
<1>14. \E h \in Left(m3, c) : Within(h, b)
  BY <1>4, <1>6, <1>9, <1>10, <1>11, <1>13, LeftIs
<1> QED BY <1>4, <1>6, <1>7, <1>9, <1>10, <1>14

\* What is won at a price is what its piece says.
LEMMA WonIs ==
  ASSUME NEW pairs \in Curves, NEW c \in Bid!Constraints, Bid!Reachable(c),
         NEW h \in Left(pairs, c), NEW b \in Frac, Within(h, b)
  PROVE  /\ Bid!WinProbabilityAt(pairs, b) \in Frac
         /\ Same(Bid!WinProbabilityAt(pairs, b), On(h, b))
         /\ Bid!Contribution(c, b, Bid!WinProbabilityAt(pairs, b)) \in Frac
         /\ GainOn(h, c.cost + c.reserve, b) \in Frac
         /\ Same(Bid!Contribution(c, b, Bid!WinProbabilityAt(pairs, b)), GainOn(h, c.cost + c.reserve, b))
<1> DEFINE w == Bid!WinProbabilityAt(pairs, b)
           e == c.cost + c.reserve
           v == Minus(b, Q(e))
<1>1. h \in Pieces /\ \E g \in Bid!Segments(pairs) : SameLine(h, g) /\ Leq(g.lo, h.lo) /\ Leq(h.hi, g.hi)
  BY LeftIs
<1>2. PICK g \in Bid!Segments(pairs) : SameLine(h, g) /\ Leq(g.lo, h.lo) /\ Leq(h.hi, g.hi)
  BY <1>1
<1>3. h.lo \in Frac /\ h.hi \in Frac /\ h.p0 \in Int /\ h.x0 \in Int /\ h.slope \in Frac
  BY <1>1 DEF Pieces
<1>4. g \in Pieces /\ g.lo \in Frac /\ g.hi \in Frac
  BY SegmentIs DEF Pieces
<1>5. Within(g, b)
  <2>1. Leq(h.lo, b) /\ Leq(b, h.hi)
    BY DEF Within
  <2>2. Leq(g.lo, b) /\ Leq(b, g.hi)
    BY <1>2, <1>3, <1>4, <2>1, LeqTransitive
  <2> QED BY <2>2 DEF Within
<1>6. w \in Frac /\ Same(w, On(h, b)) /\ On(h, b) \in Frac
  <2>1. w \in Frac /\ Same(w, On(g, b))
    BY <1>5, ProbabilityIs
  <2>2. On(g, b) = On(h, b) /\ On(h, b) \in Frac
    BY <1>1, <1>2, SameLineSame, OnIs
  <2> QED BY <2>1, <2>2
<1>7. e \in Int
  BY ConstraintsAre
<1>8. v \in Frac
  <2> HIDE DEF e
  <2> QED BY <1>7, WholeOrder, FracClosed
<1>9. Bid!Contribution(c, b, w) = Times(w, v)
  BY BidArithmetic, BidOperators, BidFraction DEF Bid!Contribution
<1>10. GainOn(h, e, b) = Times(On(h, b), v)
  BY DEF GainOn, Gain, On
<1> HIDE DEF w, v
<1> DEFINE o == On(h, b)
<1>11. w \in Frac /\ o \in Frac /\ Same(w, o)
  BY <1>6
<1> HIDE DEF o
<1>12. Same(Times(w, v), Times(o, v)) /\ Times(w, v) \in Frac /\ Times(o, v) \in Frac
  <2>1. PICK d \in Nat \ {0}, n \in Int, m \in Int : Stands(w, n, d) /\ Stands(o, m, d)
    BY <1>11, TwoStand
  <2>2. n = m
    BY <1>11, <2>1, LeqSameStands DEF Same
  <2>3. Stands(v, v[1], v[2])
    BY <1>8, StandsForItself
  <2>4. Stands(Times(w, v), n * v[1], d * v[2]) /\ Stands(Times(o, v), n * v[1], d * v[2])
    BY <2>1, <2>2, <2>3, TimesStands
  <2> QED BY <2>4, SameStands DEF Stands
<1> QED BY <1>6, <1>9, <1>10, <1>12 DEF w, o

\* The least and the last bound leave no price.
LEMMA BoundsExclude ==
  ASSUME m3 \in Curves, NEW c \in Bid!Constraints, Bid!Reachable(c),
         ~Leq(Bid!LowerBound(c), Bid!UpperBound(c))
  PROVE  Bid!Allowed(c) = {}
<1> SUFFICES ASSUME NEW b \in Bid!Allowed(c) PROVE FALSE
  OBVIOUS
<1>1. b \in Frac /\ Leq(Bid!LowerBound(c), b) /\ Leq(b, Bid!UpperBound(c))
  BY AllowedIsLeft
<1>2. Bid!LowerBound(c) \in Frac /\ Bid!UpperBound(c) \in Frac
  BY LowerBoundIs, UpperBoundIs
<1> QED BY <1>1, <1>2, LeqTransitive

\* What the optimizer returns: a refusal that leaves no price, or the best of what is left.
LEMMA OptimizedIs ==
  ASSUME NEW pairs \in Curves, Falling(pairs), NEW c \in Bid!Constraints
  PROVE  \/ Bid!Optimized(pairs, c) = Bid!Infeasible("margin") /\ ~Bid!Reachable(c)
         \/ /\ Bid!Optimized(pairs, c) = Bid!Infeasible("price") /\ Bid!Reachable(c)
            /\ ~Leq(Bid!LowerBound(c), Bid!UpperBound(c))
         \/ /\ Bid!Optimized(pairs, c) = Bid!Infeasible("target") /\ Bid!Reachable(c)
            /\ Left(pairs, c) = {}
         \/ /\ Bid!Optimized(pairs, c) = Bid!Infeasible("check") /\ Bid!Reachable(c)
            /\ c.margin > 100
         \/ /\ Bid!Reachable(c) /\ Bid!Verified(pairs, c, Bid!BestOf(c, Left(pairs, c)))
            /\ Left(pairs, c) # {}
            /\ Bid!Optimized(pairs, c) =
                 Bid!Answer(Bid!BestOf(c, Left(pairs, c)),
                            Bid!SafeRange(Left(pairs, c), Bid!BestOf(c, Left(pairs, c))),
                            Bid!AggressiveRange(Left(pairs, c)))
<1> DEFINE F == Left(pairs, c)
           b == Bid!BestOf(c, F)
<1>1. CASE ~Bid!Reachable(c)
  BY <1>1 DEF Bid!Optimized
<1>2. CASE Bid!Reachable(c) /\ ~Leq(Bid!LowerBound(c), Bid!UpperBound(c))
  <2>1. Bid!Less(Bid!UpperBound(c), Bid!LowerBound(c))
    BY <1>2, BidOperators DEF Less
  <2> QED BY <1>2, <2>1 DEF Bid!Optimized
<1>3. CASE Bid!Reachable(c) /\ Leq(Bid!LowerBound(c), Bid!UpperBound(c))
  <2>1. ~Bid!Less(Bid!UpperBound(c), Bid!LowerBound(c))
    BY <1>3, BidOperators DEF Less
  <2>2. Bid!Optimized(pairs, c) = Bid!Among(pairs, c, F)
    BY <1>3, <2>1, Zenon DEF Bid!Optimized, Left
  <2> HIDE DEF F
  <2>3. CASE F = {}
    BY <1>3, <2>2, <2>3, Zenon DEF Bid!Among, F
  <2>4. CASE F # {}
    <3>1. Bid!Optimized(pairs, c) = Bid!Checked(pairs, c, b, F)
      BY <2>2, <2>4, Zenon DEF Bid!Among
    <3> HIDE DEF b
    <3>2. CASE Bid!Verified(pairs, c, b)
      BY <1>3, <2>4, <3>1, <3>2, Zenon DEF Bid!Checked, b, F
    <3>3. CASE ~Bid!Verified(pairs, c, b)
      <4>1. Bid!Optimized(pairs, c) = Bid!Infeasible("check")
        BY <3>1, <3>3, Zenon DEF Bid!Checked
      <4>2. c.margin > 100
        <5> SUFFICES ASSUME c.margin <= 100 PROVE FALSE
          <6>1. c.margin \in Int
            BY ConstraintsAre
          <6> QED BY <6>1
        <5> DEFINE e == c.cost + c.reserve
        <5>1. e \in Int
          BY ConstraintsAre
        <5>2. IsFiniteSet(F) /\ F \subseteq Pieces /\ \A g \in F : Leq(g.lo, g.hi) /\ g.slope[1] <= 0
          BY <1>3, LeftIs DEF F
        <5>3. \E g \in F : b \in Frac /\ Within(g, b)
          BY <2>4, <5>1, <5>2, BestOfIs DEF b
        <5> QED BY <1>3, <3>3, <5>3, LeftIsVerified DEF F
      <4> QED BY <1>3, <4>1, <4>2
    <3> QED BY <3>2, <3>3
  <2> QED BY <2>3, <2>4
<1> QED BY <1>1, <1>2, <1>3

\* So the bid is the best of all that are allowed, and a refusal means that none is.
LEMMA BestIsFeasible ==
  ASSUME m3 \in Curves, Falling(m3), m5 \in Bid!Constraints, m6 = Bid!Optimized(m3, m5)
  PROVE  Bid!BestFeasibleBid
<1> DEFINE c == m5
           F == Left(m3, c)
           b == Bid!BestOf(c, F)
           won(x) == Bid!Contribution(c, x, Bid!WinProbabilityAt(m3, x))
<1>1. ASSUME Bid!Allowed(c) = {}, NEW why, m6 = Bid!Infeasible(why), why # "none",
             why = "check" => c.margin > 100
      PROVE  Bid!BestFeasibleBid
  <2>1. m6.why = why
    BY <1>1 DEF Bid!Infeasible
  <2> HIDE DEF c
  <2>2. m6.why # "none" /\ Bid!Allowed(c) = {} /\ (m6.why = "check" => c.margin > 100)
    BY <1>1, <2>1
  <2>3. m6.why # "none" /\ Bid!Allowed(m5) = {} /\ (m6.why = "check" => m5.margin > 100)
    BY <2>2 DEF c
  <2> QED BY <2>3, Zenon DEF Bid!BestFeasibleBid
<1>2. ASSUME NEW x \in Bid!Allowed(c)
      PROVE  x \in Frac /\ Bid!Reachable(c) /\ c.margin <= 100 /\ \E h \in F : Within(h, x)
  BY AllowedIsLeft
<1>3. CASE m6 = Bid!Infeasible("margin") /\ ~Bid!Reachable(c)
  BY <1>1, <1>2, <1>3
<1>4. CASE m6 = Bid!Infeasible("price") /\ Bid!Reachable(c) /\ ~Leq(Bid!LowerBound(c), Bid!UpperBound(c))
  <2>1. Bid!Allowed(c) = {}
    BY <1>4, BoundsExclude
  <2> QED BY <1>1, <1>4, <2>1
<1>5. CASE m6 = Bid!Infeasible("target") /\ F = {}
  <2>1. Bid!Allowed(c) = {}
    BY <1>2, <1>5
  <2> QED BY <1>1, <1>5, <2>1
<1>6. CASE m6 = Bid!Infeasible("check") /\ c.margin > 100
  <2>1. Bid!Allowed(c) = {}
    <3>1. c.margin \in Int
      BY ConstraintsAre
    <3> QED BY <1>2, <1>6, <3>1
  <2> QED BY <1>1, <1>6, <2>1
<1>7. CASE /\ Bid!Reachable(c) /\ Bid!Verified(m3, c, b) /\ F # {}
           /\ m6 = Bid!Answer(b, Bid!SafeRange(F, b), Bid!AggressiveRange(F))
  <2>1. m6.why = "none" /\ m6.bid = b
    BY <1>7 DEF Bid!Answer
  <2> DEFINE e == c.cost + c.reserve
  <2>2. e \in Int
    BY ConstraintsAre
  <2>3. IsFiniteSet(F) /\ F \subseteq Pieces /\ \A g \in F : Leq(g.lo, g.hi) /\ g.slope[1] <= 0
    BY <1>7, LeftIs
  <2>4. PICK g \in F : /\ b \in Frac /\ Within(g, b)
                       /\ \A h \in F, x \in Frac : Within(h, x) => Leq(GainOn(h, e, x), GainOn(g, e, b))
    <3> HIDE DEF F
    <3> QED BY <1>7, <2>2, <2>3, BestOfIs
  <2> HIDE DEF b, F
  <2>5. won(b) \in Frac /\ GainOn(g, e, b) \in Frac /\ Same(won(b), GainOn(g, e, b))
    BY <1>7, <2>4, WonIs DEF F
  <2>6. ASSUME NEW x \in Bid!Allowed(c) PROVE Leq(won(x), won(b))
    <3>1. PICK h \in F : x \in Frac /\ Within(h, x)
      BY <1>2
    <3>2. won(x) \in Frac /\ GainOn(h, e, x) \in Frac /\ Same(won(x), GainOn(h, e, x))
      BY <1>7, <3>1, WonIs DEF F
    <3>3. Leq(GainOn(h, e, x), GainOn(g, e, b))
      BY <2>4, <3>1
    <3> HIDE DEF won, e
    <3>4. Leq(won(x), GainOn(g, e, b))
      BY <2>5, <3>2, <3>3, LeqTransitive DEF Same
    <3> QED BY <2>5, <3>2, <3>4, LeqTransitive DEF Same
  <2>7. \A x \in Bid!Allowed(m5) : Bid!Leq(Bid!Contribution(m5, x, Bid!WinProbabilityAt(m3, x)),
                                           Bid!Contribution(m5, b, Bid!WinProbabilityAt(m3, b)))
    BY <2>6, BidArithmetic
  <2>8. Bid!Verified(m3, m5, b)
    BY <1>7
  <2> QED BY <2>1, <2>7, <2>8 DEF Bid!BestFeasibleBid
<1>8. \/ m6 = Bid!Infeasible("margin") /\ ~Bid!Reachable(c)
      \/ m6 = Bid!Infeasible("price") /\ Bid!Reachable(c) /\ ~Leq(Bid!LowerBound(c), Bid!UpperBound(c))
      \/ m6 = Bid!Infeasible("target") /\ F = {}
      \/ m6 = Bid!Infeasible("check") /\ c.margin > 100
      \/ /\ Bid!Reachable(c) /\ Bid!Verified(m3, c, b) /\ F # {}
         /\ m6 = Bid!Answer(b, Bid!SafeRange(F, b), Bid!AggressiveRange(F))
  BY OptimizedIs
<1> QED BY <1>3, <1>4, <1>5, <1>6, <1>7, <1>8, Zenon

-----------------------------------------------------------------------------
(***************************************************************************)
(* The bands around the bid.                                               *)
(***************************************************************************)
\* What is iterated a number of times has a value for each.
LEMMA IterationExists ==
  ASSUME NEW V, NEW step \in [V -> V], NEW base \in V, NEW n \in Nat
  PROVE  \E f : f = [k \in 0..n |-> IF k = 0 THEN base ELSE step[f[k - 1]]]
<1> DEFINE Has(m) == \E f \in [0..m -> V] : \A k \in 0..m : f[k] = IF k = 0 THEN base ELSE step[f[k - 1]]
           Bad == {m \in Nat : ~Has(m)}
<1>1. ASSUME Bad # {} PROVE FALSE
  <2>1. PICK m \in Bad : \A k \in Bad : m <= k
    <3>1. Bad \subseteq Nat
      OBVIOUS
    <3> HIDE DEF Bad
    <3> QED BY <1>1, <3>1, LeastExists
  <2>2. m \in Nat /\ ~Has(m)
    BY <2>1
  <2>3. CASE m = 0
    <3> DEFINE f == [k \in 0..m |-> base]
    <3>1. f \in [0..m -> V] /\ \A k \in 0..m : f[k] = IF k = 0 THEN base ELSE step[f[k - 1]]
      BY <2>3
    <3> HIDE DEF f
    <3> QED BY <2>2, <3>1
  <2>4. CASE m # 0
    <3>1. m - 1 \in Nat /\ ~(m <= m - 1)
      BY <2>2, <2>4
    <3>2. Has(m - 1)
      <4> HIDE DEF Has
      <4> QED BY <2>1, <3>1
    <3>3. PICK g \in [0..(m - 1) -> V] : \A k \in 0..(m - 1) : g[k] = IF k = 0 THEN base ELSE step[g[k - 1]]
      BY <3>2
    <3> DEFINE f == [k \in 0..m |-> IF k = m THEN step[g[m - 1]] ELSE g[k]]
    <3>4. g[m - 1] \in V
      BY <3>1
    <3>5. step[g[m - 1]] \in V
      BY <3>4
    <3>6. \A k \in 0..m : k # m => k \in 0..(m - 1)
      BY <2>2
    <3>7. f \in [0..m -> V]
      BY <3>5, <3>6
    <3>8. ASSUME NEW k \in 0..m PROVE f[k] = IF k = 0 THEN base ELSE step[f[k - 1]]
      <4>1. CASE k = m
        <5>1. k - 1 \in 0..m /\ k - 1 # m /\ m \in 0..m
          BY <2>2, <2>4, <4>1
        <5>2. f[k] = step[g[m - 1]] /\ f[k - 1] = g[m - 1]
          BY <4>1, <5>1
        <5> QED BY <2>4, <4>1, <5>2
      <4>2. CASE k # m /\ k # 0
        <5>1. k \in 0..(m - 1) /\ k - 1 \in 0..m /\ k - 1 # m
          BY <2>2, <4>2
        <5>2. f[k] = g[k] /\ f[k - 1] = g[k - 1]
          BY <4>2, <5>1
        <5> QED BY <3>3, <4>2, <5>1, <5>2
      <4>3. CASE k # m /\ k = 0
        <5>1. k \in 0..(m - 1)
          BY <3>6, <4>3
        <5>2. f[k] = g[k]
          BY <4>3
        <5> QED BY <3>3, <4>3, <5>1, <5>2
      <4> QED BY <4>1, <4>2, <4>3
    <3> HIDE DEF f
    <3> QED BY <2>2, <3>7, <3>8
  <2> QED BY <2>3, <2>4
<1>2. Has(n)
  <2> HIDE DEF Has
  <2> QED BY <1>1
<1>3. PICK f \in [0..n -> V] : \A k \in 0..n : f[k] = IF k = 0 THEN base ELSE step[f[k - 1]]
  BY <1>2
<1>4. f = [k \in 0..n |-> IF k = 0 THEN base ELSE step[f[k - 1]]]
  BY <1>3
<1> QED BY <1>4

\* The pieces that touch a price, and those that touch them: pieces all, and among them any
\* piece that holds the price.
LEMMA TouchingIs ==
  ASSUME NEW P, IsFiniteSet(P), P \subseteq Pieces, \A g \in P : Leq(g.lo, g.hi), NEW x
  PROVE  /\ Bid!Touching(P, x) \subseteq P
         /\ \A g \in P : Within(g, x) => g \in Bid!Touching(P, x)
<1> DEFINE n == Bid!Cardinality(P)
           base == {g \in P : Bid!Leq(g.lo, x) /\ Bid!Leq(x, g.hi)}
           next(T) == {g \in P : \E h \in T : Bid!Leq(g.lo, h.hi) /\ Bid!Leq(h.lo, g.hi)}
           step == [T \in SUBSET P |-> next(T)]
           Grows(f) == [k \in 0..n |-> IF k = 0 THEN base ELSE next(f[k - 1])]
           grow == CHOOSE f : f = Grows(f)
<1>1. n \in Nat
  BY BidCardinality, FS_CardinalityType
<1>2. Bid!Touching(P, x) = grow[n]
  BY Zenon DEF Bid!Touching
<1>3. \E f : f = Grows(f)
  <2>1. base \in SUBSET P /\ step \in [SUBSET P -> SUBSET P] /\ \A T \in SUBSET P : step[T] = next(T)
    OBVIOUS
  <2> HIDE DEF n, base, next, step
  <2>2. PICK f : f = [k \in 0..n |-> IF k = 0 THEN base ELSE step[f[k - 1]]]
    <3> DEFINE V == SUBSET P
    <3>1. base \in V /\ step \in [V -> V]
      BY <2>1
    <3> HIDE DEF V
    <3> QED BY <1>1, <3>1, IterationExists
  <2>3. \A k \in 0..n : f[k] = IF k = 0 THEN base ELSE step[f[k - 1]]
    BY <2>2
  <2> DEFINE Bad == {k \in 0..n : f[k] \notin SUBSET P}
  <2>4. Bad = {}
    <3> SUFFICES ASSUME Bad # {} PROVE FALSE
      OBVIOUS
    <3>1. PICK k \in Bad : \A j \in Bad : k <= j
      <4>1. Bad \subseteq Nat
        BY <1>1
      <4> HIDE DEF Bad
      <4> QED BY <4>1, LeastExists
    <3>2. k \in 0..n /\ f[k] \notin SUBSET P
      OBVIOUS
    <3>3. CASE k = 0
      BY <2>1, <2>3, <3>2, <3>3
    <3>4. CASE k # 0
      <4>1. k - 1 \in 0..n /\ ~(k <= k - 1)
        BY <1>1, <3>2, <3>4
      <4>2. f[k - 1] \in SUBSET P
        BY <3>1, <4>1
      <4>3. f[k] = step[f[k - 1]]
        BY <2>3, <3>2, <3>4
      <4> QED BY <2>1, <3>2, <4>2, <4>3
    <3> QED BY <3>3, <3>4
  <2>5. \A k \in 0..n : k # 0 => step[f[k - 1]] = next(f[k - 1])
    <3> SUFFICES ASSUME NEW k \in 0..n, k # 0 PROVE step[f[k - 1]] = next(f[k - 1])
      OBVIOUS
    <3>1. k - 1 \in 0..n
      BY <1>1
    <3>2. f[k - 1] \in SUBSET P
      BY <2>4, <3>1
    <3> QED BY <2>1, <3>2
  <2>6. f = Grows(f)
    <3>1. \A k \in 0..n : (IF k = 0 THEN base ELSE step[f[k - 1]]) = (IF k = 0 THEN base ELSE next(f[k - 1]))
      BY <2>5
    <3> QED BY <2>2, <3>1, Zenon
  <2> QED BY <2>6, Zenon
<1>4. grow = Grows(grow)
  <2> HIDE DEF Grows
  <2> QED BY <1>3, Zenon
<1> HIDE DEF grow
<1>5. \A k \in 0..n : grow[k] = IF k = 0 THEN base ELSE next(grow[k - 1])
  <2> HIDE DEF n, base, next
  <2> QED BY <1>4, Zenon
<1> HIDE DEF n
<1>6. n \in 0..n
  BY <1>1
<1>7. \A k \in 0..n : grow[k] \subseteq P
  <2>1. base \subseteq P /\ \A T : next(T) \subseteq P
    OBVIOUS
  <2> HIDE DEF base, next
  <2> QED BY <1>5, <2>1
<1>8. ASSUME NEW g \in P, Within(g, x) PROVE g \in grow[n]
  <2>1. g \in base
    BY <1>8, BidArithmetic DEF Within
  <2>2. \A T : g \in T => g \in next(T)
    BY BidArithmetic
  <2> HIDE DEF base, next
  <2> DEFINE Bad == {k \in 0..n : g \notin grow[k]}
  <2>3. Bad = {}
    <3> SUFFICES ASSUME Bad # {} PROVE FALSE
      OBVIOUS
    <3>1. PICK k \in Bad : \A j \in Bad : k <= j
      <4>1. Bad \subseteq Nat
        BY <1>1
      <4> HIDE DEF Bad
      <4> QED BY <4>1, LeastExists
    <3>2. k \in 0..n /\ g \notin grow[k]
      OBVIOUS
    <3>3. CASE k = 0
      BY <1>5, <2>1, <3>2, <3>3
    <3>4. CASE k # 0
      <4>1. k - 1 \in 0..n /\ ~(k <= k - 1)
        BY <1>1, <3>2, <3>4
      <4>2. g \in grow[k - 1]
        BY <3>1, <4>1
      <4>3. grow[k] = next(grow[k - 1])
        BY <1>5, <3>2, <3>4
      <4> QED BY <2>2, <3>2, <4>2, <4>3
    <3> QED BY <3>3, <3>4
  <2> QED BY <1>6, <2>3
<1> QED BY <1>2, <1>6, <1>7, <1>8

\* A run of pieces spans from where one starts to where one ends.
LEMMA SpanIs ==
  ASSUME NEW P, IsFiniteSet(P), P \subseteq Pieces, P # {}
  PROVE  \E g, h \in P : Bid!Span(P) = <<g.lo, h.hi>> /\ g.lo \in Frac /\ h.hi \in Frac
<1> DEFINE L == {g.lo : g \in P}
           U == {g.hi : g \in P}
           starts == [g \in P |-> g.lo]
           ends == [g \in P |-> g.hi]
<1>1. \A g \in P : g.lo \in Frac /\ g.hi \in Frac
  BY DEF Pieces
<1>2. IsFiniteSet(L) /\ IsFiniteSet(U)
  <2>1. L = {starts[g] : g \in P} /\ U = {ends[g] : g \in P}
    OBVIOUS
  <2> HIDE DEF starts, ends, L, U
  <2>2. IsFiniteSet({starts[g] : g \in P})
    BY ImageFinite
  <2>3. IsFiniteSet({ends[g] : g \in P})
    BY ImageFinite
  <2> QED BY <2>1, <2>2, <2>3
<1>3. L # {} /\ L \subseteq Frac /\ U # {} /\ U \subseteq Frac
  BY <1>1
<1>4. Bid!Span(P) = <<Bid!Least(L), Bid!Greatest(U)>>
  BY DEF Bid!Span
<1>5. Bid!Least(L) \in L /\ Bid!Greatest(U) \in U
  <2> HIDE DEF L, U
  <2> QED BY <1>2, <1>3, LeastIs
<1>6. PICK g \in P : Bid!Least(L) = g.lo
  BY <1>5
<1>7. PICK h \in P : Bid!Greatest(U) = h.hi
  BY <1>5
<1> QED BY <1>1, <1>4, <1>6, <1>7

\* The widest of finitely many spans is one of them.
LEMMA WidestIs ==
  ASSUME NEW S, IsFiniteSet(S), S # {}, S \subseteq Frac \X Frac
  PROVE  Bid!Widest(S) \in S
<1> DEFINE width(s) == Bid!Minus(s[2], s[1])
           Beats(s, t) == Bid!Less(width(t), width(s)) \/ (Bid!Leq(width(t), width(s)) /\ Bid!Leq(s[1], t[1]))
           best == CHOOSE s \in S : \A t \in S : Beats(s, t)
           value == [s \in S |-> Minus(s[2], s[1])]
           price == [s \in S |-> s[1]]
<1>1. \A s \in S : s[1] \in Frac /\ s[2] \in Frac /\ Minus(s[2], s[1]) \in Frac
  <2>1. \A s \in S : s[1] \in Frac /\ s[2] \in Frac
    OBVIOUS
  <2> QED BY <2>1, FracClosed
<1>2. value \in [S -> Frac] /\ price \in [S -> Frac]
  BY <1>1
<1>3. \A s \in S : value[s] = Minus(s[2], s[1]) /\ price[s] = s[1]
  OBVIOUS
<1> HIDE DEF value, price
<1>4. \E x \in S : \A y \in S :
        ~Leq(value[x], value[y]) \/ (Leq(value[y], value[x]) /\ Leq(price[x], price[y]))
  BY <1>2, PreferenceExists
<1>5. \A s, t : Beats(s, t) <=> \/ ~Leq(Minus(s[2], s[1]), Minus(t[2], t[1]))
                                \/ Leq(Minus(t[2], t[1]), Minus(s[2], s[1])) /\ Leq(s[1], t[1])
  BY BidArithmetic, BidOperators DEF Less
<1>6. Bid!Widest(S) = best
  BY Zenon DEF Bid!Widest
<1> HIDE DEF Beats
<1>7. \E x \in S : \A y \in S : Beats(x, y)
  BY <1>3, <1>4, <1>5
<1> QED BY <1>6, <1>7, Zenon

\* A band around an anchor runs from where one piece starts to where one ends.
LEMMA RangeAroundIs ==
  ASSUME NEW P, IsFiniteSet(P), P \subseteq Pieces, \A g \in P : Leq(g.lo, g.hi), NEW anchor
  PROVE  /\ P = {} => Bid!RangeAround(P, anchor) = Bid!NoRange
         /\ P # {} => \E g, h \in P : /\ Bid!RangeAround(P, anchor) = <<g.lo, h.hi>>
                                      /\ g.lo \in Frac /\ h.hi \in Frac
<1> DEFINE T(x) == Bid!Touching(P, x)
           Runs(s) == \E g, h \in P : s = <<g.lo, h.hi>> /\ g.lo \in Frac /\ h.hi \in Frac
<1>1. CASE P = {}
  <2>1. T(anchor) = {}
    <3>1. T(anchor) \subseteq P
      BY TouchingIs
    <3> HIDE DEF T
    <3> QED BY <1>1, <3>1
  <2> QED BY <1>1, <2>1, Zenon DEF Bid!RangeAround
<1>2. ASSUME NEW x, T(x) # {} PROVE Runs(Bid!Span(T(x)))
  <2> DEFINE R == T(x)
  <2>1. R \subseteq P
    BY TouchingIs
  <2> HIDE DEF T
  <2>2. R # {}
    BY <1>2
  <2> HIDE DEF R
  <2>3. R \subseteq Pieces /\ IsFiniteSet(R)
    BY <2>1, FS_Subset
  <2>4. \E g, h \in R : Bid!Span(R) = <<g.lo, h.hi>> /\ g.lo \in Frac /\ h.hi \in Frac
    BY <2>2, <2>3, SpanIs
  <2> QED BY <2>1, <2>4 DEF R
<1>3. CASE P # {} /\ T(anchor) # {}
  <2>1. Bid!RangeAround(P, anchor) = Bid!Span(T(anchor))
    BY <1>3, Zenon DEF Bid!RangeAround
  <2> QED BY <1>2, <1>3, <2>1
<1>4. CASE P # {} /\ T(anchor) = {}
  <2> DEFINE spans == {Bid!Span(T(g.lo)) : g \in P}
             f == [g \in P |-> Bid!Span(T(g.lo))]
  <2>1. Bid!RangeAround(P, anchor) = Bid!Widest(spans)
    BY <1>4, Zenon DEF Bid!RangeAround
  <2>2. ASSUME NEW g \in P PROVE T(g.lo) # {}
    <3>1. Leq(g.lo, g.lo) /\ Leq(g.lo, g.hi)
      <4>1. g.lo \in Frac
        BY DEF Pieces
      <4> QED BY <4>1, LeqOrders
    <3>2. g \in T(g.lo)
      BY <3>1, TouchingIs DEF Within
    <3> QED BY <3>2
  <2> HIDE DEF T
  <2>3. \A s \in spans : Runs(s)
    <3> HIDE DEF Runs
    <3> QED BY <1>2, <2>2
  <2>4. IsFiniteSet(spans)
    <3>1. spans = {f[g] : g \in P}
      OBVIOUS
    <3> HIDE DEF f, spans
    <3> QED BY <3>1, ImageFinite
  <2>5. spans # {}
    BY <1>4
  <2> HIDE DEF spans
  <2>6. spans \subseteq Frac \X Frac
    BY <2>3
  <2>7. Bid!Widest(spans) \in spans
    BY <2>4, <2>5, <2>6, WidestIs
  <2> QED BY <1>4, <2>1, <2>3, <2>7
<1> QED BY <1>1, <1>3, <1>4

\* A price on some of the pieces, at or above a threshold.
Reaches(P, t, b) == \E g \in P : Within(g, b) /\ Leq(t, On(g, b))

\* The band of a threshold holds prices at or above it, and there is one if there is such a price.
LEMMA RangeForIs ==
  ASSUME NEW P, IsFiniteSet(P), P \subseteq Pieces, NEW t \in Frac, NEW anchor
  PROVE  /\ \/ Bid!RangeFor(P, t, anchor) = Bid!NoRange
            \/ \E x, y \in Frac : /\ Bid!RangeFor(P, t, anchor) = <<x, y>>
                                  /\ Reaches(P, t, x) /\ Reaches(P, t, y)
         /\ \A b \in Frac :
              Leq(Q(0), b) /\ Leq(b, Q(Bid!Max(BidGrid))) /\ Reaches(P, t, b) =>
                \E x, y \in Frac : /\ Bid!RangeFor(P, t, anchor) = <<x, y>>
                                   /\ Reaches(P, t, x) /\ Reaches(P, t, y)
<1> DEFINE m == Q(Bid!Max(BidGrid))
           F == Bid!Feasible(P, Q(0), m, t)
           band == Bid!RangeFor(P, t, anchor)
           Spanned == \E x, y \in Frac : band = <<x, y>> /\ Reaches(P, t, x) /\ Reaches(P, t, y)
<1>1. m \in Frac /\ Q(0) \in Frac
  <2>1. Bid!Max(BidGrid) \in Int /\ 0 \in Int
    BY GridBounds
  <2> QED BY <2>1, WholeOrder
<1>2. band = Bid!RangeAround(F, anchor)
  BY BidFraction DEF Bid!RangeFor
<1> HIDE DEF m
<1>3. /\ IsFiniteSet(F)
      /\ \A h \in F :
           /\ h \in Pieces
           /\ \E g \in P : SameLine(h, g) /\ Leq(g.lo, h.lo) /\ Leq(h.hi, g.hi)
           /\ Leq(Q(0), h.lo) /\ Leq(h.lo, h.hi) /\ Leq(h.hi, m)
           /\ Leq(t, On(h, h.lo)) /\ Leq(t, On(h, h.hi))
      /\ \A g \in P, b \in Frac :
           Within(g, b) /\ Leq(Q(0), b) /\ Leq(b, m) /\ Leq(t, On(g, b)) =>
             \E h \in F : SameLine(h, g) /\ Within(h, b)
  BY <1>1, FeasibleIs
<1> HIDE DEF F, band
<1>4. ASSUME NEW h \in F PROVE Reaches(P, t, h.lo) /\ Reaches(P, t, h.hi)
  <2>1. PICK g \in P : SameLine(h, g) /\ Leq(g.lo, h.lo) /\ Leq(h.hi, g.hi)
    BY <1>3
  <2>2. /\ h.lo \in Frac /\ h.hi \in Frac /\ g.lo \in Frac /\ g.hi \in Frac
        /\ Leq(h.lo, h.hi) /\ Leq(t, On(h, h.lo)) /\ Leq(t, On(h, h.hi))
    BY <1>3 DEF Pieces
  <2>3. Leq(g.lo, h.hi) /\ Leq(h.lo, g.hi)
    BY <2>1, <2>2, LeqTransitive
  <2>4. Within(g, h.lo) /\ Within(g, h.hi)
    BY <2>1, <2>3 DEF Within
  <2>5. On(g, h.lo) = On(h, h.lo) /\ On(g, h.hi) = On(h, h.hi)
    BY <2>1, SameLineSame
  <2> QED BY <2>2, <2>4, <2>5 DEF Reaches
<1>5. /\ F = {} => band = Bid!NoRange
      /\ F # {} => \E g, h \in F : band = <<g.lo, h.hi>> /\ g.lo \in Frac /\ h.hi \in Frac
  <2>1. F \subseteq Pieces /\ \A g \in F : Leq(g.lo, g.hi)
    BY <1>3
  <2> QED BY <1>2, <1>3, <2>1, RangeAroundIs
<1>6. F # {} => Spanned
  BY <1>4, <1>5
<1>7. ASSUME NEW b \in Frac, Leq(Q(0), b), Leq(b, m), Reaches(P, t, b) PROVE F # {}
  BY <1>3, <1>7 DEF Reaches
<1>8. band = Bid!NoRange \/ Spanned
  BY <1>5, <1>6
<1>9. \A b \in Frac : Leq(Q(0), b) /\ Leq(b, m) /\ Reaches(P, t, b) => Spanned
  BY <1>6, <1>7
<1> QED BY <1>8, <1>9 DEF m, band

\* The greatest probability on the pieces is reached at an end, and so is a tenth of the way
\* below it.
LEMMA TenthIs ==
  ASSUME NEW P, IsFiniteSet(P), P \subseteq Pieces, P # {}, \A g \in P : Leq(g.lo, g.hi)
  PROVE  /\ Bid!Tenth(Bid!Least(Bid!Extremes(P)), Bid!Greatest(Bid!Extremes(P))) \in Frac
         /\ \E g \in P : \E b \in {g.lo, g.hi} :
              /\ b \in Frac /\ Within(g, b)
              /\ Leq(Bid!Tenth(Bid!Least(Bid!Extremes(P)), Bid!Greatest(Bid!Extremes(P))), On(g, b))
<1> DEFINE E == Bid!Extremes(P)
           two(g) == {On(g, g.lo), On(g, g.hi)}
           f == [g \in P |-> two(g)]
           sets == {f[g] : g \in P}
           worst == Bid!Least(E)
           best == Bid!Greatest(E)
           t == Bid!Tenth(worst, best)
<1>1. E = UNION sets
  <2>1. sets = {two(g) : g \in P}
    OBVIOUS
  <2>2. sets = {{Bid!WinAt(g, g.lo), Bid!WinAt(g, g.hi)} : g \in P}
    BY <2>1, WinAtIs
  <2> HIDE DEF sets
  <2> QED BY <2>2 DEF Bid!Extremes
<1>2. \A g \in P : g.lo \in Frac /\ g.hi \in Frac /\ On(g, g.lo) \in Frac /\ On(g, g.hi) \in Frac
  <2> SUFFICES ASSUME NEW g \in P
               PROVE  g.lo \in Frac /\ g.hi \in Frac /\ On(g, g.lo) \in Frac /\ On(g, g.hi) \in Frac
    OBVIOUS
  <2>1. g \in Pieces /\ g.lo \in Frac /\ g.hi \in Frac
    BY DEF Pieces
  <2> QED BY <2>1, OnIs
<1>3. IsFiniteSet(E)
  <2>1. IsFiniteSet(sets)
    <3> HIDE DEF f
    <3> QED BY ImageFinite
  <2>2. \A T \in sets : IsFiniteSet(T)
    <3> SUFFICES ASSUME NEW g \in P PROVE IsFiniteSet(two(g))
      OBVIOUS
    <3> DEFINE u == On(g, g.lo)
               v == On(g, g.hi)
    <3>1. two(g) = {u} \cup {v}
      OBVIOUS
    <3> HIDE DEF two, u, v
    <3>2. IsFiniteSet({u}) /\ IsFiniteSet({v})
      BY FS_Singleton
    <3>3. IsFiniteSet({u} \cup {v})
      BY <3>2, FS_Union
    <3> QED BY <3>1, <3>3
  <2> HIDE DEF sets
  <2>3. IsFiniteSet(UNION sets)
    BY <2>1, <2>2, FS_UNION
  <2> QED BY <1>1, <2>3
<1>4. \A e \in E : \E g \in P : e = On(g, g.lo) \/ e = On(g, g.hi)
  <2>1. \A T \in sets : \E g \in P : T = two(g)
    OBVIOUS
  <2> HIDE DEF sets
  <2> QED BY <1>1, <2>1
<1>5. E \subseteq Frac
  <2> HIDE DEF E
  <2> QED BY <1>2, <1>4
<1>6. E # {}
  <2>1. PICK g \in P : TRUE
    OBVIOUS
  <2>2. two(g) \in sets /\ On(g, g.lo) \in two(g)
    OBVIOUS
  <2> HIDE DEF sets, two, E
  <2> QED BY <1>1, <2>2
<1> HIDE DEF E
<1>7. worst \in E /\ best \in E /\ \A e \in E : Leq(worst, e)
  BY <1>3, <1>5, <1>6, LeastIs
<1> HIDE DEF worst, best
<1>8. worst \in Frac /\ best \in Frac /\ Leq(worst, best)
  BY <1>5, <1>7
<1>9. t \in Frac /\ Leq(t, best)
  <2>1. t = Minus(best, Over(Minus(best, worst), Q(10)))
    BY BidArithmetic, BidOperators, BidFraction DEF Bid!Tenth
  <2>2. PICK d \in Nat \ {0}, n \in Int, m \in Int : Stands(worst, n, d) /\ Stands(best, m, d)
    BY <1>8, TwoStand
  <2>3. n <= m
    BY <1>8, <2>2, LeqSameStands
  <2>4. Stands(Minus(best, worst), m - n, d)
    BY <2>2, MinusStands
  <2>5. Stands(Q(10), 10, 1)
    BY SmallFractions
  <2>6. Stands(Over(Minus(best, worst), Q(10)), (m - n) * 1, d * 10)
    <3>1. 10 > 0
      OBVIOUS
    <3> QED BY <2>4, <2>5, <3>1, OverStands
  <2>7. Stands(best, m * 10, d * 10)
    <3>1. 10 \in Nat \ {0}
      OBVIOUS
    <3> QED BY <2>2, <3>1, StandsExtended
  <2>8. Stands(t, m * 10 - (m - n) * 1, d * 10)
    BY <2>1, <2>6, <2>7, MinusStands
  <2>9. m * 10 - (m - n) * 1 <= m * 10
    BY <2>3
  <2> DEFINE x == m * 10 - (m - n) * 1
             y == m * 10
             z == d * 10
  <2> HIDE DEF t, x, y, z
  <2>10. Stands(t, x, z) /\ Stands(best, y, z) /\ x <= y
    BY <2>7, <2>8, <2>9 DEF x, y, z
  <2>11. Leq(t, best)
    BY <2>10, LeqSameStands
  <2> QED BY <2>10, <2>11 DEF Stands
<1>10. PICK g \in P : best = On(g, g.lo) \/ best = On(g, g.hi)
  BY <1>4, <1>7
<1>11. g.lo \in Frac /\ g.hi \in Frac /\ Within(g, g.lo) /\ Within(g, g.hi)
  BY <1>2, LeqOrders DEF Within
<1>12. \E b \in {g.lo, g.hi} : b \in Frac /\ Within(g, b) /\ Leq(t, On(g, b))
  <2> HIDE DEF t
  <2> QED BY <1>9, <1>10, <1>11
<1> QED BY <1>9, <1>12 DEF t, worst, best, E

\* The bands are ordered around the bid and hold only prices that meet every constraint; a safe
\* one wins at 60 % or more.
LEMMA BandsFeasible ==
  ASSUME m3 \in Curves, Falling(m3), m5 \in Bid!Constraints, m6 = Bid!Optimized(m3, m5)
  PROVE  Bid!BandsAreFeasible
<1> DEFINE c == m5
           F == Left(m3, c)
           b == Bid!BestOf(c, F)
           safe == Bid!SafeRange(F, b)
           bold == Bid!AggressiveRange(F)
           sixty == <<60 * Bid!Full, 100>>
           Good(x) == x \in Frac /\ Bid!Verified(m3, c, x)
<1> SUFFICES ASSUME m6.why = "none"
             PROVE  Bid!BandsAreFeasible
  BY Zenon DEF Bid!BandsAreFeasible
<1>1. /\ Bid!Reachable(c) /\ F # {} /\ Bid!Verified(m3, c, b)
      /\ m6 = Bid!Answer(b, safe, bold)
  <2>1. \A why : Bid!Infeasible(why).why = why
    BY DEF Bid!Infeasible
  <2>2. \/ m6 = Bid!Infeasible("margin") \/ m6 = Bid!Infeasible("price")
        \/ m6 = Bid!Infeasible("target") \/ m6 = Bid!Infeasible("check")
        \/ /\ Bid!Reachable(c) /\ F # {} /\ Bid!Verified(m3, c, b)
           /\ m6 = Bid!Answer(b, safe, bold)
    BY OptimizedIs
  <2> HIDE DEF F, b, c, safe, bold
  <2> QED BY <2>1, <2>2
<1> HIDE DEF c
<1>2. c \in Bid!Constraints
  BY DEF c
<1>3. c.margin <= 100
  <2>1. b \in Frac
    <3>1. c.cost + c.reserve \in Int
      BY <1>2, ConstraintsAre
    <3>2. IsFiniteSet(F) /\ F \subseteq Pieces /\ \A g \in F : Leq(g.lo, g.hi) /\ g.slope[1] <= 0
      BY <1>1, <1>2, LeftIs
    <3> HIDE DEF F
    <3> QED BY <1>1, <3>1, <3>2, BestOfIs
  <2> HIDE DEF b
  <2>2. Bid!MarginHolds(c, b) /\ Bid!Leq(Bid!LowerBound(c), b)
    BY <1>1, Zenon DEF Bid!Verified
  <2>3. Leq(Q(Bid!Min(BidGrid)), Bid!LowerBound(c)) /\ Bid!LowerBound(c) \in Frac
    BY <1>1, <1>2, LowerBoundIs
  <2>4. Q(Bid!Min(BidGrid)) \in Frac
    <3>1. Bid!Min(BidGrid) \in Int
      BY GridBounds
    <3> QED BY <3>1, WholeOrder
  <2>5. Leq(Q(Bid!Min(BidGrid)), b)
    BY <2>1, <2>2, <2>3, <2>4, LeqTransitive, BidArithmetic
  <2>6. Positive(b)
    BY <2>1, <2>5, AboveGrid
  <2>7. c.cost = 0 => c.margin <= 100
    BY <1>2, <2>1, <2>2, <2>6, MarginIs
  <2>8. c.margin \in Int
    BY <1>2, ConstraintsAre
  <2> QED BY <1>1, <2>7, <2>8 DEF Bid!Reachable
<1>4. /\ IsFiniteSet(F) /\ F \subseteq Pieces
      /\ \A g \in F : /\ Leq(g.lo, g.hi) /\ g.slope[1] <= 0
                      /\ Leq(Bid!LowerBound(c), g.lo) /\ Leq(g.hi, Bid!UpperBound(c))
  BY <1>1, <1>2, LeftIs
<1>5. ASSUME NEW t, NEW x \in Frac, Reaches(F, t, x) PROVE Good(x)
  BY <1>1, <1>2, <1>3, <1>5, LeftIsVerified DEF Reaches
<1>6. ASSUME NEW t \in Frac, NEW x \in Frac, Reaches(F, t, x)
      PROVE  Leq(t, Bid!WinProbabilityAt(m3, x))
  <2>1. PICK g \in F : Within(g, x) /\ Leq(t, On(g, x))
    BY <1>6 DEF Reaches
  <2>2. /\ Bid!WinProbabilityAt(m3, x) \in Frac /\ Same(Bid!WinProbabilityAt(m3, x), On(g, x))
    BY <1>1, <1>2, <2>1, WonIs
  <2>3. On(g, x) \in Frac
    <3>1. g \in Pieces
      BY <1>4
    <3> QED BY <3>1, OnIs
  <2> QED BY <2>1, <2>2, <2>3, LeqTransitive DEF Same
<1>7. b \in Frac
  <2>1. c.cost + c.reserve \in Int
    BY <1>2, ConstraintsAre
  <2> HIDE DEF F
  <2> QED BY <1>1, <1>4, <2>1, BestOfIs
<1> HIDE DEF b
<1>8. sixty \in Frac
  <2> DEFINE n == 60 * Bid!Full
  <2>1. n \in Int
    <3> DEFINE k == Bid!Full
    <3>1. k \in Nat
      BY SharesAre
    <3> HIDE DEF k
    <3>2. 60 * k \in Int
      BY <3>1
    <3> QED BY <3>2 DEF k
  <2> HIDE DEF n
  <2>2. 100 \in Nat \ {0}
    OBVIOUS
  <2>3. <<n, 100>> \in Frac
    BY <2>1, <2>2, FracIs
  <2> QED BY <2>3 DEF n
<1> HIDE DEF sixty
<1>9. \/ safe = Bid!NoRange
      \/ \E x, y \in Frac : safe = <<x, y>> /\ Reaches(F, sixty, x) /\ Reaches(F, sixty, y)
  <2>1. safe = Bid!RangeFor(F, sixty, b)
    BY DEF Bid!SafeRange, sixty
  <2> HIDE DEF F, safe
  <2> QED BY <1>4, <1>8, <2>1, RangeForIs
<1>10. \E t : \E x, y \in Frac : bold = <<x, y>> /\ Reaches(F, t, x) /\ Reaches(F, t, y)
  <2> DEFINE t == Bid!Tenth(Bid!Least(Bid!Extremes(F)), Bid!Greatest(Bid!Extremes(F)))
             a == Bid!Likeliest(F, Bid!Greatest(Bid!Extremes(F)))
  <2>1. bold = Bid!RangeFor(F, t, a)
    BY DEF Bid!AggressiveRange
  <2>2. /\ t \in Frac
        /\ \E g \in F : \E x \in {g.lo, g.hi} : x \in Frac /\ Within(g, x) /\ Leq(t, On(g, x))
    <3> HIDE DEF F
    <3> QED BY <1>1, <1>4, TenthIs
  <2> HIDE DEF t, a, bold
  <2>3. PICK g \in F : \E x \in {g.lo, g.hi} : x \in Frac /\ Within(g, x) /\ Leq(t, On(g, x))
    BY <2>2
  <2>4. PICK x \in Frac : Within(g, x) /\ Leq(t, On(g, x))
    BY <2>3
  <2>5. Leq(Q(0), x) /\ Leq(x, Q(Bid!Max(BidGrid)))
    <3> DEFINE l == Bid!LowerBound(c)
               u == Bid!UpperBound(c)
               lo == Q(Bid!Min(BidGrid))
               hi == Q(Bid!Max(BidGrid))
    <3>1. /\ l \in Frac /\ u \in Frac /\ Leq(lo, l) /\ Leq(u, hi)
      BY <1>1, <1>2, LowerBoundIs, UpperBoundIs
    <3>2. lo \in Frac /\ hi \in Frac
      <4>1. Bid!Min(BidGrid) \in Int /\ Bid!Max(BidGrid) \in Int
        BY GridBounds
      <4> QED BY <4>1, WholeOrder
    <3>3. Leq(l, g.lo) /\ Leq(g.hi, u) /\ Leq(g.lo, x) /\ Leq(x, g.hi) /\ g.lo \in Frac /\ g.hi \in Frac
      BY <1>4, <2>4 DEF Within, Pieces
    <3> HIDE DEF l, u, lo, hi
    <3>4. Leq(l, x) /\ Leq(x, u)
      BY <3>1, <3>3, LeqTransitive
    <3>5. Leq(lo, x) /\ Leq(x, hi)
      BY <3>1, <3>2, <3>4, LeqTransitive
    <3>6. Leq(Q(0), x)
      BY <3>5, AboveGrid DEF lo
    <3> QED BY <3>5, <3>6 DEF hi
  <2>6. Reaches(F, t, x)
    <3> HIDE DEF F
    <3> QED BY <2>4 DEF Reaches
  <2>7. \E y, z \in Frac : bold = <<y, z>> /\ Reaches(F, t, y) /\ Reaches(F, t, z)
    <3> HIDE DEF F
    <3> QED BY <1>4, <2>1, <2>2, <2>5, <2>6, RangeForIs
  <2> QED BY <2>7
<1> HIDE DEF F, safe, bold
<1>11. /\ m6.bid = b /\ m6.safe = safe /\ m6.bold = bold
       /\ m6.p10 = Lower(b, bold[1])
       /\ m6.p90 = IF safe = Bid!NoRange THEN b ELSE Higher(b, safe[2])
  BY <1>1, BidOperators DEF Bid!Answer
<1>12. PICK t : \E x, y \in Frac : bold = <<x, y>> /\ Reaches(F, t, x) /\ Reaches(F, t, y)
  BY <1>10
<1>13. PICK x \in Frac, y \in Frac : bold = <<x, y>> /\ Reaches(F, t, x) /\ Reaches(F, t, y)
  BY <1>12
<1>14. Good(x) /\ Good(y) /\ bold[1] = x /\ bold[2] = y
  BY <1>5, <1>13
<1>15. Leq(m6.p10, b)
  BY <1>7, <1>11, <1>13, <1>14, HigherLower
<1>16. ASSUME safe # Bid!NoRange
       PROVE  /\ Good(safe[1]) /\ Good(safe[2])
              /\ Leq(sixty, Bid!WinProbabilityAt(m3, safe[1]))
              /\ Leq(sixty, Bid!WinProbabilityAt(m3, safe[2]))
  <2>1. PICK u \in Frac, v \in Frac : safe = <<u, v>> /\ Reaches(F, sixty, u) /\ Reaches(F, sixty, v)
    BY <1>9, <1>16
  <2>2. safe[1] = u /\ safe[2] = v
    BY <2>1
  <2>3. Good(u) /\ Good(v)
    BY <1>5, <2>1
  <2>4. Leq(sixty, Bid!WinProbabilityAt(m3, u)) /\ Leq(sixty, Bid!WinProbabilityAt(m3, v))
    BY <1>6, <1>8, <2>1
  <2> QED BY <2>2, <2>3, <2>4
<1>17. Leq(b, m6.p90)
  <2>1. CASE safe = Bid!NoRange
    BY <1>7, <1>11, <2>1, LeqOrders
  <2>2. CASE safe # Bid!NoRange
    BY <1>7, <1>11, <1>16, <2>2, HigherLower
  <2> QED BY <2>1, <2>2
<1>18. \A range \in {m6.safe, m6.bold} \ {Bid!NoRange} : \A z \in {range[1], range[2]} :
         Bid!Verified(m3, m5, z)
  <2> SUFFICES ASSUME NEW range \in {safe, bold} \ {Bid!NoRange}
               PROVE  Bid!Verified(m3, c, range[1]) /\ Bid!Verified(m3, c, range[2])
    BY <1>11 DEF c
  <2>1. CASE range = safe
    BY <1>16, <2>1
  <2>2. CASE range = bold
    BY <1>14, <2>2
  <2> QED BY <2>1, <2>2
<1>19. m6.safe # Bid!NoRange =>
         \A z \in {m6.safe[1], m6.safe[2]} : Leq(<<60 * Bid!Full, 100>>, Bid!WinProbabilityAt(m3, z))
  BY <1>11, <1>16 DEF sixty
<1>20. Bid!Leq(m6.p10, m6.bid) /\ Bid!Leq(m6.bid, m6.p90)
  BY <1>11, <1>15, <1>17, BidArithmetic
<1> QED BY <1>18, <1>19, <1>20, BidArithmetic DEF Bid!BandsAreFeasible

(***************************************************************************)
(* The simulation: sums over the scenarios drawn.                          *)
(***************************************************************************)
\* A sum of lesser numbers is less.
LEMMA SumsRise ==
  ASSUME NEW S, IsFiniteSet(S), NEW f \in [S -> Int], NEW h \in [S -> Int], NEW g, NEW k,
         IsSum(g, f, S), IsSum(k, h, S), \A x \in S : f[x] <= h[x]
  PROVE  g[S] \in Int /\ k[S] \in Int /\ g[S] <= k[S]
<1> DEFINE Bad == {n \in Nat : \E s \in SUBSET S : Cardinality(s) = n /\ ~(g[s] <= k[s])}
<1>0. \A s \in SUBSET S : g[s] \in Int /\ k[s] \in Int
  BY DEF IsSum
<1>1. Bad = {}
  <2> SUFFICES ASSUME Bad # {} PROVE FALSE
    OBVIOUS
  <2>1. PICK n \in Bad : \A j \in Bad : n <= j
    <3>1. Bad \subseteq Nat
      OBVIOUS
    <3> HIDE DEF Bad
    <3> QED BY <3>1, LeastExists
  <2>2. PICK s \in SUBSET S : Cardinality(s) = n /\ ~(g[s] <= k[s])
    OBVIOUS
  <2>3. CASE s = {}
    <3>1. g[s] = 0 /\ k[s] = 0
      BY <2>3 DEF IsSum
    <3> QED BY <2>2, <3>1
  <2>4. CASE s # {}
    <3>1. PICK x \in s : TRUE
      BY <2>4
    <3> DEFINE r == s \ {x}
    <3>2. g[s] = f[x] + g[r] /\ k[s] = h[x] + k[r]
      BY <3>1 DEF IsSum
    <3>3. r \in SUBSET S /\ Cardinality(r) \in Nat /\ n \in Nat /\ ~(n <= Cardinality(r))
      <4>1. r \in SUBSET S /\ Cardinality(r) \in Nat /\ Cardinality(r) < Cardinality(s)
            /\ Cardinality(s) \in Nat
        BY <3>1, SmallerWithout
      <4>2. Cardinality(s) = n
        BY <2>2
      <4> HIDE DEF r, Bad
      <4> QED BY <4>1, <4>2
    <3>4. g[r] <= k[r]
      BY <2>1, <3>3
    <3> HIDE DEF r
    <3>5. f[x] \in Int /\ h[x] \in Int /\ f[x] <= h[x] /\ g[r] \in Int /\ k[r] \in Int
      BY <1>0, <3>1, <3>3
    <3>6. g[s] <= k[s]
      BY <3>2, <3>4, <3>5
    <3> QED BY <2>2, <3>6
  <2> QED BY <2>3, <2>4
<1>2. Cardinality(S) \in Nat /\ S \in SUBSET S
  BY FS_CardinalityType
<1>3. g[S] <= k[S]
  BY <1>1, <1>2
<1> QED BY <1>0, <1>2, <1>3

\* The sum of a number for each member of a part.
LEMMA PartSum ==
  ASSUME NEW S, IsFiniteSet(S), NEW A, NEW c \in Int
  PROVE  IsSum([s \in SUBSET S |-> c * Cardinality(s \cap A)],
               [x \in S |-> IF x \in A THEN c ELSE 0], S)
<1> DEFINE g == [s \in SUBSET S |-> c * Cardinality(s \cap A)]
           f == [x \in S |-> IF x \in A THEN c ELSE 0]
<1>1. \A s \in SUBSET S : IsFiniteSet(s \cap A) /\ Cardinality(s \cap A) \in Nat
  <2> SUFFICES ASSUME NEW s \in SUBSET S
               PROVE  IsFiniteSet(s \cap A) /\ Cardinality(s \cap A) \in Nat
    OBVIOUS
  <2>1. s \cap A \subseteq S
    OBVIOUS
  <2> QED BY <2>1, FS_Subset, FS_CardinalityType
<1>2. g \in [SUBSET S -> Int]
  BY <1>1
<1>3. g[{}] = 0
  <2>1. {} \cap A = {} /\ Cardinality({}) = 0
    BY FS_EmptySet
  <2>2. g[{}] = c * Cardinality({} \cap A)
    OBVIOUS
  <2> HIDE DEF g
  <2> QED BY <2>1, <2>2
<1>4. ASSUME NEW s \in SUBSET S, NEW x \in s PROVE g[s] = f[x] + g[s \ {x}]
  <2> DEFINE r == s \ {x}
             m == Cardinality(r \cap A)
  <2>0. r \in SUBSET S
    OBVIOUS
  <2>1. g[s] = c * Cardinality(s \cap A) /\ g[r] = c * m /\ m \in Nat
    BY <1>1, <2>0
  <2>2. CASE x \in A
    <3>1. r \cap A = (s \cap A) \ {x} /\ x \in s \cap A
      BY <2>2
    <3>2. m = Cardinality(s \cap A) - 1 /\ Cardinality(s \cap A) \in Nat
      <4>1. IsFiniteSet(s \cap A) /\ Cardinality(s \cap A) \in Nat
        BY <1>1
      <4>2. Cardinality((s \cap A) \ {x}) = Cardinality(s \cap A) - 1
        BY <3>1, <4>1, FS_RemoveElement
      <4> QED BY <3>1, <4>1, <4>2
    <3>3. f[x] = c
      BY <2>2
    <3> HIDE DEF m, r, f, g
    <3>4. c * (m + 1) = c + c * m
      BY <2>1
    <3>5. Cardinality(s \cap A) = m + 1
      BY <2>1, <3>2
    <3> QED BY <2>1, <3>3, <3>4, <3>5 DEF r
  <2>3. CASE x \notin A
    <3>1. r \cap A = s \cap A
      BY <2>3
    <3>2. f[x] = 0
      BY <2>3
    <3>3. g[s] = g[r]
      BY <2>1, <3>1
    <3>4. g[r] \in Int
      BY <1>2, <2>0
    <3> HIDE DEF g, f
    <3> QED BY <3>2, <3>3, <3>4
  <2> QED BY <2>2, <2>3
<1> HIDE DEF g, f
<1>5. IsSum(g, f, S)
  BY <1>2, <1>3, <1>4 DEF IsSum
<1> QED BY <1>5 DEF g, f

\* A share of a credit is no more than the credit.
LEMMA ShareOf ==
  \A n \in Nat : \A d \in Nat \ {0} : n \div d \in Nat /\ n \div d <= n /\ n \div 1 = n
<1> SUFFICES ASSUME NEW n \in Nat, NEW d \in Nat \ {0}
             PROVE  n \div d \in Nat /\ n \div d <= n /\ n \div 1 = n
  OBVIOUS
<1> DEFINE q == n \div d
<1>1. q \in Int /\ q * d <= n /\ n < (q + 1) * d
  BY SMT
<1>2. n \div 1 = n
  BY SMT
<1> HIDE DEF q
<1>3. q >= 0
  <2> SUFFICES ASSUME q + 1 <= 0 PROVE FALSE
    BY <1>1
  <2>1. (q + 1) * d <= 0
    BY <1>1
  <2> QED BY <1>1, <2>1
<1>4. q <= q * d
  BY <1>1, <1>3
<1>5. q <= n
  <2> DEFINE k == q * d
  <2>1. k \in Int /\ q <= k /\ k <= n
    BY <1>1, <1>4
  <2> HIDE DEF k
  <2> QED BY <1>1, <2>1
<1> QED BY <1>1, <1>2, <1>3, <1>5 DEF q

\* Who qualifies, and at what price.
LEMMA QualifiedAre ==
  ASSUME NEW s \in Bid!Scenario
  PROVE  /\ Bid!Qualified(s) \subseteq BidRivals /\ IsFiniteSet(Bid!Qualified(s))
         /\ \A r \in Bid!Qualified(s) : s.rivals[r].bid \in Nat
<1>1. Bid!Qualified(s) \subseteq BidRivals
  BY DEF Bid!Qualified
<1>2. IsFiniteSet(BidRivals) /\ BidOffers \subseteq Nat
  BY BidAssumption
<1>3. \A r \in Bid!Qualified(s) : s.rivals[r].bid \in Nat
  <2> SUFFICES ASSUME NEW r \in Bid!Qualified(s) PROVE s.rivals[r].bid \in Nat
    OBVIOUS
  <2>1. s.rivals \in [BidRivals -> Bid!Draw] /\ r \in BidRivals /\ s.rivals[r].in
    BY DEF Bid!Scenario, Bid!Qualified
  <2>2. s.rivals[r] \in Bid!Draw
    BY <2>1
  <2>3. s.rivals[r] \in [bid : BidOffers, in : {TRUE}, ok : BOOLEAN]
    BY <2>1, <2>2 DEF Bid!Draw
  <2> QED BY <1>2, <2>3
<1>4. IsFiniteSet(Bid!Qualified(s))
  BY <1>1, <1>2, FS_Subset
<1> QED BY <1>1, <1>3, <1>4

\* A number of qualified bids is at most the number of rivals.
LEMMA SomeQualified ==
  ASSUME NEW s \in Bid!Scenario, NEW A, A \subseteq Bid!Qualified(s)
  PROVE  /\ IsFiniteSet(A) /\ Cardinality(A) \in Nat /\ Cardinality(BidRivals) \in Nat
         /\ Cardinality(A) <= Cardinality(BidRivals) /\ (Cardinality(A) = 0 <=> A = {})
<1>1. A \subseteq BidRivals /\ IsFiniteSet(BidRivals)
  <2>1. IsFiniteSet(BidRivals)
    BY BidAssumption
  <2> QED BY <2>1, QualifiedAre
<1>2. IsFiniteSet(A) /\ Cardinality(A) <= Cardinality(BidRivals)
  BY <1>1, FS_Subset
<1> QED BY <1>1, <1>2, FS_CardinalityType, FS_EmptySet

\* A scenario is worth at most a full credit, and no less at a lower bid.
LEMMA WinCreditIs ==
  ASSUME NEW s \in Bid!Scenario, NEW b
  PROVE  /\ Bid!WinCredit(s, b) \in Nat /\ Bid!WinCredit(s, b) <= Bid!Shares
         /\ Bid!WinCredit(s, b) # 0 => s.ok /\ \A r \in Bid!Qualified(s) : s.rivals[r].bid >= b
<1> DEFINE tied == {r \in Bid!Qualified(s) : s.rivals[r].bid = b}
           k == Cardinality(tied)
<1>1. k \in Nat /\ Bid!Shares \in Nat
  <2>1. tied \subseteq Bid!Qualified(s)
    OBVIOUS
  <2> HIDE DEF tied
  <2> QED BY <2>1, SomeQualified, SharesAre
<1>2. Bid!Cardinality(tied) = k
  BY BidCardinality
<1> HIDE DEF k
<1>3. 1 + k \in Nat \ {0}
  BY <1>1
<1>4. Bid!Shares \div (1 + k) \in Nat /\ Bid!Shares \div (1 + k) <= Bid!Shares
  BY <1>1, <1>3, ShareOf
<1>5. Bid!WinCredit(s, b) = IF s.ok /\ \A r \in Bid!Qualified(s) : s.rivals[r].bid >= b
                            THEN Bid!Shares \div (1 + k) ELSE 0
  BY <1>2 DEF Bid!WinCredit
<1>6. CASE s.ok /\ \A r \in Bid!Qualified(s) : s.rivals[r].bid >= b
  BY <1>4, <1>5, <1>6
<1>7. CASE ~(s.ok /\ \A r \in Bid!Qualified(s) : s.rivals[r].bid >= b)
  <2>1. Bid!WinCredit(s, b) = 0
    BY <1>5, <1>7
  <2> QED BY <1>1, <2>1
<1> QED BY <1>6, <1>7

\* A lower bid earns no less.
LEMMA LowerEarnsMore ==
  ASSUME NEW s \in Bid!Scenario, NEW a \in Nat, NEW b \in Nat, a <= b
  PROVE  Bid!WinCredit(s, b) <= Bid!WinCredit(s, a)
<1>0. /\ Bid!WinCredit(s, a) \in Nat /\ Bid!WinCredit(s, b) \in Nat
      /\ Bid!WinCredit(s, b) <= Bid!Shares /\ Bid!Shares \in Nat
  BY WinCreditIs, SharesAre
<1>1. CASE a = b
  BY <1>0, <1>1
<1>2. CASE Bid!WinCredit(s, b) = 0
  BY <1>0, <1>2
<1>3. CASE a # b /\ Bid!WinCredit(s, b) # 0
  <2>1. s.ok /\ \A r \in Bid!Qualified(s) : s.rivals[r].bid >= b /\ s.rivals[r].bid \in Nat
    BY <1>3, WinCreditIs, QualifiedAre
  <2>2. {r \in Bid!Qualified(s) : s.rivals[r].bid = a} = {}
    BY <1>3, <2>1
  <2>3. \A r \in Bid!Qualified(s) : s.rivals[r].bid >= a
    BY <2>1
  <2>4. Bid!Cardinality({}) = 0
    BY BidCardinality, FS_EmptySet
  <2>5. Bid!WinCredit(s, a) = Bid!Shares \div (1 + 0)
    BY <2>1, <2>2, <2>3, <2>4 DEF Bid!WinCredit
  <2>6. Bid!Shares \div 1 = Bid!Shares
    BY <1>0, ShareOf
  <2>7. Bid!WinCredit(s, a) = Bid!Shares
    BY <2>5, <2>6
  <2> QED BY <1>0, <2>7
<1> QED BY <1>1, <1>2, <1>3

\* A rank is 0 or one among the rivals and the operator; a bid that earns ranks first.
LEMMA RankIs ==
  ASSUME NEW s \in Bid!Scenario, NEW b \in Nat
  PROVE  /\ Bid!Rank(s, b) \in 0..(Cardinality(BidRivals) + 1)
         /\ Bid!WinCredit(s, b) # 0 => Bid!Rank(s, b) = 1
<1> DEFINE ahead == {r \in Bid!Qualified(s) : s.rivals[r].bid < b}
           k == Cardinality(ahead)
<1>1. /\ k \in Nat /\ Cardinality(BidRivals) \in Nat /\ k <= Cardinality(BidRivals)
      /\ (k = 0 <=> ahead = {})
  <2>1. ahead \subseteq Bid!Qualified(s)
    OBVIOUS
  <2> HIDE DEF ahead
  <2> QED BY <2>1, SomeQualified
<1>2. Bid!Rank(s, b) = IF s.ok THEN 1 + k ELSE 0
  BY BidCardinality DEF Bid!Rank
<1>3. Bid!WinCredit(s, b) # 0 => s.ok /\ ahead = {}
  BY WinCreditIs, QualifiedAre
<1> HIDE DEF k, ahead
<1>4. Bid!Rank(s, b) \in 0..(Cardinality(BidRivals) + 1)
  BY <1>1, <1>2
<1> QED BY <1>1, <1>2, <1>3, <1>4

\* What a bid earns is the sum over the scenarios.
LEMMA CreditsAreSum ==
  ASSUME NEW sample \in Seq(Bid!Scenario), NEW b
  PROVE  /\ IsFiniteSet(DOMAIN sample) /\ Cardinality(DOMAIN sample) = Len(sample)
         /\ [i \in DOMAIN sample |-> Bid!WinCredit(sample[i], b)] \in [DOMAIN sample -> Int]
         /\ \E g : /\ IsSum(g, [i \in DOMAIN sample |-> Bid!WinCredit(sample[i], b)], DOMAIN sample)
                   /\ Bid!Credits(sample, b) = g[DOMAIN sample]
<1> DEFINE A == DOMAIN sample
           f == [i \in A |-> Bid!WinCredit(sample[i], b)]
           c == [s \in SUBSET A |-> CHOOSE x \in s : TRUE]
           Sum(g) == [s \in SUBSET A |-> IF s = {} THEN 0
                        ELSE Bid!WinCredit(sample[CHOOSE x \in s : TRUE], b)
                               + g[s \ {CHOOSE x \in s : TRUE}]]
           Fold(g) == [s \in SUBSET A |-> IF s = {} THEN 0 ELSE f[c[s]] + g[s \ {c[s]}]]
<1>1. IsFiniteSet(A) /\ Cardinality(A) = Len(sample)
  <2>1. DOMAIN sample = 1..Len(sample) /\ Len(sample) \in Nat /\ Len(sample) \in Int /\ 1 \in Int
    OBVIOUS
  <2> DEFINE n == Len(sample)
  <2> HIDE DEF n
  <2>2. IsFiniteSet(1..n) /\ Cardinality(1..n) = IF 1 > n THEN 0 ELSE n - 1 + 1
    BY <2>1, FS_Interval DEF n
  <2>3. n \in Nat
    BY <2>1 DEF n
  <2>4. Cardinality(1..n) = n
    BY <2>2, <2>3
  <2> QED BY <2>1, <2>2, <2>4 DEF n
<1>2. f \in [A -> Int]
  <2>1. \A i \in A : sample[i] \in Bid!Scenario
    OBVIOUS
  <2>2. \A i \in A : Bid!WinCredit(sample[i], b) \in Int
    BY <2>1, WinCreditIs
  <2> QED BY <2>2
<1>3. Picks(c, A)
  BY DEF Picks
<1>4. \A s \in SUBSET A : s # {} =>
        /\ c[s] \in A /\ f[c[s]] = Bid!WinCredit(sample[CHOOSE x \in s : TRUE], b)
        /\ c[s] = CHOOSE x \in s : TRUE
  OBVIOUS
<1>5. ASSUME NEW g PROVE Sum(g) = Fold(g)
  <2>1. ASSUME NEW s \in SUBSET A
        PROVE  (IF s = {} THEN 0 ELSE Bid!WinCredit(sample[CHOOSE x \in s : TRUE], b)
                                        + g[s \ {CHOOSE x \in s : TRUE}])
                 = (IF s = {} THEN 0 ELSE f[c[s]] + g[s \ {c[s]}])
    BY <1>4
  <2> HIDE DEF f, c
  <2> QED BY <2>1
<1>6. PICK g : SumFold(g, f, c, A) /\ IsSum(g, f, A)
  <2> HIDE DEF f, c
  <2> QED BY <1>1, <1>2, <1>3, SumExists
<1> DEFINE h == CHOOSE h : h = Sum(h)
<1>7. h = Sum(h)
  <2>1. g = Sum(g)
    BY <1>5, <1>6 DEF SumFold
  <2> HIDE DEF Sum
  <2> QED BY <2>1
<1>8. h = g
  <2>1. SumFold(h, f, c, A)
    BY <1>5, <1>7 DEF SumFold
  <2> HIDE DEF h, f, c
  <2> QED BY <1>1, <1>3, <1>6, <2>1, SumIsUnique
<1>9. Bid!Credits(sample, b) = h[A]
  BY Zenon DEF Bid!Credits, Bid!MapThenSumSet, Bid!MapThenFoldSet
<1> HIDE DEF h, f, c
<1>10. IsSum(g, f, A) /\ Bid!Credits(sample, b) = g[A]
  BY <1>6, <1>8, <1>9
<1>11. /\ IsFiniteSet(A) /\ Cardinality(A) = Len(sample) /\ f \in [A -> Int]
       /\ \E k : IsSum(k, f, A) /\ Bid!Credits(sample, b) = k[A]
  BY <1>1, <1>2, <1>10
<1> QED BY <1>11 DEF f

\* Over a sample, a bid earns no more than a lower one.
LEMMA CreditsFall ==
  ASSUME NEW sample \in Seq(Bid!Scenario), NEW a \in Nat, NEW b \in Nat, a <= b
  PROVE  Bid!Credits(sample, b) <= Bid!Credits(sample, a)
<1> DEFINE A == DOMAIN sample
           f == [i \in A |-> Bid!WinCredit(sample[i], b)]
           h == [i \in A |-> Bid!WinCredit(sample[i], a)]
<1>1. PICK g : IsSum(g, f, A) /\ Bid!Credits(sample, b) = g[A]
  BY CreditsAreSum
<1>2. PICK k : IsSum(k, h, A) /\ Bid!Credits(sample, a) = k[A]
  BY CreditsAreSum
<1>3. IsFiniteSet(A) /\ f \in [A -> Int] /\ h \in [A -> Int]
  BY CreditsAreSum
<1>4. \A i \in A : f[i] <= h[i]
  <2>1. \A i \in A : sample[i] \in Bid!Scenario
    OBVIOUS
  <2> QED BY <2>1, LowerEarnsMore
<1> HIDE DEF f, h, A
<1>5. g[A] <= k[A]
  BY <1>1, <1>2, <1>3, <1>4, SumsRise
<1> QED BY <1>1, <1>2, <1>5

\* It earns at most a credit for every scenario in which it ranks first.
LEMMA CreditsBounded ==
  ASSUME NEW sample \in Seq(Bid!Scenario), NEW b \in Nat
  PROVE  /\ Bid!Credits(sample, b) \in 0..(Len(sample) * Bid!Shares)
         /\ Bid!Credits(sample, b)
              <= Bid!Shares * Cardinality({i \in DOMAIN sample : Bid!Rank(sample[i], b) = 1})
<1> DEFINE A == DOMAIN sample
           First == {i \in A : Bid!Rank(sample[i], b) = 1}
           f == [i \in A |-> Bid!WinCredit(sample[i], b)]
           c == Bid!Shares
           none == [i \in A |-> IF i \in A THEN 0 ELSE 0]
           all == [i \in A |-> IF i \in A THEN c ELSE 0]
           won == [i \in A |-> IF i \in First THEN c ELSE 0]
<1>1. PICK g : IsSum(g, f, A) /\ Bid!Credits(sample, b) = g[A]
  BY CreditsAreSum
<1>2. IsFiniteSet(A) /\ f \in [A -> Int] /\ Cardinality(A) = Len(sample)
  BY CreditsAreSum
<1>3. c \in Nat
  BY SharesAre
<1>4. \A i \in A : f[i] \in Nat /\ f[i] <= c /\ (f[i] # 0 => i \in First)
  <2>1. \A i \in A : sample[i] \in Bid!Scenario
    OBVIOUS
  <2>2. ASSUME NEW i \in A PROVE f[i] \in Nat /\ f[i] <= c /\ (f[i] # 0 => i \in First)
    <3>1. sample[i] \in Bid!Scenario /\ f[i] = Bid!WinCredit(sample[i], b)
      BY <2>1
    <3>2. Bid!WinCredit(sample[i], b) \in Nat /\ Bid!WinCredit(sample[i], b) <= c
      BY <3>1, WinCreditIs
    <3>3. Bid!WinCredit(sample[i], b) # 0 => i \in First
      BY <3>1, RankIs
    <3> QED BY <3>1, <3>2, <3>3
  <2> QED BY <2>2
<1> HIDE DEF c, f
<1>5. none \in [A -> Int] /\ all \in [A -> Int] /\ won \in [A -> Int]
  BY <1>3
<1>6. \A i \in A : none[i] <= f[i] /\ f[i] <= all[i] /\ f[i] <= won[i]
  BY <1>3, <1>4
<1> DEFINE gn == [s \in SUBSET A |-> 0 * Cardinality(s \cap A)]
           ga == [s \in SUBSET A |-> c * Cardinality(s \cap A)]
           gw == [s \in SUBSET A |-> c * Cardinality(s \cap First)]
<1>7. IsSum(ga, all, A) /\ IsSum(gw, won, A)
  <2>1. c \in Int
    BY <1>3
  <2> HIDE DEF First, A
  <2>2. IsSum(ga, all, A)
    BY <1>2, <2>1, PartSum, Zenon
  <2>3. IsSum(gw, won, A)
    BY <1>2, <2>1, PartSum, Zenon
  <2> QED BY <2>2, <2>3
<1>8. IsSum(gn, none, A)
  <2>1. 0 \in Int
    OBVIOUS
  <2> QED BY <1>2, <2>1, PartSum
<1>9. A \cap A = A /\ A \cap First = First /\ A \in SUBSET A
  OBVIOUS
<1>10. gn[A] = 0 * Cardinality(A) /\ ga[A] = c * Cardinality(A) /\ gw[A] = c * Cardinality(First)
  <2> HIDE DEF First, A
  <2> QED BY <1>9
<1> HIDE DEF gn, ga, gw, none, all, won, First, A
<1>11. gn[A] <= g[A] /\ g[A] \in Int
  BY <1>1, <1>2, <1>5, <1>6, <1>8, SumsRise
<1>12. g[A] <= ga[A]
  BY <1>1, <1>2, <1>5, <1>6, <1>7, SumsRise
<1>13. g[A] <= gw[A]
  BY <1>1, <1>2, <1>5, <1>6, <1>7, SumsRise
<1>14. Cardinality(A) \in Nat
  BY <1>2, FS_CardinalityType
<1>15. gn[A] = 0 /\ ga[A] = Len(sample) * c
  BY <1>2, <1>3, <1>10, <1>14
<1>16. g[A] \in 0..(Len(sample) * c) /\ g[A] <= c * Cardinality(First)
  <2> DEFINE n == Len(sample) * c
  <2>1. n \in Int
    BY <1>2, <1>3, <1>14
  <2> HIDE DEF n
  <2>2. g[A] \in 0..n
    BY <1>11, <1>12, <1>15, <2>1 DEF n
  <2> QED BY <1>10, <1>13, <2>2 DEF n
<1> QED BY <1>1, <1>16 DEF A, First, c

\* Every scenario gives the operator one rank.
LEMMA RanksPartition ==
  ASSUME NEW sample \in Seq(Bid!Scenario), NEW b \in Nat,
         NEW ranks, ranks = Bid!Simulated(sample, b).ranks
  PROVE  /\ ranks[1] = Cardinality({i \in DOMAIN sample : Bid!Rank(sample[i], b) = 1})
         /\ Bid!Ranked(ranks) = Len(sample)
<1> DEFINE A == DOMAIN sample
           K == 0..(Cardinality(BidRivals) + 1)
           With(s) == {i \in A : Bid!Rank(sample[i], b) \in s}
           f == [k \in K |-> Cardinality({i \in A : Bid!Rank(sample[i], b) = k})]
           g == [s \in SUBSET K |-> Cardinality(With(s))]
           c == [s \in SUBSET K |-> CHOOSE x \in s : TRUE]
           Sum(k) == [s \in SUBSET K |-> IF s = {} THEN 0
                        ELSE ranks[CHOOSE x \in s : TRUE] + k[s \ {CHOOSE x \in s : TRUE}]]
<1>1. ranks = f
  <2>1. Bid!Cardinality(BidRivals) = Cardinality(BidRivals)
        /\ \A k : Bid!Cardinality({i \in A : Bid!Rank(sample[i], b) = k})
                    = Cardinality({i \in A : Bid!Rank(sample[i], b) = k})
    BY BidCardinality
  <2>2. ranks = [k \in 0..(Bid!Cardinality(BidRivals) + 1) |->
                   Bid!Cardinality({i \in A : Bid!Rank(sample[i], b) = k})]
    BY DEF Bid!Simulated
  <2> QED BY <2>1, <2>2
<1>2. IsFiniteSet(A) /\ Cardinality(A) = Len(sample)
  BY CreditsAreSum
<1>3. IsFiniteSet(K) /\ 1 \in K
  <2> DEFINE n == Cardinality(BidRivals) + 1
  <2>1. IsFiniteSet(BidRivals)
    BY BidAssumption
  <2>2. Cardinality(BidRivals) \in Nat
    BY <2>1, FS_CardinalityType
  <2>3. 0 \in Int /\ n \in Int /\ n >= 1
    BY <2>2
  <2> HIDE DEF n
  <2>4. IsFiniteSet(0..n)
    BY <2>3, FS_Interval
  <2>5. 1 \in 0..n
    BY <2>3
  <2> QED BY <2>4, <2>5 DEF n
<1> HIDE DEF K
<1>4. \A s : IsFiniteSet(With(s)) /\ Cardinality(With(s)) \in Nat
  <2> SUFFICES ASSUME NEW s PROVE IsFiniteSet(With(s)) /\ Cardinality(With(s)) \in Nat
    OBVIOUS
  <2>1. With(s) \subseteq A
    OBVIOUS
  <2> HIDE DEF With
  <2> QED BY <1>2, <2>1, FS_Subset, FS_CardinalityType
<1>5. \A k : {i \in A : Bid!Rank(sample[i], b) = k} = With({k})
  OBVIOUS
<1>6. f \in [K -> Int] /\ \A k \in K : f[k] = Cardinality(With({k}))
  <2>1. \A k \in K : f[k] = Cardinality({i \in A : Bid!Rank(sample[i], b) = k})
    OBVIOUS
  <2>2. \A k \in K : f[k] = Cardinality(With({k}))
    BY <1>5, <2>1, Zenon
  <2>3. \A k \in K : Cardinality(With({k})) \in Nat
    BY <1>4, Zenon
  <2>4. f = [k \in K |-> f[k]]
    OBVIOUS
  <2> HIDE DEF f, With
  <2>5. \A k \in K : f[k] \in Int
    <3> SUFFICES ASSUME NEW k \in K PROVE f[k] \in Int
      OBVIOUS
    <3> DEFINE n == Cardinality(With({k}))
    <3>1. f[k] = n /\ n \in Nat
      BY <2>2, <2>3
    <3> HIDE DEF n
    <3> QED BY <3>1
  <2>6. f \in [K -> Int]
    BY <2>4, <2>5
  <2> QED BY <2>2, <2>6
<1>7. g \in [SUBSET K -> Int] /\ g[{}] = 0
  <2>1. With({}) = {}
    OBVIOUS
  <2>2. g[{}] = Cardinality(With({}))
    OBVIOUS
  <2>3. Cardinality({}) = 0
    BY FS_EmptySet
  <2>4. g \in [SUBSET K -> Int]
    <3>1. \A s \in SUBSET K : Cardinality(With(s)) \in Nat
      BY <1>4, Zenon
    <3> HIDE DEF With
    <3>2. \A s \in SUBSET K : Cardinality(With(s)) \in Int
      BY <3>1
    <3> QED BY <3>2
  <2> HIDE DEF g, With
  <2> QED BY <2>1, <2>2, <2>3, <2>4
<1>8. ASSUME NEW s \in SUBSET K, NEW x \in s PROVE g[s] = f[x] + g[s \ {x}]
  <2> DEFINE r == s \ {x}
  <2>1. With(s) = With({x}) \cup With(r) /\ With({x}) \cap With(r) = {}
    OBVIOUS
  <2>2. g[s] = Cardinality(With(s)) /\ g[r] = Cardinality(With(r)) /\ f[x] = Cardinality(With({x}))
    BY <1>6
  <2> DEFINE X == With({x})
             Y == With(r)
  <2>3. IsFiniteSet(X) /\ IsFiniteSet(Y) /\ Cardinality(X) \in Nat /\ Cardinality(Y) \in Nat
    BY <1>4
  <2>4. With(s) = X \cup Y /\ X \cap Y = {}
    BY <2>1
  <2>5. g[s] = Cardinality(With(s)) /\ g[r] = Cardinality(Y) /\ f[x] = Cardinality(X)
    BY <2>2
  <2> HIDE DEF X, Y, With, f, g
  <2>6. Cardinality(X \cup Y) = Cardinality(X) + Cardinality(Y) - Cardinality(X \cap Y)
    BY <2>3, FS_Union
  <2>7. Cardinality(X \cap Y) = 0
    BY <2>4, FS_EmptySet
  <2> QED BY <2>3, <2>4, <2>5, <2>6, <2>7
<1>9. IsSum(g, f, K)
  <2> HIDE DEF f, g
  <2> QED BY <1>7, <1>8 DEF IsSum
<1>10. Picks(c, K)
  BY DEF Picks
<1>11. SumFold(g, f, c, K)
  <2>1. \A s \in SUBSET K : g[s] = IF s = {} THEN 0 ELSE f[c[s]] + g[s \ {c[s]}]
    <3> HIDE DEF f, g, c
    <3> QED BY <1>9, <1>10 DEF IsSum, Picks
  <2>2. g = [s \in SUBSET K |-> g[s]]
    OBVIOUS
  <2> HIDE DEF f, g, c
  <2> QED BY <2>1, <2>2 DEF SumFold
<1>12. ASSUME NEW k PROVE Sum(k) = [s \in SUBSET K |-> IF s = {} THEN 0 ELSE f[c[s]] + k[s \ {c[s]}]]
  <2>1. \A s \in SUBSET K : c[s] = CHOOSE x \in s : TRUE
    OBVIOUS
  <2> HIDE DEF f, c
  <2> QED BY <1>1, <2>1
<1> DEFINE h == CHOOSE h : h = Sum(h)
<1>13. h = Sum(h)
  <2>1. g = Sum(g)
    <3> HIDE DEF Sum, g, f, c
    <3> QED BY <1>11, <1>12 DEF SumFold
  <2> HIDE DEF Sum, g
  <2> QED BY <2>1
<1>14. h = g
  <2>1. SumFold(h, f, c, K)
    <3> HIDE DEF f, c, Sum, h
    <3> QED BY <1>12, <1>13 DEF SumFold
  <2> HIDE DEF h, f, c, g
  <2> QED BY <1>3, <1>10, <1>11, <2>1, SumIsUnique
<1>15. DOMAIN ranks = K
  BY <1>1
<1>16. Bid!Ranked(ranks) = h[K]
  BY <1>15, Zenon DEF Bid!Ranked, Bid!MapThenSumSet, Bid!MapThenFoldSet
<1>17. g[K] = Len(sample)
  <2>1. \A i \in A : Bid!Rank(sample[i], b) \in K
    <3>1. \A i \in A : sample[i] \in Bid!Scenario
      OBVIOUS
    <3> QED BY <3>1, RankIs DEF K
  <2>2. With(K) = A
    BY <2>1
  <2>3. g[K] = Cardinality(With(K))
    OBVIOUS
  <2> HIDE DEF g, With
  <2> QED BY <1>2, <2>2, <2>3
<1> HIDE DEF h, g
<1>18. ranks[1] = Cardinality({i \in A : Bid!Rank(sample[i], b) = 1})
  BY <1>1, <1>3
<1> QED BY <1>14, <1>16, <1>17, <1>18

(***************************************************************************)
(* The run.                                                                *)
(***************************************************************************)
\* A simulation coheres.
LEMMA SimulatedCoheres ==
  ASSUME NEW sample \in Seq(Bid!Scenario), Len(sample) = BidIterations, NEW bid \in BidGrid,
         NEW curve, curve = [x \in BidGrid |-> Bid!Credits(sample, x)],
         NEW proposed, proposed = Bid!Simulated(sample, bid)
  PROVE  /\ curve \in [BidGrid -> 0..Bid!Full] /\ Falling(curve)
         /\ proposed.credits = curve[proposed.bid]
         /\ proposed.credits <= Bid!Shares * proposed.ranks[1]
         /\ Bid!Ranked(proposed.ranks) = BidIterations
<1>1. BidGrid \subseteq Nat
  BY GridBounds
<1>2. Bid!Full = Len(sample) * Bid!Shares
  BY DEF Bid!Full
<1>3. curve \in [BidGrid -> 0..Bid!Full]
  <2>1. \A x \in BidGrid : Bid!Credits(sample, x) \in 0..Bid!Full
    BY <1>1, <1>2, CreditsBounded
  <2> QED BY <2>1
<1>4. Falling(curve)
  <2> SUFFICES ASSUME NEW x \in BidGrid, NEW y \in BidGrid, x <= y PROVE curve[y] <= curve[x]
    BY DEF Falling
  <2>1. Bid!Credits(sample, y) <= Bid!Credits(sample, x)
    BY <1>1, CreditsFall
  <2> QED BY <2>1
<1>5. proposed.bid = bid /\ proposed.credits = Bid!Credits(sample, bid)
  BY DEF Bid!Simulated
<1>6. proposed.credits = curve[proposed.bid]
  BY <1>5
<1> DEFINE ranks == proposed.ranks
<1>7. ranks = Bid!Simulated(sample, bid).ranks
  OBVIOUS
<1>8. bid \in Nat
  BY <1>1
<1>9. /\ ranks[1] = Cardinality({i \in DOMAIN sample : Bid!Rank(sample[i], bid) = 1})
      /\ Bid!Ranked(ranks) = Len(sample)
  <2> HIDE DEF ranks
  <2> QED BY <1>7, <1>8, RanksPartition
<1>10. proposed.credits <= Bid!Shares * ranks[1]
  <2>1. Bid!Credits(sample, bid)
          <= Bid!Shares * Cardinality({i \in DOMAIN sample : Bid!Rank(sample[i], bid) = 1})
    BY <1>8, CreditsBounded
  <2> HIDE DEF ranks
  <2> QED BY <1>5, <1>9, <2>1, Zenon
<1> QED BY <1>3, <1>4, <1>6, <1>9, <1>10

\* What the invariant says of the properties.
LEMMA BidHolds ==
  ASSUME Bid!BidInv
  PROVE  Bid!TypeOK /\ Bid!SimulationCoheres /\ Bid!BestFeasibleBid /\ Bid!BandsAreFeasible
<1>1. Bid!TypeOK /\ Bid!SimulationCoheres
  BY DEF Bid!BidInv
<1>2. CASE m1 # "done"
  BY <1>1, <1>2 DEF Bid!BestFeasibleBid, Bid!BandsAreFeasible
<1>3. CASE m1 = "done"
  <2>1. m3 \in [BidGrid -> 0..Bid!Full] /\ m5 \in Bid!Constraints /\ m6 = Bid!Optimized(m3, m5)
    BY <1>3 DEF Bid!BidInv
  <2>2. m3 # Bid!Nothing
    <3>1. DOMAIN m3 = BidGrid /\ BidGrid # {}
      BY <2>1, BidAssumption
    <3>2. DOMAIN <<>> = {}
      OBVIOUS
    <3> QED BY <3>1, <3>2 DEF Bid!Nothing
  <2>3. Falling(m3)
    BY <1>1, <2>2 DEF Bid!SimulationCoheres, Falling
  <2>4. m3 \in Curves
    <3>1. Bid!Full \in Nat
      BY SharesAre
    <3> QED BY <2>1, <3>1 DEF Curves
  <2> QED BY <1>1, <2>1, <2>3, <2>4, BestIsFeasible, BandsFeasible
<1> QED BY <1>2, <1>3

\* At first nothing is drawn.
LEMMA BidInit == ASSUME Bid!Init PROVE Bid!BidInv
<1>1. BidIterations \in Nat \ {0}
  BY BidAssumption
<1>2. m2 \in Seq(Bid!Scenario) /\ Len(m2) = 0
  BY DEF Bid!Init
<1> QED BY <1>1, <1>2 DEF Bid!Init, Bid!BidInv, Bid!TypeOK, Bid!SimulationCoheres

\* Drawing, simulating and optimizing keep the invariant.
LEMMA BidStep ==
  ASSUME Bid!BidInv, Bid!Next \/ UNCHANGED Bid!vars
  PROVE  Bid!BidInv'
<1>0. Bid!TypeOK /\ BidIterations \in Nat \ {0}
  BY BidAssumption DEF Bid!BidInv
<1>1. ASSUME NEW s \in Bid!Scenario, Bid!DrawScenario(s) PROVE Bid!BidInv'
  <2>1. m1 = "draw" /\ m2' = Append(m2, s) /\ m3' = m3 /\ m4' = m4 /\ m5' = m5 /\ m6' = m6
    BY <1>1 DEF Bid!DrawScenario
  <2>2. m1' = IF Len(m2') = BidIterations THEN "simulate" ELSE "draw"
    BY <1>1 DEF Bid!DrawScenario
  <2>3. m2 \in Seq(Bid!Scenario) /\ Len(m2) < BidIterations /\ m3 = Bid!Nothing /\ m4 = Bid!Nothing
        /\ (m5 = Bid!Nothing \/ m5 \in Bid!Constraints)
    BY <2>1 DEF Bid!BidInv, Bid!TypeOK
  <2>4. m2' \in Seq(Bid!Scenario) /\ Len(m2') = Len(m2) + 1 /\ Len(m2) \in Nat
    BY <2>1, <2>3
  <2>5. Len(m2') <= BidIterations /\ (m1' = "draw" => Len(m2') < BidIterations)
        /\ (m1' = "simulate" => Len(m2') = BidIterations) /\ m1' \in {"simulate", "draw"}
    BY <1>0, <2>2, <2>3, <2>4
  <2>6. m3' = Bid!Nothing /\ m4' = Bid!Nothing /\ (m5' = Bid!Nothing \/ m5' \in Bid!Constraints)
    BY <2>1, <2>3
  <2>7. Bid!SimulationCoheres'
    BY <2>6 DEF Bid!SimulationCoheres, Bid!Nothing
  <2>8. Bid!TypeOK'
    BY <2>4, <2>5, <2>6 DEF Bid!TypeOK, Bid!Nothing
  <2> QED BY <2>5, <2>6, <2>7, <2>8 DEF Bid!BidInv
<1>2. ASSUME NEW bid \in BidGrid, Bid!Simulate(bid) PROVE Bid!BidInv'
  <2>1. /\ m1 = "simulate" /\ m1' = "optimize" /\ m2' = <<>> /\ m5' = m5 /\ m6' = m6
        /\ m3' = [x \in BidGrid |-> Bid!Credits(m2, x)] /\ m4' = Bid!Simulated(m2, bid)
    BY <1>2 DEF Bid!Simulate
  <2>2. m2 \in Seq(Bid!Scenario) /\ Len(m2) = BidIterations
        /\ (m5 = Bid!Nothing \/ m5 \in Bid!Constraints)
    BY <2>1 DEF Bid!BidInv, Bid!TypeOK
  <2>3. /\ m3' \in [BidGrid -> 0..Bid!Full] /\ Falling(m3')
        /\ m4'.credits = m3'[m4'.bid]
        /\ m4'.credits <= Bid!Shares * m4'.ranks[1]
        /\ Bid!Ranked(m4'.ranks) = BidIterations
    BY <2>1, <2>2, SimulatedCoheres
  <2>4. Bid!SimulationCoheres'
    BY <2>3 DEF Bid!SimulationCoheres, Falling
  <2>5. m2' \in Seq(Bid!Scenario) /\ Len(m2') = 0 /\ Len(m2') <= BidIterations
    BY <1>0, <2>1
  <2>6. Bid!TypeOK'
    BY <2>1, <2>2, <2>3, <2>5 DEF Bid!TypeOK, Bid!Nothing
  <2> QED BY <2>1, <2>3, <2>4, <2>6 DEF Bid!BidInv
<1>3. ASSUME NEW c \in Bid!Constraints, Bid!Optimize(c) PROVE Bid!BidInv'
  <2>1. /\ m1 = "optimize" /\ m1' = "done" /\ m2' = m2 /\ m3' = m3 /\ m4' = Bid!Nothing
        /\ m5' = c /\ m6' = Bid!Optimized(m3, c)
    BY <1>3 DEF Bid!Optimize
  <2>2. m3 \in [BidGrid -> 0..Bid!Full] /\ Bid!SimulationCoheres
    BY <2>1 DEF Bid!BidInv
  <2>3. Bid!SimulationCoheres'
    BY <2>1, <2>2 DEF Bid!SimulationCoheres
  <2>4. Bid!TypeOK'
    BY <1>0, <2>1 DEF Bid!TypeOK
  <2>5. m6' = Bid!Optimized(m3', m5') /\ m3' \in [BidGrid -> 0..Bid!Full]
    BY <2>1, <2>2
  <2> QED BY <2>1, <2>3, <2>4, <2>5 DEF Bid!BidInv
<1>4. ASSUME UNCHANGED Bid!vars PROVE Bid!BidInv'
  <2>1. m1' = m1 /\ m2' = m2 /\ m3' = m3 /\ m4' = m4 /\ m5' = m5 /\ m6' = m6
    BY <1>4 DEF Bid!vars
  <2>2. Bid!TypeOK'
    BY <1>0, <2>1 DEF Bid!TypeOK
  <2>3. Bid!SimulationCoheres'
    BY <2>1 DEF Bid!SimulationCoheres, Bid!BidInv
  <2>4. Bid!Optimized(m3, m5)' = Bid!Optimized(m3, m5)
    BY <2>1
  <2> QED BY <2>1, <2>2, <2>3, <2>4 DEF Bid!BidInv
<1> QED BY <1>1, <1>2, <1>3, <1>4 DEF Bid!Next

-----------------------------------------------------------------------------
(***************************************************************************)
(* The price models together: a step is one of the component that `model`  *)
(* names, or leaves the variables of that component alone.                 *)
(***************************************************************************)
\* The invariant of the component at work.
PriceInv ==
  /\ model = "bid" => Bid!BidInv
  /\ model = "market" => Market!BandInv
  /\ model = "competitor" => Competitor!PoolingInv
  /\ model = "candidates" => Candidates!ReportInv
  /\ model = "explained" => Explained!ShownInv
  /\ model = "review" => Review!ReviewInv

\* The initial states.
LEMMA PriceStarts == ASSUME PriceInit PROVE PriceInv
<1>1. model = "bid" => Bid!BidInv
  BY BidInit DEF PriceInit
<1>2. model = "market" => Market!BandInv
  BY MarketInit DEF PriceInit
<1>3. model = "competitor" => Competitor!PoolingInv
  BY RivalInit DEF PriceInit
<1>4. model = "candidates" => Candidates!ReportInv
  BY PastInit DEF PriceInit
<1>5. model = "explained" => Explained!ShownInv
  BY ExplainedInit DEF PriceInit
<1>6. model = "review" => Review!ReviewInv
  BY ReviewInit DEF PriceInit
<1> QED BY <1>1, <1>2, <1>3, <1>4, <1>5, <1>6 DEF PriceInv

\* The steps, by the component at work.
LEMMA PriceSteps == ASSUME PriceInv, [PriceNext]_prices PROVE PriceInv'
<1>0. model' = model
  BY DEF PriceNext, prices
<1>1. ASSUME model = "bid" PROVE Bid!BidInv'
  <2>1. [Bid!Next]_(Bid!vars)
    BY <1>1 DEF PriceNext, prices, Bid!vars
  <2> QED BY <1>1, <2>1, BidStep DEF PriceInv, Bid!vars
<1>2. ASSUME model = "market" PROVE Market!BandInv'
  <2>1. [Market!Next]_(Market!vars)
    BY <1>2 DEF PriceNext, prices, Market!vars
  <2> QED BY <1>2, <2>1, MarketStep DEF PriceInv, Market!vars
<1>3. ASSUME model = "competitor" PROVE Competitor!PoolingInv'
  <2>1. [Competitor!Next]_(Competitor!vars)
    BY <1>3 DEF PriceNext, prices, Competitor!vars
  <2> QED BY <1>3, <2>1, RivalStep DEF PriceInv, Competitor!vars
<1>4. ASSUME model = "candidates" PROVE Candidates!ReportInv'
  <2>1. [Candidates!Next]_(Candidates!vars)
    BY <1>4 DEF PriceNext, prices, Candidates!vars
  <2> QED BY <1>4, <2>1, PastStep DEF PriceInv, Candidates!vars
<1>5. ASSUME model = "explained" PROVE Explained!ShownInv'
  <2>1. [Explained!Next]_(Explained!vars)
    BY <1>5 DEF PriceNext, prices, Explained!vars
  <2> QED BY <1>5, <2>1, ExplainedStep DEF PriceInv, Explained!vars
<1>6. ASSUME model = "review" PROVE Review!ReviewInv'
  <2>1. [Review!Next]_(Review!vars)
    BY <1>6 DEF PriceNext, prices, Review!vars
  <2> QED BY <1>6, <2>1, ReviewStep DEF PriceInv, Review!vars
<1> QED BY <1>0, <1>1, <1>2, <1>3, <1>4, <1>5, <1>6 DEF PriceInv

\* In every reachable state of the price models the one at work keeps its invariant, whatever
\* its bounds and its inputs.
THEOREM PriceIsInvariant == PriceSpec => []PriceInv
BY PriceStarts, PriceSteps, PTL DEF PriceSpec

\* What every price model holds is of its type.
THEOREM PriceTypes == PriceSpec => []PriceTypeOK
<1>1. PriceInv /\ model = "review" => Review!TypeOK
  <2> SUFFICES ASSUME Review!ReviewInv PROVE Review!TypeOK
    BY DEF PriceInv
  <2>1. Parsed(m1) /\ (m2 # Review!NotReviewed => m2 = Review!Reviewed(m1)) /\ m1 \in ReviewSheets
    BY ReviewedOrNot DEF Review!ReviewInv
  <2> QED BY <2>1, FindingsAreOnTheSheet DEF Review!TypeOK
<1>2. PriceInv => PriceTypeOK
  BY <1>1 DEF PriceInv, PriceTypeOK, Bid!BidInv, Market!BandInv, Competitor!PoolingInv,
              Candidates!ReportInv, Explained!ShownInv
<1> QED BY <1>2, PriceIsInvariant, PTL

\* The bid that the optimizer returns meets every constraint, none that does has a better
\* expected contribution, a refusal means that there is none, and the bands and the simulation
\* behind it are true to the curve (optimizer.py, montecarlo.py).
THEOREM BidIsBest == PriceSpec => []BestBidIsFeasible
<1>1. PriceInv => BestBidIsFeasible
  BY BidHolds DEF PriceInv, BestBidIsFeasible
<1> QED BY <1>1, PriceIsInvariant, PTL

\* The market band is ordered, within its sample, and moved by every point of it, the
\* competitor's band is honest about its two samples, and the facts shown behind a band are on
\* record (market.py, competitor.py, explain.py).
THEOREM BandsHonest == PriceSpec => []BandsAreHonest
<1>1. PriceInv => BandsAreHonest
  BY DEF PriceInv, BandsAreHonest, Market!BandInv, Competitor!PoolingInv, Explained!ShownInv
<1> QED BY <1>1, PriceIsInvariant, PTL

\* The calibration measures the model that is served (participation.py).
THEOREM CalibrationIsHonest == PriceSpec => []CalibratesWhatIsServed
<1>1. PriceInv => CalibratesWhatIsServed
  BY CalibrationIsServed DEF PriceInv, CalibratesWhatIsServed
<1> QED BY <1>1, PriceIsInvariant, PTL

\* The review of any sheet finds the same in the sheet read backwards, but for the lines that
\* only the matcher of texts brings together; no pair is accused both ways, and the capacity
\* that is called inverted is larger at a lower price (boq_review.py).
THEOREM ReviewSound == PriceSpec => []ReviewIsSound
<1>1. PriceInv => ReviewIsSound
  BY ReviewFair, ReviewInversionsReal DEF PriceInv, ReviewIsSound
<1> QED BY <1>1, PriceIsInvariant, PTL
=============================================================================
