-------------------------- MODULE WorkspaceProofs --------------------------
(***************************************************************************)
(* Proofs about the workspace: a capability level that was earned          *)
(* (LadderIsEarned), at most one current scenario (OneHead), a scorecard   *)
(* that is blind (AccuracyIsBlind), baselines that are counted and         *)
(* simulations that are measured (DeskIsMeasured), and reminders that      *)
(* reach their reader in one message (RemindersReachOnce).                 *)
(*                                                                         *)
(* A behaviour follows one component, named by focus, which no step        *)
(* changes.  For each component there are a lemma that its initial states  *)
(* satisfy the inductive invariant its module states, a lemma that its     *)
(* steps preserve it, with one lemma per action before it where the action *)
(* needs one, and a lemma that it implies the properties.  v1 .. v12 hold  *)
(* the component's variables, in the order of their declaration.           *)
(***************************************************************************)
EXTENDS Workspace, SequenceTheorems, FiniteSetTheorems, WellFoundedInduction, TLAPS

\* A set of numbers with a bound has a largest member.
LEMMA LargestExists ==
  ASSUME NEW n \in Nat, NEW S, S \subseteq 0..n, S # {}
  PROVE  \E x \in S : \A y \in S : y <= x
<1> DEFINE T == {n - x : x \in S}
<1>1. T \subseteq Nat
  <2> SUFFICES ASSUME NEW x \in S PROVE n - x \in Nat
    BY Zenon
  <2>1. x \in 0..n
    OBVIOUS
  <2> QED BY <2>1
<1>2. T # {}
  BY Zenon
<1>3. PICK m \in T : \A y \in T : ~(<<y, m>> \in OpToRel(<, Nat))
  <2> HIDE DEF T
  <2> QED BY <1>1, <1>2, NatLessThanWellFounded, WFMin
<1>4. \A y \in T : m <= y
  <2> HIDE DEF T
  <2> SUFFICES ASSUME NEW y \in T PROVE m <= y
    OBVIOUS
  <2>1. m \in Nat /\ y \in Nat
    BY <1>1, <1>3
  <2>2. ~(y < m)
    BY <1>3, <2>1 DEF OpToRel
  <2> QED BY <2>1, <2>2
<1>5. PICK x \in S : m = n - x
  OBVIOUS
<1>6. ASSUME NEW y \in S PROVE y <= x
  <2>1. n - y \in T /\ x \in 0..n /\ y \in 0..n
    OBVIOUS
  <2> QED BY <1>4, <1>5, <2>1
<1> QED BY <1>6

\* A finite set of numbers has a largest member.
LEMMA FiniteHasLargest ==
  ASSUME NEW S \in SUBSET Nat, IsFiniteSet(S), S # {}
  PROVE  \E x \in S : \A y \in S : y <= x
<1> DEFINE Bad(T) == T # {} /\ \A x \in T : \E y \in T : ~(y <= x)
           C == {n \in Nat : \E T \in SUBSET S : Bad(T) /\ Cardinality(T) = n}
<1> SUFFICES ASSUME Bad(S) PROVE FALSE
  OBVIOUS
<1>1. \A T \in SUBSET S : IsFiniteSet(T) /\ Cardinality(T) \in Nat
  BY FS_Subset, FS_CardinalityType
<1>2. C # {}
  BY <1>1
<1>3. PICK m \in C : \A n \in C : ~(<<n, m>> \in OpToRel(<, Nat))
  <2>1. C \subseteq Nat
    OBVIOUS
  <2> HIDE DEF C
  <2> QED BY <1>2, <2>1, NatLessThanWellFounded, WFMin
<1>4. PICK T \in SUBSET S : Bad(T) /\ Cardinality(T) = m
  OBVIOUS
<1>5. PICK x \in T : TRUE
  BY <1>4
<1> DEFINE U == T \ {x}
<1>6. U \in SUBSET S /\ Cardinality(U) \in Nat /\ Cardinality(U) = m - 1 /\ m \in Nat
  BY <1>1, <1>4, <1>5, FS_RemoveElement
<1>7. Cardinality(U) < m
  <2> HIDE DEF U
  <2> QED BY <1>6
<1>8. ~Bad(U)
  <2> SUFFICES ASSUME Bad(U) PROVE FALSE
    OBVIOUS
  <2>1. Cardinality(U) \in C
    BY <1>6
  <2>2. <<Cardinality(U), m>> \in OpToRel(<, Nat)
    <3> HIDE DEF U
    <3> QED BY <1>6, <1>7 DEF OpToRel
  <2> QED BY <1>3, <2>1, <2>2
<1>9. \A a, b \in T : a \in Nat /\ b \in Nat
  OBVIOUS
<1>10. CASE U = {}
  <2>1. T = {x}
    BY <1>5, <1>10
  <2> QED BY <1>4, <1>9, <2>1
<1>11. CASE U # {}
  <2>1. PICK y \in U : \A z \in U : z <= y
    BY <1>8, <1>11
  <2>2. CASE x <= y
    BY <1>4, <1>9, <2>1, <2>2
  <2>3. CASE ~(x <= y)
    <3>1. y <= x
      BY <1>5, <1>9, <2>3
    <3>2. \A z \in T : z <= x
      BY <1>5, <1>9, <2>1, <3>1
    <3> QED BY <1>4, <1>5, <3>2
  <2> QED BY <2>2, <2>3
<1> QED BY <1>10, <1>11

-----------------------------------------------------------------------------
(***************************************************************************)
(* PriceToWin: the level that is served was earned.  v1 .. v11 are stage,  *)
(* ask, caps, market, field, level, row, curve, result, tested and answer. *)
(***************************************************************************)
LadderCaps == [stage : Pipeline!Stages, ceiling : 0..4]

\* The level served is one of those it is drawn from, and above none of them.
LEMMA CappedIs ==
  ASSUME Pipeline!TypeOK
  PROVE  /\ Pipeline!Capped \in 0..4 /\ Pipeline!Capped <= v6
         /\ \A d \in v3 : Pipeline!Capped <= d.ceiling
         /\ Pipeline!Capped = v6 \/ \E d \in v3 : Pipeline!Capped = d.ceiling
<1> DEFINE S == {v6} \cup {d.ceiling : d \in v3}
           T == {4 - x : x \in S}
<1>1. S \subseteq 0..4 /\ v6 \in S
  BY DEF Pipeline!TypeOK, Pipeline!Ceilings
<1> HIDE DEF S
<1>2. T \subseteq 0..4 /\ T # {}
  <2>1. \A x \in 0..4 : 4 - x \in 0..4
    OBVIOUS
  <2>2. T \subseteq 0..4
    BY <1>1, <2>1
  <2>3. 4 - v6 \in T
    BY <1>1
  <2> QED BY <2>2, <2>3
<1>3. PICK y \in T : \A z \in T : z <= y
  <2> HIDE DEF T
  <2> QED BY <1>2, LargestExists
<1>4. PICK x \in S : y = 4 - x
  OBVIOUS
<1>5. \A z \in S : x <= z
  <2> SUFFICES ASSUME NEW z \in S PROVE x <= z
    OBVIOUS
  <2>1. 4 - z \in T /\ x \in 0..4 /\ z \in 0..4
    BY <1>1
  <2>2. 4 - z <= 4 - x
    BY <1>3, <1>4, <2>1
  <2> QED BY <2>1, <2>2
<1>6. Pipeline!Min(S) \in S /\ \A z \in S : Pipeline!Min(S) <= z
  BY <1>5 DEF Pipeline!Min
<1>7. Pipeline!Capped = Pipeline!Min(S)
  BY DEF Pipeline!Capped, S
<1> QED BY <1>1, <1>6, <1>7 DEF S

\* Of two levels the larger.
LEMMA LargerIs ==
  ASSUME NEW a \in 0..4, NEW b \in 0..4
  PROVE  /\ Pipeline!Max({a, b}) \in {a, b} /\ a <= Pipeline!Max({a, b})
         /\ Pipeline!Max({a, b}) \in 0..4
<1>1. \E x \in {a, b} : \A y \in {a, b} : x >= y
  OBVIOUS
<1>2. Pipeline!Max({a, b}) \in {a, b} /\ \A y \in {a, b} : Pipeline!Max({a, b}) >= y
  BY <1>1 DEF Pipeline!Max
<1> QED BY <1>2

\* One more failure: those there were, and this one.
LEMMA DegradedIs ==
  ASSUME NEW at \in Pipeline!Stages, NEW ceiling \in 0..4, v3 \subseteq LadderCaps,
         v3' = v3 \/ Pipeline!Degraded(at, ceiling)
  PROVE  /\ v3' \subseteq LadderCaps /\ v3 \subseteq v3'
         /\ \A d \in v3' : d \in v3 \/ (d.stage = at /\ d.ceiling = ceiling)
BY DEF Pipeline!Degraded, LadderCaps

LEMMA LadderTyped ==
  ASSUME Pipeline!LadderInv
  PROVE  v3 \subseteq LadderCaps /\ v6 \in 0..4 /\ Pipeline!TypeOK
BY DEF Pipeline!LadderInv, Pipeline!TypeOK, LadderCaps, Pipeline!Ceilings

LEMMA LadderInit == ASSUME Pipeline!Init PROVE Pipeline!LadderInv
<1>1. Pipeline!TypeOK
  <2>1. v1 \in Pipeline!Stages /\ v2 \in Pipeline!Asked /\ v3 = {} /\ DOMAIN v5 = {}
    BY DEF Pipeline!Init, Pipeline!Stages
  <2>2. v11.level \in 0..4 /\ v11.prediction \in {"none", "numbers", "suppressed"}
    BY DEF Pipeline!Init, Pipeline!NoAnswer
  <2>3. v4 = "none" /\ v6 = 0 /\ v7 = "none" /\ v9 = "none" /\ v10 = "none"
    BY DEF Pipeline!Init
  <2>4. v8 \in BOOLEAN
    BY DEF Pipeline!Init
  <2> QED BY <2>1, <2>2, <2>3, <2>4 DEF Pipeline!TypeOK
<1> QED BY <1>1 DEF Pipeline!Init, Pipeline!Failed, Pipeline!LadderInv, Pipeline!CapsFit, Pipeline!Worth,
        Pipeline!Reached, Pipeline!NothingUnsaid, Pipeline!LevelIsEarned, Pipeline!NumbersHaveAField

\* A step before the answer that leaves the field alone, and may add a failure.
LEMMA LadderKept ==
  ASSUME Pipeline!LadderInv, UNCHANGED <<v2, v4, v5, v11>>,
         NEW at \in Pipeline!Stages, NEW ceiling \in 0..4,
         v3' = v3 \/ Pipeline!Degraded(at, ceiling),
         at \in {"similarity", "market"} <=> ceiling = 0,
         at \in {"participation", "optimizer"} => ceiling = 1, at = "competitor" => ceiling = 2,
         at # "market", v1 # "done", v1' # "done", v6' \in 0..4, v6' <= v6,
         v4 = "priced" /\ v6' = 0 => Pipeline!Failed("similarity")
  PROVE  /\ v3' \subseteq LadderCaps /\ v3 \subseteq v3'
         /\ Pipeline!CapsFit' /\ Pipeline!Worth(v6)' /\ Pipeline!LevelIsEarned'
         /\ Pipeline!NumbersHaveAField'
         /\ v4 = "priced" => ~Pipeline!Failed("market")' /\ (v6' = 0 => Pipeline!Failed("similarity")')
<1>1. /\ v3' \subseteq LadderCaps /\ v3 \subseteq v3'
      /\ \A d \in v3' : d \in v3 \/ (d.stage = at /\ d.ceiling = ceiling)
  BY DegradedIs, LadderTyped
<1>2. Pipeline!CapsFit'
  BY <1>1 DEF Pipeline!LadderInv, Pipeline!CapsFit
<1>3. Pipeline!Worth(v6)'
  <2>1. \A n \in 1..4 : v6' >= n => v6 >= n
    BY LadderTyped
  <2>2. v6' = 4 => v6 = 4
    BY LadderTyped
  <2> QED BY <2>1, <2>2 DEF Pipeline!LadderInv, Pipeline!Worth, Pipeline!Priced
<1>4. v4 = "priced" => ~Pipeline!Failed("market")' /\ (v6' = 0 => Pipeline!Failed("similarity")')
  BY <1>1 DEF Pipeline!LadderInv, Pipeline!NothingUnsaid, Pipeline!Failed
<1> QED BY <1>1, <1>2, <1>3, <1>4 DEF Pipeline!LevelIsEarned, Pipeline!NumbersHaveAField

\* Retrieval and candidates that fail.
LEMMA LadderRetrieves ==
  ASSUME Pipeline!LadderInv, NEW ok \in BOOLEAN,
         Pipeline!FindSimilar(ok) \/ Pipeline!CandidatesFail
  PROVE  Pipeline!LadderInv'
<1>0. v6 \in 0..4 /\ Pipeline!TypeOK /\ "similarity" \in Pipeline!Stages
      /\ "participation" \in Pipeline!Stages
  BY LadderTyped DEF Pipeline!Stages
<1>1. UNCHANGED <<v2, v4, v5, v6, v7, v8, v9, v10, v11>>
  BY DEF Pipeline!FindSimilar, Pipeline!CandidatesFail
<1>2. CASE Pipeline!FindSimilar(ok)
  <2>1. v1 = "similarity" /\ v1' = "market" /\ (v3' = v3 \/ Pipeline!Degraded("similarity", 0))
    BY <1>2 DEF Pipeline!FindSimilar
  <2>2. v4 = "none" /\ v6 = 0 /\ v9 = "none" /\ ~Pipeline!Failed("market")
    BY <2>1 DEF Pipeline!LadderInv, Pipeline!Reached, Pipeline!Stages
  <2>3. /\ v3' \subseteq LadderCaps /\ Pipeline!CapsFit' /\ Pipeline!Worth(v6)'
        /\ Pipeline!LevelIsEarned' /\ Pipeline!NumbersHaveAField'
    BY <1>0, <1>1, <2>1, <2>2, LadderKept
  <2>4. ~Pipeline!Failed("market")'
    BY <2>1, <2>2 DEF Pipeline!Failed, Pipeline!Degraded
  <2>5. Pipeline!Reached' /\ Pipeline!NothingUnsaid'
    BY <1>1, <2>1, <2>2, <2>4 DEF Pipeline!Reached, Pipeline!NothingUnsaid
  <2>6. Pipeline!TypeOK'
    BY <1>0, <1>1, <2>1, <2>3 DEF Pipeline!TypeOK, LadderCaps, Pipeline!Ceilings, Pipeline!Stages
  <2> QED BY <2>3, <2>5, <2>6 DEF Pipeline!LadderInv
<1>3. CASE Pipeline!CandidatesFail
  <2>1. v1 = "participation" /\ v1' = "explanation" /\ Pipeline!Degraded("participation", 1)
    BY <1>3 DEF Pipeline!CandidatesFail
  <2>2. v4 = "priced" /\ v9 = "none" /\ (v6 = 0 => Pipeline!Failed("similarity"))
    BY <2>1 DEF Pipeline!LadderInv, Pipeline!Reached, Pipeline!Stages, Pipeline!NothingUnsaid
  <2>3. /\ v3' \subseteq LadderCaps /\ Pipeline!CapsFit' /\ Pipeline!Worth(v6)'
        /\ Pipeline!LevelIsEarned' /\ Pipeline!NumbersHaveAField'
        /\ ~Pipeline!Failed("market")' /\ (v6' = 0 => Pipeline!Failed("similarity")')
    BY <1>0, <1>1, <2>1, <2>2, LadderKept
  <2>4. Pipeline!Reached' /\ Pipeline!NothingUnsaid'
    BY <1>1, <2>1, <2>2, <2>3 DEF Pipeline!Reached, Pipeline!NothingUnsaid
  <2>5. Pipeline!TypeOK'
    BY <1>0, <1>1, <2>1, <2>3 DEF Pipeline!TypeOK, LadderCaps, Pipeline!Ceilings, Pipeline!Stages
  <2> QED BY <2>3, <2>4, <2>5 DEF Pipeline!LadderInv
<1> QED BY <1>2, <1>3

\* A market that is priced is worth level 1.
LEMMA LadderMarket ==
  ASSUME Pipeline!LadderInv, NEW outcome \in {"priced", "suppressed", "failed"},
         Pipeline!MarketQuantiles(outcome)
  PROVE  Pipeline!LadderInv'
<1>0. /\ Pipeline!TypeOK /\ v3 \subseteq LadderCaps /\ "market" \in Pipeline!Stages
      /\ Pipeline!CapsFit
  BY LadderTyped DEF Pipeline!Stages, Pipeline!LadderInv
<1>1. /\ UNCHANGED <<v2, v5, v7, v8, v9, v10, v11>> /\ v1 = "market"
      /\ v4' = (IF outcome = "failed" THEN "suppressed" ELSE outcome)
      /\ IF outcome = "failed" THEN Pipeline!Degraded("market", 0) ELSE v3' = v3
      /\ v6' = (IF outcome = "priced" THEN 1 ELSE 0)
      /\ v1' = (IF outcome = "priced" THEN "participation" ELSE "explanation")
  BY DEF Pipeline!MarketQuantiles
<1>2. v9 = "none" /\ v4 = "none"
  BY <1>1 DEF Pipeline!LadderInv, Pipeline!Reached, Pipeline!Stages
<1>3. /\ v3' \subseteq LadderCaps /\ \A d \in v3' : d \in v3 \/ (d.stage = "market" /\ d.ceiling = 0)
  BY <1>0, <1>1, DegradedIs
<1>4. Pipeline!CapsFit'
  BY <1>0, <1>3 DEF Pipeline!CapsFit
<1>5. Pipeline!Worth(v6)'
  BY <1>1 DEF Pipeline!Worth
<1>6. ASSUME v4' = "priced" PROVE ~Pipeline!Failed("market")' /\ v6' = 1
  <2>1. outcome = "priced" /\ v3' = v3
    BY <1>1, <1>6
  <2>2. ~Pipeline!Failed("market")
    BY <1>1 DEF Pipeline!LadderInv, Pipeline!Reached
  <2> QED BY <1>1, <2>1, <2>2 DEF Pipeline!Failed
<1>7. Pipeline!Reached' /\ Pipeline!NothingUnsaid'
  BY <1>1, <1>2, <1>6 DEF Pipeline!Reached, Pipeline!NothingUnsaid
<1>8. Pipeline!LevelIsEarned' /\ Pipeline!NumbersHaveAField'
  BY <1>1 DEF Pipeline!LevelIsEarned, Pipeline!NumbersHaveAField
<1>9. Pipeline!TypeOK'
  <2>1. v4' \in {"none", "priced", "suppressed"} /\ v6' \in 0..4 /\ v1' \in Pipeline!Stages
    BY <1>1 DEF Pipeline!Stages
  <2> QED BY <1>0, <1>1, <1>3, <2>1 DEF Pipeline!TypeOK, LadderCaps, Pipeline!Ceilings
<1> QED BY <1>4, <1>5, <1>7, <1>8, <1>9 DEF Pipeline!LadderInv

\* The field of competitors, none of them priced yet.
LEMMA LadderField ==
  ASSUME Pipeline!LadderInv, NEW found \in SUBSET Pair, NEW stated \in SUBSET Pair,
         Pipeline!CandidateBidders(found, stated)
  PROVE  Pipeline!LadderInv'
<1>0. Pipeline!TypeOK /\ v6 \in 0..4
  BY LadderTyped
<1>1. /\ UNCHANGED <<v2, v3, v4, v6, v7, v8, v9, v10, v11>> /\ v1 = "participation"
      /\ v5' = [c \in found |-> [stated |-> c \in stated, price |-> "waiting"]]
      /\ v1' \in {"explanation", "competitor"}
  BY DEF Pipeline!CandidateBidders
<1>2. v4 = "priced" /\ v6 <= 1 /\ v9 = "none" /\ ~(v6 >= 2) /\ ~(v6 >= 3) /\ v6 # 4
  BY <1>0, <1>1 DEF Pipeline!LadderInv, Pipeline!Reached, Pipeline!Stages
<1>3. Pipeline!Worth(v6)'
  BY <1>1, <1>2 DEF Pipeline!Worth
<1>4. Pipeline!Reached' /\ Pipeline!NothingUnsaid' /\ Pipeline!CapsFit'
  BY <1>1, <1>2 DEF Pipeline!LadderInv, Pipeline!Reached, Pipeline!NothingUnsaid, Pipeline!CapsFit,
                    Pipeline!Failed
<1>5. Pipeline!LevelIsEarned' /\ Pipeline!NumbersHaveAField'
  BY <1>1 DEF Pipeline!LevelIsEarned, Pipeline!NumbersHaveAField
<1>6. DOMAIN v5' \subseteq Pair /\ \A c \in DOMAIN v5' : v5'[c] \in Pipeline!Candidate
  BY <1>1 DEF Pipeline!Candidate
<1>7. Pipeline!TypeOK'
  BY <1>0, <1>1, <1>6 DEF Pipeline!TypeOK, Pipeline!Stages
<1> QED BY <1>3, <1>4, <1>5, <1>7 DEF Pipeline!LadderInv

\* A competitor that was waiting gets its price, and the level what it is worth.
LEMMA LadderPrices ==
  ASSUME Pipeline!LadderInv, NEW c \in Pair, NEW outcome \in {"A", "B", "suppressed", "failed"},
         Pipeline!CompetitorQuantiles(c, outcome)
  PROVE  Pipeline!LadderInv'
<1> DEFINE price == IF outcome = "failed" THEN "suppressed" ELSE outcome
           worth == Pipeline!Earned(v5[c].stated, price)
<1>0. /\ Pipeline!TypeOK /\ v3 \subseteq LadderCaps /\ "competitor" \in Pipeline!Stages
      /\ v6 \in 0..4 /\ Pipeline!CapsFit /\ Pipeline!Worth(v6)
  BY LadderTyped DEF Pipeline!Stages, Pipeline!LadderInv
<1>1. /\ UNCHANGED <<v2, v4, v7, v8, v9, v10, v11>> /\ v1 = "competitor"
      /\ c \in DOMAIN v5 /\ v5[c].price = "waiting"
      /\ v5' = [v5 EXCEPT ![c].price = price] /\ v6' = Pipeline!Max({v6, worth})
      /\ IF outcome = "failed" THEN Pipeline!Degraded("competitor", 2) ELSE v3' = v3
      /\ v1' \in {"explanation", "competitor"}
  BY DEF Pipeline!CompetitorQuantiles, Pipeline!Waiting
<1>2. v4 = "priced" /\ v9 = "none"
  BY <1>1 DEF Pipeline!LadderInv, Pipeline!Reached, Pipeline!Stages
<1>3. price \in {"A", "B", "suppressed"}
  OBVIOUS
<1> HIDE DEF price
<1>4. /\ worth \in 1..4 /\ (worth >= 3 => price \in {"A", "B"}) /\ (worth = 4 => price = "A")
      /\ worth >= 2 => price \in {"A", "B"} \/ v5[c].stated
  BY <1>3 DEF Pipeline!Earned
<1> HIDE DEF worth
<1>5. v6' \in {v6, worth} /\ v6 <= v6' /\ v6' \in 0..4
  <2>1. worth \in 0..4
    BY <1>4
  <2> QED BY <1>0, <1>1, <2>1, LargerIs
<1>6. /\ DOMAIN v5' = DOMAIN v5 /\ \A d \in DOMAIN v5 : d # c => v5'[d] = v5[d]
      /\ v5'[c].price = price /\ v5'[c].stated = v5[c].stated /\ v5'[c] \in Pipeline!Candidate
  <2>1. v5[c] \in Pipeline!Candidate
    BY <1>0, <1>1 DEF Pipeline!TypeOK
  <2> DEFINE r == [v5[c] EXCEPT !.price = price]
  <2>2. r \in Pipeline!Candidate /\ r.price = price /\ r.stated = v5[c].stated
    BY <1>3, <2>1 DEF Pipeline!Candidate
  <2>3. v5' = [v5 EXCEPT ![c] = r]
    BY <1>1
  <2> HIDE DEF r
  <2> QED BY <1>1, <2>2, <2>3
<1>7. Pipeline!Priced \subseteq Pipeline!Priced' /\ c \notin Pipeline!Priced
      /\ (price \in {"A", "B"} => c \in Pipeline!Priced')
  BY <1>1, <1>6 DEF Pipeline!Priced
<1>8. Pipeline!Worth(v6)'
  <2>1. CASE v6' = v6
    <3>1. ASSUME v6 >= 2 PROVE \E d \in DOMAIN v5' : v5'[d].stated \/ d \in Pipeline!Priced'
      <4>1. PICK d \in DOMAIN v5 : v5[d].stated \/ d \in Pipeline!Priced
        BY <1>0, <3>1 DEF Pipeline!Worth
      <4>2. v5'[d].stated = v5[d].stated
        BY <1>6
      <4> QED BY <1>6, <1>7, <4>1, <4>2
    <3>2. v6 = 4 => \E d \in Pipeline!Priced' : v5'[d].price = "A"
      BY <1>0, <1>6, <1>7 DEF Pipeline!Worth, Pipeline!Priced
    <3>3. v6 >= 3 => Pipeline!Priced' # {}
      BY <1>0, <1>7 DEF Pipeline!Worth
    <3> QED BY <1>1, <1>2, <2>1, <3>1, <3>2, <3>3 DEF Pipeline!Worth
  <2>2. CASE v6' = worth
    BY <1>1, <1>2, <1>4, <1>6, <1>7, <2>2 DEF Pipeline!Worth
  <2> QED BY <1>5, <2>1, <2>2
<1>9. /\ v3' \subseteq LadderCaps /\ v3 \subseteq v3'
      /\ \A d \in v3' : d \in v3 \/ (d.stage = "competitor" /\ d.ceiling = 2)
  BY <1>0, <1>1, DegradedIs
<1>10. Pipeline!CapsFit'
  BY <1>0, <1>9 DEF Pipeline!CapsFit
<1>11. Pipeline!Reached' /\ Pipeline!NothingUnsaid'
  <2>1. v6' = 0 => v6 = 0
    BY <1>0, <1>5
  <2>2. ~Pipeline!Failed("market") /\ (v6 = 0 => Pipeline!Failed("similarity"))
    BY <1>2 DEF Pipeline!LadderInv, Pipeline!NothingUnsaid
  <2>3. ~Pipeline!Failed("market")' /\ (v6' = 0 => Pipeline!Failed("similarity")')
    BY <1>9, <2>1, <2>2 DEF Pipeline!Failed
  <2> QED BY <1>1, <1>2, <2>3 DEF Pipeline!Reached, Pipeline!NothingUnsaid
<1>12. Pipeline!LevelIsEarned' /\ Pipeline!NumbersHaveAField'
  BY <1>1 DEF Pipeline!LevelIsEarned, Pipeline!NumbersHaveAField
<1>13. Pipeline!TypeOK'
  <2>1. DOMAIN v5' \subseteq Pair /\ \A d \in DOMAIN v5' : v5'[d] \in Pipeline!Candidate
    BY <1>0, <1>6 DEF Pipeline!TypeOK
  <2>2. v1' \in Pipeline!Stages
    BY <1>1 DEF Pipeline!Stages
  <2> QED BY <1>0, <1>1, <1>5, <1>9, <2>1, <2>2 DEF Pipeline!TypeOK, LadderCaps, Pipeline!Ceilings
<1> QED BY <1>8, <1>10, <1>11, <1>12, <1>13 DEF Pipeline!LadderInv

\* The level is capped; rows and curve are written, the bid is searched for.
LEMMA LadderExplains ==
  ASSUME Pipeline!LadderInv, NEW ok \in BOOLEAN, Pipeline!BuildExplanation(ok)
  PROVE  Pipeline!LadderInv'
<1>0. Pipeline!TypeOK /\ v6 \in 0..4 /\ "explanation" \in Pipeline!Stages
  BY LadderTyped DEF Pipeline!Stages
<1>1. /\ UNCHANGED <<v2, v4, v5, v7, v8, v9, v10, v11>> /\ v1 = "explanation" /\ v1' = "scenario"
      /\ v6' = Pipeline!Capped /\ (v3' = v3 \/ Pipeline!Degraded("explanation", 4))
  BY DEF Pipeline!BuildExplanation
<1>2. v6' \in 0..4 /\ v6' <= v6 /\ (v6' = v6 \/ \E d \in v3 : v6' = d.ceiling)
  BY <1>0, <1>1, CappedIs
<1>3. v4 = "priced" /\ v6' = 0 => Pipeline!Failed("similarity")
  <2> SUFFICES ASSUME v4 = "priced", v6' = 0 PROVE Pipeline!Failed("similarity")
    OBVIOUS
  <2>1. CASE v6 = 0
    BY <2>1 DEF Pipeline!LadderInv, Pipeline!NothingUnsaid
  <2>2. CASE v6 # 0
    <3>1. PICK d \in v3 : d.ceiling = 0
      BY <1>2, <2>2
    <3>2. d.stage \in {"similarity", "market"} /\ ~Pipeline!Failed("market")
      BY <3>1 DEF Pipeline!LadderInv, Pipeline!CapsFit, Pipeline!NothingUnsaid
    <3> QED BY <3>2 DEF Pipeline!Failed
  <2> QED BY <2>1, <2>2
<1>4. /\ v3' \subseteq LadderCaps /\ Pipeline!CapsFit' /\ Pipeline!Worth(v6)'
      /\ Pipeline!LevelIsEarned' /\ Pipeline!NumbersHaveAField'
      /\ v4 = "priced" => ~Pipeline!Failed("market")' /\ (v6' = 0 => Pipeline!Failed("similarity")')
  BY <1>0, <1>1, <1>2, <1>3, LadderKept
<1>5. Pipeline!Reached' /\ Pipeline!NothingUnsaid'
  BY <1>1, <1>4 DEF Pipeline!LadderInv, Pipeline!Reached, Pipeline!NothingUnsaid, Pipeline!Stages
<1>6. Pipeline!TypeOK'
  BY <1>0, <1>1, <1>2, <1>4 DEF Pipeline!TypeOK, LadderCaps, Pipeline!Ceilings, Pipeline!Stages
<1> QED BY <1>4, <1>5, <1>6 DEF Pipeline!LadderInv

LEMMA LadderSimulates ==
  ASSUME Pipeline!LadderInv, NEW ok \in BOOLEAN, NEW outcome \in {"bid", "infeasible", "failed"},
         \/ Pipeline!PersistScenario(ok) \/ Pipeline!WinProbabilityCurve(ok)
         \/ Pipeline!PersistPrediction(ok) \/ Pipeline!Optimize(outcome)
  PROVE  Pipeline!LadderInv'
<1>0. Pipeline!TypeOK /\ v6 \in 0..4 /\ v3 \subseteq LadderCaps
      /\ {"simulation", "persistence", "optimizer"} \subseteq Pipeline!Stages
  BY LadderTyped DEF Pipeline!Stages
<1>1. UNCHANGED <<v2, v4, v5, v6, v10, v11>> /\ v1 # "done" /\ v1' # "done"
  BY DEF Pipeline!PersistScenario, Pipeline!WinProbabilityCurve, Pipeline!PersistPrediction,
         Pipeline!Optimize
<1>2. v4 = "priced" /\ v6 = 0 => Pipeline!Failed("similarity")
  BY DEF Pipeline!LadderInv, Pipeline!NothingUnsaid
<1>3. Pipeline!Drawn' = Pipeline!Drawn
  BY <1>1 DEF Pipeline!Drawn, Pipeline!Priced
<1> DEFINE Kept ==
      /\ v3' \subseteq LadderCaps /\ v3 \subseteq v3'
      /\ Pipeline!CapsFit' /\ Pipeline!Worth(v6)' /\ Pipeline!LevelIsEarned'
      /\ Pipeline!NumbersHaveAField'
      /\ v4 = "priced" => ~Pipeline!Failed("market")' /\ (v6' = 0 => Pipeline!Failed("similarity")')
<1>4. CASE Pipeline!PersistScenario(ok)
  <2>1. /\ v1 = "scenario" /\ (v3' = v3 \/ Pipeline!Degraded("persistence", 4))
        /\ UNCHANGED <<v8, v9>> /\ v7' \in {"written", "lost"}
        /\ v1' = IF v4 = "priced" /\ Pipeline!Drawn # {} THEN "simulation" ELSE "persistence"
    BY <1>4 DEF Pipeline!PersistScenario
  <2>2. Kept
    BY <1>0, <1>1, <1>2, <2>1, LadderKept
  <2>3. v9 = "none"
    BY <2>1 DEF Pipeline!LadderInv, Pipeline!Reached, Pipeline!Stages
  <2>4. Pipeline!Reached' /\ Pipeline!NothingUnsaid'
    BY <1>1, <1>3, <2>1, <2>2, <2>3 DEF Pipeline!Reached, Pipeline!NothingUnsaid
  <2>5. Pipeline!TypeOK'
    BY <1>0, <1>1, <2>1, <2>2 DEF Pipeline!TypeOK, LadderCaps, Pipeline!Ceilings, Pipeline!Stages
  <2> QED BY <2>2, <2>4, <2>5 DEF Pipeline!LadderInv
<1>5. CASE Pipeline!WinProbabilityCurve(ok)
  <2>1. /\ v1 = "simulation" /\ v8' = ok /\ UNCHANGED <<v7, v9>>
        /\ IF ok THEN v3' = v3 ELSE Pipeline!Degraded("simulation", 1)
        /\ v1' = (IF ~v2.target THEN "raised" ELSE IF ok THEN "optimizer" ELSE "persistence")
    BY <1>5 DEF Pipeline!WinProbabilityCurve
  <2>2. Kept
    BY <1>0, <1>1, <1>2, <2>1, LadderKept
  <2>3. v9 = "none"
    BY <2>1 DEF Pipeline!LadderInv, Pipeline!Reached, Pipeline!Stages
  <2>4. ~ok => \E d \in v3' : d.stage = "simulation" /\ d.ceiling = 1
    <3>1. [stage |-> "simulation", ceiling |-> 1] \in v3' \/ ok
      BY <2>1 DEF Pipeline!Degraded
    <3> QED BY <3>1
  <2>5. Pipeline!Reached' /\ Pipeline!NothingUnsaid'
    BY <1>1, <2>1, <2>2, <2>3, <2>4 DEF Pipeline!Reached, Pipeline!NothingUnsaid
  <2>6. Pipeline!TypeOK'
    BY <1>0, <1>1, <2>1, <2>2 DEF Pipeline!TypeOK, LadderCaps, Pipeline!Ceilings, Pipeline!Stages
  <2> QED BY <2>2, <2>5, <2>6 DEF Pipeline!LadderInv
<1>6. CASE Pipeline!Optimize(outcome)
  <2>1. /\ v1 = "optimizer" /\ v1' = "persistence" /\ UNCHANGED <<v7, v8>>
        /\ v9' \in {"none", "bid", "infeasible"}
        /\ v3' = v3 \/ Pipeline!Degraded("optimizer", 1)
    BY <1>6 DEF Pipeline!Optimize
  <2>2. Kept
    BY <1>0, <1>1, <1>2, <2>1, LadderKept
  <2>3. v8 /\ v2.target
    BY <2>1 DEF Pipeline!LadderInv, Pipeline!Reached
  <2>4. Pipeline!Reached' /\ Pipeline!NothingUnsaid'
    BY <1>1, <2>1, <2>2, <2>3 DEF Pipeline!Reached, Pipeline!NothingUnsaid, Pipeline!Stages
  <2>5. Pipeline!TypeOK'
    BY <1>0, <1>1, <2>1, <2>2 DEF Pipeline!TypeOK, LadderCaps, Pipeline!Ceilings, Pipeline!Stages
  <2> QED BY <2>2, <2>4, <2>5 DEF Pipeline!LadderInv
<1>7. CASE Pipeline!PersistPrediction(ok)
  <2>1. /\ v1 = "persistence" /\ v1' = "proposed" /\ UNCHANGED <<v7, v8, v9>>
        /\ v3' = v3 \/ Pipeline!Degraded("persistence", 4)
    BY <1>7 DEF Pipeline!PersistPrediction
  <2>2. Kept
    BY <1>0, <1>1, <1>2, <2>1, LadderKept
  <2>3. v9 # "none" => v8 /\ v2.target
    BY DEF Pipeline!LadderInv, Pipeline!Reached
  <2>4. v4 = "priced" /\ Pipeline!Drawn # {} /\ ~v8 =>
          \E d \in v3 : d.stage = "simulation" /\ d.ceiling = 1
    BY <2>1 DEF Pipeline!LadderInv, Pipeline!NothingUnsaid
  <2>5. Pipeline!Reached' /\ Pipeline!NothingUnsaid'
    BY <1>1, <1>3, <2>1, <2>2, <2>3, <2>4 DEF Pipeline!Reached, Pipeline!NothingUnsaid, Pipeline!Stages
  <2>6. Pipeline!TypeOK'
    BY <1>0, <1>1, <2>1, <2>2 DEF Pipeline!TypeOK, LadderCaps, Pipeline!Ceilings, Pipeline!Stages
  <2> QED BY <2>2, <2>5, <2>6 DEF Pipeline!LadderInv
<1> QED BY <1>4, <1>5, <1>6, <1>7

\* The answer: capped, and with a reason when it has no numbers.
LEMMA LadderAnswers ==
  ASSUME Pipeline!LadderInv, NEW ok \in BOOLEAN, Pipeline!Answer(ok)
  PROVE  Pipeline!LadderInv'
<1> DEFINE claimed == Pipeline!Capped
<1>0. /\ Pipeline!TypeOK /\ v3 \subseteq LadderCaps /\ "simulation" \in Pipeline!Stages
      /\ v6 \in 0..4 /\ Pipeline!CapsFit /\ Pipeline!Worth(v6)
  BY LadderTyped DEF Pipeline!Stages, Pipeline!LadderInv
<1>1. /\ UNCHANGED <<v2, v4, v5, v6, v7, v8, v9>> /\ v1 = "proposed" /\ v1' = "done"
      /\ v10' = (IF ~v2.bid THEN "none" ELSE IF Pipeline!Drawn = {} THEN "no field"
                 ELSE IF ok THEN "simulated" ELSE "none")
      /\ v3' = v3 \/ Pipeline!Degraded("simulation", 4)
      /\ v11'.level = claimed /\ v11'.why = Pipeline!Why
      /\ v11'.prediction = (IF Pipeline!Why = "none" THEN "numbers" ELSE "suppressed")
  BY DEF Pipeline!Answer
<1>2. /\ claimed \in 0..4 /\ claimed <= v6 /\ \A d \in v3 : claimed <= d.ceiling
      /\ claimed = v6 \/ \E d \in v3 : claimed = d.ceiling
  BY <1>0, CappedIs
<1> HIDE DEF claimed
<1>3. /\ v3' \subseteq LadderCaps /\ v3 \subseteq v3'
      /\ \A d \in v3' : d \in v3 \/ (d.stage = "simulation" /\ d.ceiling = 4)
  <2>1. v3' = v3 \/ Pipeline!Degraded("simulation", 4)
    BY <1>1
  <2> QED BY <1>0, <2>1, DegradedIs
<1>4. Pipeline!CapsFit'
  BY <1>0, <1>3 DEF Pipeline!CapsFit
<1>5. /\ Pipeline!Priced' = Pipeline!Priced /\ Pipeline!Drawn' = Pipeline!Drawn
      /\ \A at \in Pipeline!Stages : at # "simulation" => Pipeline!Failed(at)' = Pipeline!Failed(at)
  <2>1. Pipeline!Priced' = Pipeline!Priced /\ Pipeline!Drawn' = Pipeline!Drawn
    BY <1>1 DEF Pipeline!Drawn, Pipeline!Priced
  <2>2. ASSUME NEW at \in Pipeline!Stages, at # "simulation"
        PROVE  Pipeline!Failed(at)' <=> Pipeline!Failed(at)
    BY <1>3, <2>2 DEF Pipeline!Failed
  <2>3. \A at \in Pipeline!Stages : Pipeline!Failed(at)' \in BOOLEAN /\ Pipeline!Failed(at) \in BOOLEAN
    BY DEF Pipeline!Failed
  <2> QED BY <2>1, <2>2, <2>3
<1>6. /\ Pipeline!Worth(claimed) /\ (claimed >= 1 => v6 >= 1)
  <2>1. (claimed >= 1 => v6 >= 1) /\ (claimed >= 2 => v6 >= 2) /\ (claimed >= 3 => v6 >= 3)
        /\ (claimed = 4 => v6 = 4)
    BY <1>0, <1>2
  <2> QED BY <1>0, <2>1 DEF Pipeline!Worth
<1>7. /\ claimed >= 1 => ~Pipeline!Failed("similarity") /\ ~Pipeline!Failed("market")
      /\ claimed >= 2 => ~Pipeline!Failed("participation") /\ ~Pipeline!Failed("optimizer")
      /\ claimed >= 3 => ~Pipeline!Failed("competitor")
  <2>1. \A d \in v3 : d.ceiling \in 0..4
    BY <1>0 DEF LadderCaps
  <2>2. \A d \in v3 : /\ claimed >= 1 => d.ceiling # 0
                      /\ claimed >= 2 => d.ceiling \notin {0, 1}
                      /\ claimed >= 3 => d.ceiling \notin {0, 1, 2}
    BY <1>2, <2>1
  <2> QED BY <1>0, <2>2 DEF Pipeline!CapsFit, Pipeline!Failed
<1>8. claimed >= 2 /\ Pipeline!Drawn # {} => v8
  <2> SUFFICES ASSUME claimed >= 2, Pipeline!Drawn # {}, ~v8 PROVE FALSE
    BY <1>0 DEF Pipeline!TypeOK
  <2>1. v4 = "priced"
    BY <1>2, <1>6 DEF Pipeline!Worth
  <2>2. PICK d \in v3 : d.ceiling = 1
    BY <1>1, <2>1 DEF Pipeline!LadderInv, Pipeline!NothingUnsaid
  <2> QED BY <1>2, <2>2
<1>9. Pipeline!LevelIsEarned'
  <2>1. {"similarity", "market", "participation", "optimizer", "competitor"} \subseteq Pipeline!Stages
    BY DEF Pipeline!Stages
  <2>2. /\ ~Pipeline!Failed("similarity")' = ~Pipeline!Failed("similarity")
        /\ ~Pipeline!Failed("market")' = ~Pipeline!Failed("market")
        /\ ~Pipeline!Failed("participation")' = ~Pipeline!Failed("participation")
        /\ ~Pipeline!Failed("optimizer")' = ~Pipeline!Failed("optimizer")
        /\ ~Pipeline!Failed("competitor")' = ~Pipeline!Failed("competitor")
    BY <1>5, <2>1
  <2>3. v11'.level = claimed /\ UNCHANGED <<v4, v5, v8>>
    BY <1>1
  <2>4. claimed >= 1 => v4' = "priced" /\ ~Pipeline!Failed("similarity")' /\ ~Pipeline!Failed("market")'
    BY <1>6, <1>7, <2>2, <2>3 DEF Pipeline!Worth
  <2>5. claimed >= 2 => /\ \E c \in DOMAIN v5' : v5'[c].stated \/ c \in Pipeline!Priced'
                        /\ ~Pipeline!Failed("participation")' /\ ~Pipeline!Failed("optimizer")'
                        /\ Pipeline!Drawn' # {} => v8'
    BY <1>5, <1>6, <1>7, <1>8, <2>2, <2>3 DEF Pipeline!Worth
  <2>6. claimed >= 3 => Pipeline!Priced' # {} /\ ~Pipeline!Failed("competitor")'
    BY <1>5, <1>6, <1>7, <2>2, <2>3 DEF Pipeline!Worth
  <2>7. claimed = 4 => \E c \in Pipeline!Priced' : v5'[c].price = "A"
    BY <1>5, <1>6, <2>3 DEF Pipeline!Worth
  <2> QED BY <2>3, <2>4, <2>5, <2>6, <2>7 DEF Pipeline!LevelIsEarned
<1>10. ASSUME Pipeline!Why = "none"
       PROVE  /\ v4 = "priced" /\ Pipeline!Drawn # {} /\ v9 = "bid" /\ v8 /\ v2.target
              /\ claimed = 0 => Pipeline!Failed("similarity")
  <2>1. v4 = "priced"
    BY <1>10 DEF Pipeline!Why
  <2>2. Pipeline!Drawn # {}
    BY <1>10, <2>1 DEF Pipeline!Why
  <2>3. v9 # "none" /\ v9 # "infeasible"
    BY <1>10, <2>1, <2>2 DEF Pipeline!Why
  <2>4. v9 = "bid" /\ v8 /\ v2.target
    BY <1>0, <2>3 DEF Pipeline!TypeOK, Pipeline!LadderInv, Pipeline!Reached
  <2>5. ASSUME claimed = 0 PROVE Pipeline!Failed("similarity")
    <3>1. CASE v6 = 0
      BY <2>1, <3>1 DEF Pipeline!LadderInv, Pipeline!NothingUnsaid
    <3>2. CASE v6 # 0
      <4>1. PICK d \in v3 : d.ceiling = 0
        BY <1>2, <2>5, <3>2
      <4>2. d.stage \in {"similarity", "market"} /\ ~Pipeline!Failed("market")
        BY <2>1, <4>1 DEF Pipeline!LadderInv, Pipeline!CapsFit, Pipeline!NothingUnsaid
      <4> QED BY <4>2 DEF Pipeline!Failed
    <3> QED BY <3>1, <3>2
  <2> QED BY <2>1, <2>2, <2>4, <2>5
<1>11. Pipeline!NumbersHaveAField'
  <2>1. "similarity" \in Pipeline!Stages
    BY DEF Pipeline!Stages
  <2>2. Pipeline!Failed("similarity")' = Pipeline!Failed("similarity")
    BY <1>5, <2>1
  <2>3. \A c \in Pipeline!Drawn' : v5'[c].stated /\ v5'[c].price \in {"A", "B"}
    BY DEF Pipeline!Drawn, Pipeline!Priced
  <2>4. v10' = "simulated" => Pipeline!Drawn' # {} /\ v2'.bid
    BY <1>1, <1>5
  <2>5. v11'.prediction = "numbers" =>
          /\ v4' = "priced" /\ v8' /\ v9' = "bid" /\ v2'.target
          /\ Pipeline!Drawn' # {} /\ (v11'.level = 0 => Pipeline!Failed("similarity")')
    BY <1>1, <1>5, <1>10, <2>2
  <2>6. v11'.prediction = "suppressed" <=> v11'.why # "none"
    BY <1>1
  <2> QED BY <2>3, <2>4, <2>5, <2>6 DEF Pipeline!NumbersHaveAField
<1>12. Pipeline!Worth(v6)' /\ Pipeline!Reached' /\ Pipeline!NothingUnsaid'
  <2>1. Pipeline!Worth(v6)'
    BY <1>0, <1>1, <1>5 DEF Pipeline!Worth
  <2>2. Pipeline!Reached'
    BY <1>1 DEF Pipeline!LadderInv, Pipeline!Reached, Pipeline!Stages
  <2>3. v4' = "priced" => ~Pipeline!Failed("market")' /\ (v6' = 0 => Pipeline!Failed("similarity")')
    BY <1>1, <1>3 DEF Pipeline!LadderInv, Pipeline!NothingUnsaid, Pipeline!Failed
  <2>4. v4 = "priced" /\ Pipeline!Drawn # {} /\ ~v8 =>
          \E d \in v3' : d.stage = "simulation" /\ d.ceiling = 1
    BY <1>1, <1>3 DEF Pipeline!LadderInv, Pipeline!NothingUnsaid
  <2> QED BY <1>1, <1>5, <2>1, <2>2, <2>3, <2>4 DEF Pipeline!NothingUnsaid
<1>13. Pipeline!TypeOK'
  <2>1. v11'.prediction \in {"none", "numbers", "suppressed"} /\ v10' \in {"none", "simulated", "no field"}
    BY <1>1
  <2> QED BY <1>0, <1>1, <1>2, <1>3, <2>1 DEF Pipeline!TypeOK, LadderCaps, Pipeline!Ceilings, Pipeline!Stages
<1> QED BY <1>4, <1>9, <1>11, <1>12, <1>13 DEF Pipeline!LadderInv

LEMMA LadderStep ==
  ASSUME Pipeline!LadderInv, [Pipeline!Next]_(Pipeline!vars) PROVE Pipeline!LadderInv'
<1>1. CASE UNCHANGED Pipeline!vars
  <2>1. UNCHANGED <<v1, v2, v3, v4, v5, v6, v7, v8, v9, v10, v11>>
    BY <1>1 DEF Pipeline!vars
  <2>2. Pipeline!Priced' = Pipeline!Priced /\ Pipeline!Drawn' = Pipeline!Drawn
    BY <2>1 DEF Pipeline!Priced, Pipeline!Drawn
  <2>3. Pipeline!TypeOK'
    BY <2>1 DEF Pipeline!LadderInv, Pipeline!TypeOK
  <2>4. Pipeline!CapsFit' /\ Pipeline!Worth(v6)'
    BY <2>1, <2>2 DEF Pipeline!LadderInv, Pipeline!CapsFit, Pipeline!Worth
  <2>5. Pipeline!Reached' /\ Pipeline!NothingUnsaid'
    BY <2>1, <2>2 DEF Pipeline!LadderInv, Pipeline!Reached, Pipeline!NothingUnsaid, Pipeline!Failed
  <2>6. Pipeline!LevelIsEarned' /\ Pipeline!NumbersHaveAField'
    BY <2>1, <2>2 DEF Pipeline!LadderInv, Pipeline!LevelIsEarned, Pipeline!NumbersHaveAField,
                      Pipeline!Failed
  <2> QED BY <2>3, <2>4, <2>5, <2>6 DEF Pipeline!LadderInv
<1> QED BY <1>1, LadderRetrieves, LadderMarket, LadderField, LadderPrices, LadderExplains,
           LadderSimulates, LadderAnswers DEF Pipeline!Next

-----------------------------------------------------------------------------
(***************************************************************************)
(* EligibilityFit: a compliant tender rests on a page that was fetched.    *)
(* v1 .. v12 are activity, published, open, details, profile, batch,       *)
(* request, answer, changes, stored, stores and overlapped.                *)
(***************************************************************************)
FitBatches == [phase : {"idle", "found", "parsed"}, row : Fit!Rows]
FitRequests == [reading : BOOLEAN, profile : Fit!Profiles]

\* The rows that are not NoRow: a failure, or a page.
LEMMA FitRows ==
  /\ Fit!NoRow \in Fit!Rows /\ Fit!Failed \in Fit!Rows /\ Fit!Failed # Fit!NoRow
  /\ Fit!Failed.class = "absent" /\ Fit!NoRow.class = "absent"
  /\ \A detail \in Fit!Parsed : Fit!Fetched(detail) \in Fit!Rows /\ Fit!Fetched(detail) # Fit!NoRow
  /\ Fit!Idle \in FitBatches /\ Fit!Idle.phase = "idle" /\ Fit!NoProfile \in Fit!Profiles
  /\ Fit!NoRequest \in FitRequests
<1>1. Fit!Failed = [class |-> "absent", place |-> "absent", row |-> "failed"]
  BY DEF Fit!Failed, Fit!NoRow
<1>2. Fit!Failed # Fit!NoRow
  BY <1>1 DEF Fit!NoRow
<1>3. \A detail \in Fit!Parsed : Fit!Fetched(detail) # Fit!NoRow
  BY DEF Fit!Fetched, Fit!NoRow
<1>4. Fit!Idle \in FitBatches
  BY DEF FitBatches, Fit!Idle, Fit!Rows
<1>5. Fit!NoProfile \in Fit!Profiles
  BY DEF Fit!NoProfile, Fit!Profiles
<1>6. Fit!NoRequest \in FitRequests
  BY <1>5 DEF Fit!NoRequest, FitRequests
<1> QED BY <1>1, <1>2, <1>3, <1>4, <1>5, <1>6 DEF Fit!Rows, Fit!NoRow, Fit!Idle

LEMMA FitInit == ASSUME Fit!Init PROVE Fit!FitInv
<1>1. Fit!TypeOK
  <2>1. v6 \in [Pair -> FitBatches] /\ v7 \in FitRequests /\ v5 \in Fit!Profiles /\ v4 \in Fit!Rows
    BY FitRows DEF Fit!Init
  <2>2. v9 \in 0..FitChanges
    BY WorkspaceAssumption DEF Fit!Init
  <2> QED BY <2>1, <2>2 DEF Fit!Init, Fit!TypeOK, FitBatches, FitRequests
<1>2. Fit!DetailsAreGrounded
  BY FitRows DEF Fit!Init, Fit!DetailsAreGrounded
<1>3. Fit!OneFetch
  BY FitRows DEF Fit!Init, Fit!OneFetch
<1>4. Fit!FitIsGrounded
  BY DEF Fit!Init, Fit!FitIsGrounded
<1> QED BY <1>1, <1>2, <1>3, <1>4 DEF Fit!FitInv

\* An answer holds as long as the tender keeps its activity and what was stored stays.
LEMMA FitAnswerKept ==
  ASSUME Fit!FitIsGrounded, UNCHANGED <<v1, v8>>, v10 \subseteq v10' PROVE Fit!FitIsGrounded'
BY DEF Fit!FitIsGrounded

\* The source, the clock, the company and the reader change nothing that batches do.
LEMMA FitOutside ==
  ASSUME Fit!FitInv,
         \/ Fit!Close \/ Fit!Ask \/ UNCHANGED Fit!vars
         \/ \E detail \in Fit!Parsed : Fit!Publish(detail)
         \/ \E p \in Fit!Profiles : Fit!PutProfile(p)
  PROVE  Fit!FitInv'
<1>1. UNCHANGED <<v1, v4, v6, v8, v10, v11, v12>>
  BY DEF Fit!Close, Fit!Ask, Fit!Publish, Fit!PutProfile, Fit!vars
<1>2. Fit!TypeOK'
  <2>1. /\ v2 \in Fit!Parsed /\ v3 \in BOOLEAN /\ v5 \in Fit!Profiles /\ v7 \in FitRequests
        /\ v9 \in 0..FitChanges
    BY DEF Fit!FitInv, Fit!TypeOK, FitRequests
  <2>2. v2' \in Fit!Parsed /\ v5' \in Fit!Profiles
    BY <2>1 DEF Fit!Close, Fit!Ask, Fit!Publish, Fit!PutProfile, Fit!vars
  <2>3. v3' \in BOOLEAN
    BY <2>1 DEF Fit!Close, Fit!Ask, Fit!Publish, Fit!PutProfile, Fit!vars
  <2>4. v9' \in 0..FitChanges
    BY <2>1, WorkspaceAssumption DEF Fit!Close, Fit!Ask, Fit!Publish, Fit!PutProfile, Fit!vars
  <2>5. v7' \in FitRequests
    <3>1. CASE Fit!Ask
      BY <2>1, <3>1 DEF Fit!Ask, FitRequests
    <3>2. CASE ~Fit!Ask
      BY <2>1, <3>2 DEF Fit!Close, Fit!Publish, Fit!PutProfile, Fit!vars
    <3> QED BY <3>1, <3>2
  <2> QED BY <1>1, <2>2, <2>3, <2>4, <2>5 DEF Fit!FitInv, Fit!TypeOK, FitRequests
<1>3. Fit!DetailsAreGrounded'
  BY <1>1 DEF Fit!FitInv, Fit!DetailsAreGrounded
<1>4. Fit!OneFetch'
  BY <1>1 DEF Fit!FitInv, Fit!OneFetch
<1>5. Fit!FitIsGrounded'
  BY <1>1, FitAnswerKept DEF Fit!FitInv
<1> QED BY <1>2, <1>3, <1>4, <1>5 DEF Fit!FitInv

\* A batch finds, fetches or dies: its row is a failure or a page.
LEMMA FitBatchMoves ==
  ASSUME Fit!FitInv, NEW b \in Pair, Fit!Find(b) \/ Fit!Fetch(b) \/ Fit!BatchDies(b)
  PROVE  Fit!FitInv'
<1>0. v6 \in [Pair -> FitBatches] /\ v2 \in Fit!Parsed /\ v4 \in Fit!Rows
  BY DEF Fit!FitInv, Fit!TypeOK, FitBatches
<1>1. UNCHANGED <<v1, v2, v3, v4, v5, v7, v8, v9, v10, v11>>
  BY DEF Fit!Find, Fit!Fetch, Fit!BatchDies
<1>2. PICK r \in FitBatches :
        /\ v6' = [v6 EXCEPT ![b] = r]
        /\ r.phase = "parsed" => r.row # Fit!NoRow
        /\ r.phase # "idle" => v4 = Fit!NoRow \/ v6[b].phase # "idle"
  <2>1. CASE Fit!Find(b)
    <3> DEFINE r == [v6[b] EXCEPT !.phase = "found"]
    <3>1. v6' = [v6 EXCEPT ![b] = r] /\ v4 = Fit!NoRow
      BY <1>0, <2>1 DEF Fit!Find
    <3>2. r \in FitBatches /\ r.phase = "found"
      BY <1>0 DEF FitBatches
    <3> HIDE DEF r
    <3> QED BY <3>1, <3>2
  <2>2. CASE Fit!Fetch(b)
    <3>1. PICK row \in {Fit!Fetched(v2), Fit!Failed} :
            v6' = [v6 EXCEPT ![b] = [phase |-> "parsed", row |-> row]]
      BY <2>2 DEF Fit!Fetch
    <3> DEFINE r == [phase |-> "parsed", row |-> row]
    <3>2. row \in Fit!Rows /\ row # Fit!NoRow
      BY <1>0, FitRows
    <3>3. r \in FitBatches /\ r.row = row
      BY <3>2 DEF FitBatches
    <3> HIDE DEF r
    <3>4. v6' = [v6 EXCEPT ![b] = r] /\ v6[b].phase # "idle"
      BY <2>2, <3>1 DEF Fit!Fetch, r
    <3> QED BY <3>2, <3>3, <3>4
  <2>3. CASE Fit!BatchDies(b)
    BY <2>3, FitRows DEF Fit!BatchDies
  <2> QED BY <2>1, <2>2, <2>3
<1>3. v6' \in [Pair -> FitBatches] /\ v6'[b] = r /\ \A c \in Pair : c # b => v6'[c] = v6[c]
  BY <1>0, <1>2
<1>4. /\ v12' \in BOOLEAN /\ (v12 => v12')
      /\ ~v12' => v6[b].phase # "idle" \/ \A c \in Pair : v6[c].phase = "idle"
  <2>1. v12 \in BOOLEAN
    BY DEF Fit!FitInv, Fit!TypeOK
  <2>2. CASE Fit!Find(b)
    BY <2>1, <2>2 DEF Fit!Find
  <2>3. CASE Fit!Fetch(b) \/ Fit!BatchDies(b)
    BY <2>1, <2>3 DEF Fit!Fetch, Fit!BatchDies
  <2> QED BY <2>2, <2>3
<1>5. Fit!TypeOK'
  BY <1>1, <1>3, <1>4 DEF Fit!FitInv, Fit!TypeOK, FitBatches
<1>6. Fit!DetailsAreGrounded'
  BY <1>1, <1>2, <1>3 DEF Fit!FitInv, Fit!DetailsAreGrounded
<1>7. Fit!OneFetch'
  <2> SUFFICES ASSUME ~v12'
               PROVE  /\ \A c, d \in Pair : v6'[c].phase # "idle" /\ v6'[d].phase # "idle" => c = d
                      /\ v4 = Fit!NoRow => v11 = 0 /\ v10 = {}
                      /\ v4 # Fit!NoRow => /\ v11 = 1 /\ (v10 # {} => v4 \in v10)
                                          /\ \A c \in Pair : v6'[c].phase = "idle"
    BY <1>1, FitRows DEF Fit!OneFetch, Fit!NoRow
  <2>1. /\ \A c, d \in Pair : v6[c].phase # "idle" /\ v6[d].phase # "idle" => c = d
        /\ v4 = Fit!NoRow => v11 = 0 /\ v10 = {}
        /\ v4 # Fit!NoRow => /\ v11 = 1 /\ (v10 # {} => v4 \in v10)
                            /\ \A c \in Pair : v6[c].phase = "idle"
    BY <1>4 DEF Fit!FitInv, Fit!OneFetch
  <2>2. \A c \in Pair : c # b /\ v6'[c].phase # "idle" => v6[b].phase = "idle" /\ v6[c].phase # "idle"
    BY <1>3, <2>1
  <2>3. \A c \in Pair : v6'[c].phase # "idle" => c = b
    BY <1>4, <2>2
  <2>4. v4 # Fit!NoRow => r.phase = "idle"
    BY <1>2, <2>1
  <2> QED BY <1>3, <2>1, <2>3, <2>4
<1>8. Fit!FitIsGrounded'
  BY <1>1, FitAnswerKept DEF Fit!FitInv
<1> QED BY <1>5, <1>6, <1>7, <1>8 DEF Fit!FitInv

\* The row of a batch replaces what was there.
LEMMA FitStores ==
  ASSUME Fit!FitInv, NEW b \in Pair, Fit!Store(b) PROVE Fit!FitInv'
<1> DEFINE row == v6[b].row
<1>0. v6 \in [Pair -> FitBatches] /\ v10 \subseteq Fit!Rows /\ v11 \in Nat
  BY DEF Fit!FitInv, Fit!TypeOK, FitBatches
<1>1. /\ UNCHANGED <<v1, v2, v3, v5, v7, v8, v9, v12>> /\ v6[b].phase = "parsed"
      /\ v4' = row /\ v10' = v10 \cup ({row} \ {Fit!Failed}) /\ v11' = v11 + 1
      /\ v6' = [v6 EXCEPT ![b] = Fit!Idle]
  BY DEF Fit!Store
<1>2. row \in Fit!Rows /\ row # Fit!NoRow
  <2>1. v6[b] \in FitBatches
    BY <1>0
  <2> QED BY <1>1, <2>1 DEF FitBatches, Fit!FitInv, Fit!DetailsAreGrounded
<1> HIDE DEF row
<1>3. v6' \in [Pair -> FitBatches] /\ v6'[b].phase = "idle" /\ \A c \in Pair : c # b => v6'[c] = v6[c]
  BY <1>0, <1>1, FitRows
<1>4. Fit!TypeOK'
  <2>1. v10' \subseteq Fit!Rows /\ v11' \in Nat /\ v4' \in Fit!Rows
    BY <1>0, <1>1, <1>2
  <2> QED BY <1>1, <1>3, <2>1 DEF Fit!FitInv, Fit!TypeOK, FitBatches
<1>5. Fit!DetailsAreGrounded'
  <2>1. v4' \in {Fit!NoRow, Fit!Failed} \cup v10'
    BY <1>1
  <2>2. \A c \in Pair : v6'[c].phase = "parsed" => v6'[c].row # Fit!NoRow
    BY <1>3 DEF Fit!FitInv, Fit!DetailsAreGrounded
  <2> QED BY <2>1, <2>2 DEF Fit!DetailsAreGrounded, Fit!NoRow, Fit!Failed
<1>6. Fit!OneFetch'
  <2> SUFFICES ASSUME ~v12
               PROVE  /\ \A c \in Pair : v6'[c].phase = "idle"
                      /\ v11' = 1 /\ (v10' # {} => v4' \in v10')
    BY <1>1, <1>2 DEF Fit!OneFetch, Fit!NoRow
  <2>1. v4 = Fit!NoRow /\ v11 = 0 /\ v10 = {} /\ \A c \in Pair : v6[c].phase # "idle" => c = b
    BY <1>1 DEF Fit!FitInv, Fit!OneFetch
  <2> QED BY <1>1, <1>3, <2>1
<1>7. Fit!FitIsGrounded'
  BY <1>1, FitAnswerKept DEF Fit!FitInv
<1> QED BY <1>4, <1>5, <1>6, <1>7 DEF Fit!FitInv

\* Weights add up: what is earned was evaluated, and what is evaluated is at most 100.
FitStatuses == {"matched", "not_matched", "not_applicable", "unknown"}
LEMMA FitWeights ==
  ASSUME NEW s, DOMAIN s = {"activity", "place", "class"},
         s["activity"] \in FitStatuses, s["place"] \in FitStatuses, s["class"] \in FitStatuses
  PROVE  /\ Fit!Earned(s) <= Fit!Evaluated(s) /\ Fit!Evaluated(s) <= 100
         /\ Fit!Label(s) = "compliant" =>
              Fit!Earned(s) = Fit!Evaluated(s) /\ Fit!Evaluated(s) >= 25
         /\ Fit!Label(s) = "mismatch" => Fit!Earned(s) < Fit!Evaluated(s)
<1> DEFINE E == {"matched", "not_applicable"}  V == {"matched", "not_matched", "not_applicable"}
           F == {"activity", "place", "class"}
           e == [f \in F |-> IF s[f] \in E THEN Fit!Weight[f] ELSE 0]
           v == [f \in F |-> IF s[f] \in V THEN Fit!Weight[f] ELSE 0]
<1>1. Fit!Weight["activity"] = 50 /\ Fit!Weight["place"] = 25 /\ Fit!Weight["class"] = 25
  BY DEF Fit!Weight
<1>2. /\ Fit!Earned(s) = e["activity"] + e["place"] + e["class"]
      /\ Fit!Evaluated(s) = v["activity"] + v["place"] + v["class"]
  BY DEF Fit!Earned, Fit!Evaluated, Fit!Sum
<1>3. \A f \in F :
        /\ e[f] \in Nat /\ v[f] \in Nat /\ e[f] <= v[f] /\ v[f] <= Fit!Weight[f]
        /\ s[f] = "not_matched" => e[f] = 0 /\ v[f] >= 25
        /\ s[f] # "not_matched" => e[f] = v[f]
        /\ s[f] \in {"matched", "not_applicable"} => v[f] >= 25
  BY <1>1 DEF FitStatuses
<1> HIDE DEF e, v
<1>4. /\ Fit!Label(s) = "compliant" =>
           s["class"] \in E /\ s["activity"] # "not_matched" /\ s["place"] # "not_matched"
      /\ Fit!Label(s) = "mismatch" => \E f \in DOMAIN s : s[f] = "not_matched"
  <2>1. s.class = s["class"]
    OBVIOUS
  <2>2. CASE s["class"] = "unknown"
    BY <2>1, <2>2 DEF Fit!Label
  <2>3. CASE s["class"] # "unknown" /\ \E f \in DOMAIN s : s[f] = "not_matched"
    BY <2>1, <2>3 DEF Fit!Label
  <2>4. CASE s["class"] # "unknown" /\ ~\E f \in DOMAIN s : s[f] = "not_matched"
    <3>1. s["class"] \in E
      BY <2>4 DEF FitStatuses
    <3>2. Fit!Label(s) # "mismatch"
      BY <2>1, <2>4 DEF Fit!Label
    <3> QED BY <2>4, <3>1, <3>2
  <2> QED BY <2>2, <2>3, <2>4
<1>5. v["activity"] \in Nat /\ v["place"] \in Nat /\ v["class"] \in Nat
      /\ e["activity"] \in Nat /\ e["place"] \in Nat /\ e["class"] \in Nat
      /\ v["activity"] <= 50 /\ v["place"] <= 25 /\ v["class"] <= 25
      /\ e["activity"] <= v["activity"] /\ e["place"] <= v["place"] /\ e["class"] <= v["class"]
  BY <1>1, <1>3
<1>6. CASE Fit!Label(s) = "compliant"
  <2>1. e["activity"] = v["activity"] /\ e["place"] = v["place"] /\ e["class"] = v["class"]
        /\ v["class"] >= 25
    BY <1>3, <1>4, <1>6
  <2> QED BY <1>2, <1>5, <1>6, <2>1
<1>7. CASE Fit!Label(s) = "mismatch"
  <2>1. PICK f \in F : e[f] = 0 /\ v[f] >= 25
    BY <1>3, <1>4, <1>7
  <2> QED BY <1>2, <1>5, <1>7, <2>1
<1> QED BY <1>2, <1>5, <1>6, <1>7

\* The answer is drawn from the profile that was read and the details as they are.
LEMMA FitReplies == ASSUME Fit!FitInv, Fit!Reply PROVE Fit!FitInv'
<1> DEFINE p == v7.profile  status == Fit!Factors(p, v4)
           new == [label |-> Fit!Label(status), score |-> Fit!Earned(status),
                   most |-> Fit!Evaluated(status), profile |-> p, row |-> v4]
<1>0. v7 \in FitRequests /\ v4 \in Fit!Rows /\ v1 \in {0} \cup Activities
  BY DEF Fit!FitInv, Fit!TypeOK, FitRequests
<1>1. /\ UNCHANGED <<v1, v2, v3, v4, v5, v6, v9, v10, v11, v12>>
      /\ v8' = new /\ v7' = Fit!NoRequest
  BY DEF Fit!Reply
<1>2. /\ status["activity"] = Fit!ActivityFactor(p) /\ status["place"] = Fit!PlaceFactor(p, v4)
      /\ status["class"] = Fit!ClassFactor(p, v4) /\ status.class = Fit!ClassFactor(p, v4)
      /\ DOMAIN status = {"activity", "place", "class"}
  BY DEF Fit!Factors
<1> HIDE DEF status
<1>3. /\ status["activity"] \in FitStatuses
      /\ status["activity"] # "not_matched" => v1 \in {0} \cup p.activities \/ p.activities = {}
  BY <1>2 DEF Fit!ActivityFactor, FitStatuses
<1>4. /\ status["place"] \in FitStatuses
      /\ status["place"] # "not_matched" => v4.place \in {"absent"} \cup p.places \/ p.places = {}
  BY <1>2 DEF Fit!PlaceFactor, FitStatuses
<1>5. /\ status["class"] \in FitStatuses
      /\ status["class"] \in {"matched", "not_applicable"} =>
           v4.class # "absent" /\ v4.class \in {"none"} \cup p.grades
  <2>1. CASE v4.class = "absent"
    <3>1. Fit!Required(v4) = "unknown"
      BY <2>1 DEF Fit!Required
    <3> QED BY <1>2, <3>1 DEF Fit!ClassFactor, FitStatuses
  <2>2. CASE v4.class = "none"
    <3>1. Fit!Required(v4) = "no"
      BY <2>2 DEF Fit!Required
    <3> QED BY <1>2, <2>2, <3>1 DEF Fit!ClassFactor, FitStatuses
  <2>3. CASE v4.class \notin {"absent", "none"}
    <3>1. Fit!Required(v4) = "yes"
      BY <2>3 DEF Fit!Required
    <3> QED BY <1>2, <2>3, <3>1 DEF Fit!ClassFactor, FitStatuses
  <2> QED BY <2>1, <2>2, <2>3
<1>6. Fit!Label(status) = "compliant" =>
        /\ status["class"] \in {"matched", "not_applicable"}
        /\ \A f \in DOMAIN status : status[f] # "not_matched"
  BY <1>2, <1>5 DEF Fit!Label, FitStatuses
<1>7. Fit!Label(status) \in Fit!Labels
  BY DEF Fit!Label, Fit!Labels
<1>8. v4.class # "absent" => v4 \in v10
  BY FitRows DEF Fit!FitInv, Fit!DetailsAreGrounded
<1> DEFINE earned == Fit!Earned(status)  most == Fit!Evaluated(status)
<1>9. /\ earned <= most /\ most <= 100
      /\ Fit!Label(status) = "compliant" => earned = most /\ most >= 25
      /\ Fit!Label(status) = "mismatch" => earned < most
  BY <1>2, <1>3, <1>4, <1>5, FitWeights
<1>10. /\ new.label = Fit!Label(status) /\ new.score = earned /\ new.most = most
       /\ new.profile = p /\ new.row = v4
  OBVIOUS
<1> HIDE DEF new, earned, most, p
<1>11. Fit!FitIsGrounded'
  <2>1. ASSUME new.label = "compliant"
        PROVE  /\ v4 \in v10 /\ v4.class \in {"none"} \cup p.grades
               /\ v4.place \in {"absent"} \cup p.places \/ p.places = {}
               /\ v1 \in {0} \cup p.activities \/ p.activities = {}
    BY <1>2, <1>3, <1>4, <1>5, <1>6, <1>8, <1>10, <2>1
  <2> QED BY <1>1, <1>9, <1>10, <2>1 DEF Fit!FitIsGrounded
<1>12. Fit!TypeOK'
  <2>1. v8'.label \in Fit!Labels /\ v8'.row \in Fit!Rows
    BY <1>0, <1>1, <1>7, <1>10
  <2> QED BY <1>1, <2>1, FitRows DEF Fit!FitInv, Fit!TypeOK, FitRequests
<1>13. Fit!DetailsAreGrounded'
  BY <1>1 DEF Fit!FitInv, Fit!DetailsAreGrounded
<1>14. Fit!OneFetch'
  BY <1>1 DEF Fit!FitInv, Fit!OneFetch
<1> QED BY <1>11, <1>12, <1>13, <1>14 DEF Fit!FitInv

LEMMA FitStep ==
  ASSUME Fit!FitInv, [Fit!Next]_(Fit!vars) PROVE Fit!FitInv'
BY FitOutside, FitBatchMoves, FitStores, FitReplies DEF Fit!Next

LEMMA FitHolds == ASSUME Fit!FitInv PROVE Fit!FitIsGrounded /\ Fit!FetchedOnce
BY DEF Fit!FitInv, Fit!OneFetch, Fit!FetchedOnce

-----------------------------------------------------------------------------
(***************************************************************************)
(* ScenarioVersions: one head.  v1 .. v7 are rows, pursued, request,       *)
(* engine, alone, troubled and healed.                                     *)
(***************************************************************************)
Scenario == [version : Nat, pursued : BOOLEAN, superseded : BOOLEAN]
TopVersion(s) == Scenarios!Max({0} \cup {s[i].version : i \in DOMAIN s})
HeadsOf(s) == {i \in DOMAIN s : ~s[i].superseded}

LEMMA VersionIsNat ==
  ASSUME NEW s \in Seq(Scenario) PROVE \A i \in DOMAIN s : s[i].version \in Nat
<1>1. \A i \in DOMAIN s : s[i] \in Scenario
  OBVIOUS
<1> QED BY <1>1 DEF Scenario

LEMMA TopVersionIs ==
  ASSUME NEW s \in Seq(Scenario), \A i \in DOMAIN s : s[i].version <= Len(s)
  PROVE  /\ TopVersion(s) \in Nat
         /\ \A i \in DOMAIN s : s[i].version <= TopVersion(s)
         /\ TopVersion(s) = 0 \/ \E i \in DOMAIN s : s[i].version = TopVersion(s)
<1> DEFINE S == {0} \cup {s[i].version : i \in DOMAIN s}
<1>1. Len(s) \in Nat /\ S \subseteq 0..Len(s) /\ S # {}
  <2>1. \A x \in S : x \in 0..Len(s)
    BY VersionIsNat
  <2>2. 0 \in S /\ Len(s) \in Nat
    OBVIOUS
  <2> HIDE DEF S
  <2> QED BY <2>1, <2>2
<1>2. \E x \in S : \A y \in S : y <= x
  <2> HIDE DEF S
  <2> QED BY <1>1, LargestExists
<1>3. PICK x \in S : \A y \in S : y <= x
  BY <1>2
<1>4. TopVersion(s) \in S /\ \A y \in S : TopVersion(s) >= y
  <2>1. \A y \in S : x >= y
    BY <1>1, <1>3
  <2>2. TopVersion(s) = CHOOSE z \in S : \A y \in S : z >= y
    BY DEF TopVersion, Scenarios!Max
  <2> QED BY <2>1, <2>2
<1> QED BY <1>1, <1>4

\* The number that is a sequence's highest version is only one.
LEMMA TopVersionUnique ==
  ASSUME NEW s \in Seq(Scenario), \A i \in DOMAIN s : s[i].version <= Len(s),
         NEW n \in Nat, \A i \in DOMAIN s : s[i].version <= n,
         n = 0 \/ \E i \in DOMAIN s : s[i].version = n
  PROVE  TopVersion(s) = n
BY TopVersionIs DEF Scenario

LEMMA SupersedeIs ==
  ASSUME NEW s \in Seq(Scenario), NEW S
  PROVE  LET t == Scenarios!Supersede(s, S)
         IN  /\ t \in Seq(Scenario) /\ Len(t) = Len(s)
             /\ \A i \in 1..Len(s) : t[i].version = s[i].version
             /\ HeadsOf(t) = HeadsOf(s) \ S
             /\ TopVersion(t) = TopVersion(s)
<1> DEFINE t == Scenarios!Supersede(s, S)
<1>1. DOMAIN t = 1..Len(s) /\ DOMAIN s = 1..Len(s) /\ Len(s) \in Nat
  BY DEF Scenarios!Supersede
<1>2. ASSUME NEW i \in 1..Len(s)
      PROVE  /\ t[i] \in Scenario /\ t[i].version = s[i].version
             /\ t[i].superseded <=> (s[i].superseded \/ i \in S)
  <2>1. s[i] \in Scenario
    BY <1>2
  <2> QED BY <1>1, <2>1 DEF Scenarios!Supersede, Scenario
<1>3. t \in Seq(Scenario) /\ Len(t) = Len(s)
  <2>1. t = [i \in 1..Len(s) |-> t[i]]
    BY <1>1 DEF Scenarios!Supersede
  <2> HIDE DEF t
  <2> QED BY <1>1, <1>2, <2>1, IsASeq
<1>4. HeadsOf(t) = HeadsOf(s) \ S
  BY <1>1, <1>2 DEF HeadsOf
<1>5. TopVersion(t) = TopVersion(s)
  <2>1. {t[i].version : i \in DOMAIN t} = {s[i].version : i \in DOMAIN s}
    BY <1>1, <1>2
  <2> QED BY <2>1 DEF TopVersion
<1> QED BY <1>2, <1>3, <1>4, <1>5

LEMMA AppendIs ==
  ASSUME NEW s \in Seq(Scenario), NEW r \in Scenario, ~r.superseded
  PROVE  LET t == Append(s, r)
         IN  /\ t \in Seq(Scenario) /\ Len(t) = Len(s) + 1 /\ t[Len(t)] = r
             /\ \A i \in 1..Len(s) : t[i] = s[i]
             /\ HeadsOf(t) = HeadsOf(s) \cup {Len(t)}
BY AppendProperties DEF HeadsOf

\* A top version and one more row with the next version.
LEMMA AppendNext ==
  ASSUME NEW s \in Seq(Scenario), \A i \in DOMAIN s : s[i].version <= Len(s),
         NEW r \in Scenario, r.version = TopVersion(s) + 1
  PROVE  TopVersion(Append(s, r)) = r.version
<1> DEFINE t == Append(s, r)
<1>1. t \in Seq(Scenario) /\ Len(t) = Len(s) + 1 /\ t[Len(t)] = r /\ Len(s) \in Nat
      /\ (\A i \in 1..Len(s) : t[i] = s[i]) /\ DOMAIN t = 1..Len(t) /\ DOMAIN s = 1..Len(s)
  BY AppendProperties
<1>2. TopVersion(s) \in Nat /\ \A i \in DOMAIN s : s[i].version <= TopVersion(s)
  BY TopVersionIs
<1>3. r.version \in Nat /\ r.version <= Len(t)
  <2>1. TopVersion(s) <= Len(s)
    BY <1>1, TopVersionIs
  <2> QED BY <1>1, <1>2, <2>1
<1>4. \A i \in DOMAIN t : t[i].version <= r.version /\ t[i].version <= Len(t)
  <2> SUFFICES ASSUME NEW i \in DOMAIN t PROVE t[i].version <= r.version /\ t[i].version <= Len(t)
    OBVIOUS
  <2>1. CASE i = Len(t)
    BY <1>1, <1>3, <2>1
  <2>2. CASE i # Len(t)
    <3>1. i \in 1..Len(s) /\ t[i] = s[i] /\ s[i] \in Scenario
      BY <1>1, <2>2
    <3>2. s[i].version \in Nat
      BY <3>1 DEF Scenario
    <3> QED BY <1>1, <1>2, <3>1, <3>2
  <2> QED BY <2>1, <2>2
<1> HIDE DEF t
<1>5. \E i \in DOMAIN t : t[i].version = r.version
  BY <1>1
<1>6. TopVersion(t) = r.version
  BY <1>1, <1>3, <1>4, <1>5, TopVersionUnique
<1> QED BY <1>6 DEF t

-----------------------------------------------------------------------------
\* What leaves the rows alone and idles or moves on a creation.
LEMMA ScenariosInit == ASSUME Scenarios!Init PROVE Scenarios!HeadInv
<1> DEFINE rows == v1  request == v3  engine == v4
<1>1. rows = <<>> /\ Len(rows) = 0 /\ DOMAIN rows = {}
  BY DEF Scenarios!Init
<1>2. Scenarios!TypeOK
  <2>1. rows \in Seq([version : Nat, pursued : BOOLEAN, superseded : BOOLEAN])
    BY <1>1
  <2> QED BY <2>1 DEF Scenarios!Init, Scenarios!TypeOK, Scenarios!Idle, Scenarios!Resting
<1>3. Scenarios!VersionsAreBounded
  BY <1>1 DEF Scenarios!Init, Scenarios!VersionsAreBounded, Scenarios!Idle, Scenarios!Resting
<1>4. Scenarios!Busy = {}
  BY DEF Scenarios!Init, Scenarios!Busy
<1>5. Scenarios!AloneIsInformed
  BY <1>4 DEF Scenarios!Init, Scenarios!AloneIsInformed, Scenarios!Idle, Scenarios!Resting
<1>6. Scenarios!HeadsAreKnown
  BY DEF Scenarios!Init, Scenarios!HeadsAreKnown
<1> QED BY <1>2, <1>3, <1>5, <1>6 DEF Scenarios!HeadInv

\* The inductive invariant over other rows: what the steps that leave the rows alone keep.
LEMMA ScenariosRest ==
  ASSUME Scenarios!HeadInv,
         NEW q \in Pair, Scenarios!Insert(q) \/ Scenarios!InsertFails(q) \/ Scenarios!Abort(q)
  PROVE  Scenarios!HeadInv'
<1> DEFINE rows == v1  request == v3  engine == v4  alone == v5
<1> USE DEF Scenarios!HeadInv
<1>1. rows' = rows /\ engine' = engine /\ alone' \subseteq alone /\ v2' = v2 /\ v6' = v6 /\ v7' = v7
  BY DEF Scenarios!Insert, Scenarios!InsertFails, Scenarios!Abort
<1>2. request[q] # Scenarios!Idle /\ (\/ request' = [request EXCEPT ![q].phase = "supersede"]
                       \/ request' = [request EXCEPT ![q] = Scenarios!Idle])
  BY DEF Scenarios!Insert, Scenarios!InsertFails, Scenarios!Abort, Scenarios!Idle
<1>3. Scenarios!TypeOK'
  <2> DEFINE R == [phase : {"idle", "insert", "supersede"}, version : Nat, pursued : BOOLEAN]
  <2>1. request \in [Pair -> R] /\ Scenarios!Idle \in R
    BY DEF Scenarios!TypeOK, Scenarios!Idle
  <2>2. [request[q] EXCEPT !.phase = "supersede"] \in R
    BY <2>1
  <2>3. request' \in [Pair -> R]
    <3> HIDE DEF R
    <3> QED BY <1>2, <2>1, <2>2
  <2> QED BY <1>1, <2>3 DEF Scenarios!TypeOK
<1>4. ASSUME NEW p \in Pair, request'[p] # Scenarios!Idle
      PROVE  request[p] # Scenarios!Idle /\ request'[p].version = request[p].version
  <2>1. CASE p # q
    BY <1>2, <1>4, <2>1 DEF Scenarios!TypeOK
  <2>2. CASE p = q
    <3>1. request' = [request EXCEPT ![q].phase = "supersede"]
      BY <1>2, <1>4, <2>2 DEF Scenarios!TypeOK
    <3> QED BY <1>2, <2>2, <3>1 DEF Scenarios!TypeOK
  <2> QED BY <2>1, <2>2
<1>5. Scenarios!Busy' \subseteq Scenarios!Busy /\ Scenarios!Highest' = Scenarios!Highest /\ Scenarios!Heads' = Scenarios!Heads
  BY <1>1, <1>4 DEF Scenarios!Busy, Scenarios!Highest, Scenarios!Heads
<1>6. Scenarios!VersionsAreBounded'
  <2>1. \A p \in Pair : request'[p].version \in {0, request[p].version}
    BY <1>4 DEF Scenarios!Idle
  <2>2. Len(rows) \in Nat
    BY DEF Scenarios!TypeOK
  <2> QED BY <1>1, <2>1, <2>2 DEF Scenarios!VersionsAreBounded
<1>7. Scenarios!AloneIsInformed'
  BY <1>1, <1>4, <1>5 DEF Scenarios!AloneIsInformed
<1>8. Scenarios!HeadsAreKnown'
  BY <1>1, <1>5 DEF Scenarios!HeadsAreKnown, Scenarios!Superseding
<1> QED BY <1>3, <1>6, <1>7, <1>8

\* create_scenario reads the highest version.
LEMMA ScenariosRead ==
  ASSUME Scenarios!HeadInv, NEW q \in Pair, Scenarios!ReadVersion(q)
  PROVE  Scenarios!HeadInv'
<1> DEFINE rows == v1  request == v3  engine == v4  alone == v5  troubled == v6
<1> USE DEF Scenarios!HeadInv
<1>0. rows \in Seq(Scenario) /\ Len(rows) \in Nat /\ DOMAIN rows = 1..Len(rows)
  BY DEF Scenarios!TypeOK, Scenario
<1>1. rows' = rows /\ engine' = engine /\ v2' = v2 /\ v7' = v7
      /\ alone' = (IF Scenarios!Busy = {} THEN {q} ELSE {})
      /\ troubled' = (troubled \/ Scenarios!Busy # {})
  BY DEF Scenarios!ReadVersion, Scenarios!Begin
<1>2. Scenarios!Highest = TopVersion(rows)
  BY DEF Scenarios!Highest, TopVersion
<1>3. Scenarios!Highest \in Nat /\ Scenarios!Highest <= Len(rows)
  BY <1>0, <1>2, TopVersionIs DEF Scenarios!VersionsAreBounded
<1>4. request' = [request EXCEPT ![q] = [phase |-> "insert", version |-> Scenarios!Highest + 1,
                                        pursued |-> v2]]
  BY DEF Scenarios!ReadVersion
<1>5. Scenarios!TypeOK'
  <2>1. troubled' \in BOOLEAN
    BY <1>1 DEF Scenarios!TypeOK
  <2>2. request' \in [Pair -> [phase : {"idle", "insert", "supersede"}, version : Nat,
                               pursued : BOOLEAN]]
    BY <1>3, <1>4 DEF Scenarios!TypeOK
  <2> QED BY <1>1, <2>1, <2>2 DEF Scenarios!TypeOK
<1>6. request'[q].version = Scenarios!Highest + 1 /\ \A p \in Pair \ {q} : request'[p] = request[p]
  BY <1>4 DEF Scenarios!TypeOK
<1>7. Scenarios!VersionsAreBounded'
  BY <1>0, <1>1, <1>3, <1>6 DEF Scenarios!VersionsAreBounded
<1>8. Scenarios!Busy' \subseteq Scenarios!Busy \cup {q} /\ Scenarios!Highest' = Scenarios!Highest
      /\ Scenarios!Heads' = Scenarios!Heads
  BY <1>1, <1>6 DEF Scenarios!Busy, Scenarios!Highest, Scenarios!Heads
<1>9. \A p \in Pair \ {q} : request[p] # Scenarios!Idle => Scenarios!Busy # {}
  BY DEF Scenarios!Busy
<1>10. \A e \in Engines : engine[e].phase = "insert" => Scenarios!Busy # {}
  BY DEF Scenarios!Busy, Scenarios!Resting
<1>11. Scenarios!AloneIsInformed'
  BY <1>1, <1>6, <1>8, <1>9, <1>10 DEF Scenarios!AloneIsInformed
<1>12. Scenarios!HeadsAreKnown'
  BY <1>1, <1>8 DEF Scenarios!HeadsAreKnown, Scenarios!Superseding
<1> QED BY <1>5, <1>7, <1>11, <1>12

\* create_scenario inserts its row and supersedes all of an older version.
LEMMA ScenariosCommit ==
  ASSUME Scenarios!HeadInv, NEW q \in Pair, Scenarios!Commit(q)
  PROVE  Scenarios!HeadInv'
<1> DEFINE rows == v1  request == v3  engine == v4  alone == v5  troubled == v6
           r == request[q]
           new == [version |-> r.version, pursued |-> r.pursued, superseded |-> FALSE]
           longer == Append(rows, new)
           elders == Scenarios!Elders(r.version)
<1> USE DEF Scenarios!HeadInv
<1>0. rows \in Seq(Scenario) /\ Len(rows) \in Nat /\ DOMAIN rows = 1..Len(rows)
      /\ new \in Scenario /\ ~new.superseded
  BY DEF Scenarios!TypeOK, Scenario
<1>1. engine' = engine /\ v2' = v2 /\ troubled' = troubled
      /\ alone' = alone \ {q} /\ v7' = (q \in alone)
      /\ request' = [request EXCEPT ![q] = Scenarios!Idle]
      /\ rows' = Scenarios!Supersede(longer, elders)
      /\ request[q] # Scenarios!Idle
  BY DEF Scenarios!Commit, Scenarios!Append1, Scenarios!Idle
<1> HIDE DEF new
<1>2. longer \in Seq(Scenario) /\ Len(longer) = Len(rows) + 1 /\ longer[Len(longer)] = new
      /\ (\A i \in 1..Len(rows) : longer[i] = rows[i])
      /\ HeadsOf(longer) = HeadsOf(rows) \cup {Len(longer)}
  BY <1>0, AppendIs
<1> HIDE DEF longer
<1>3. rows' \in Seq(Scenario) /\ Len(rows') = Len(longer)
      /\ (\A i \in 1..Len(longer) : rows'[i].version = longer[i].version)
      /\ HeadsOf(rows') = HeadsOf(longer) \ elders /\ TopVersion(rows') = TopVersion(longer)
  BY <1>1, <1>2, SupersedeIs
<1>4. Scenarios!Highest = TopVersion(rows) /\ Scenarios!Heads = HeadsOf(rows)
      /\ Scenarios!Highest' = TopVersion(rows') /\ Scenarios!Heads' = HeadsOf(rows')
  BY DEF Scenarios!Highest, TopVersion, Scenarios!Heads, HeadsOf
<1>5. new.version = r.version /\ r.version \in Nat
  BY DEF Scenarios!TypeOK, new
<1>6. Scenarios!TypeOK'
  <2>1. v7' \in BOOLEAN /\ alone' \subseteq Pair \cup Engines
    BY <1>1 DEF Scenarios!TypeOK
  <2> QED BY <1>1, <1>3, <2>1 DEF Scenarios!TypeOK, Scenario, Scenarios!Idle
<1>7. request'[q] = Scenarios!Idle /\ \A p \in Pair \ {q} : request'[p] = request[p]
  BY <1>1 DEF Scenarios!TypeOK
<1>8. Scenarios!VersionsAreBounded'
  <2>1. \A i \in DOMAIN rows' : rows'[i].version <= Len(rows')
    <3>1. \A i \in 1..Len(rows) : rows[i].version \in Nat
      BY <1>0, VersionIsNat
    <3> QED BY <1>0, <1>2, <1>3, <1>5, <3>1 DEF Scenarios!VersionsAreBounded
  <2>2. \A p \in Pair : request'[p].version <= Len(rows') + 1
    <3>1. \A p \in Pair : request[p].version \in Nat
      BY DEF Scenarios!TypeOK
    <3> QED BY <1>0, <1>2, <1>3, <1>7, <3>1 DEF Scenarios!VersionsAreBounded, Scenarios!Idle
  <2>3. \A e \in Engines : engine[e].version \in Nat /\ engine[e].previous \in Nat
    BY DEF Scenarios!TypeOK
  <2> QED BY <1>0, <1>1, <1>2, <1>3, <2>1, <2>2, <2>3 DEF Scenarios!VersionsAreBounded
<1>9. Scenarios!Busy' = Scenarios!Busy \ {q} /\ q \in Scenarios!Busy
  <2>1. q \notin Engines
    BY WorkspaceAssumption
  <2> QED BY <1>1, <1>7, <2>1 DEF Scenarios!Busy
<1>10. ASSUME ~troubled \/ q \in alone
       PROVE  /\ Scenarios!Busy' = {}
              /\ rows'[Len(rows')].version = Scenarios!Highest'
              /\ Scenarios!Heads' = {Len(rows')}
  <2>1. Scenarios!Busy' = {}
    BY <1>9, <1>10 DEF Scenarios!AloneIsInformed
  <2>2. r.version = TopVersion(rows) + 1
    BY <1>1, <1>4, <1>10 DEF Scenarios!AloneIsInformed
  <2>3. TopVersion(longer) = r.version
    BY <1>0, <1>5, <2>2, AppendNext DEF Scenarios!VersionsAreBounded, longer
  <2>4. \A i \in HeadsOf(rows) : i \in elders /\ i # Len(longer)
    <3>1. \A i \in DOMAIN rows : rows[i].version <= TopVersion(rows) /\ TopVersion(rows) \in Nat
      BY <1>0, TopVersionIs DEF Scenarios!VersionsAreBounded
    <3>2. \A i \in DOMAIN rows : rows[i].version \in Nat
      BY <1>0, VersionIsNat
    <3> QED BY <1>0, <1>2, <1>4, <2>2, <3>1, <3>2 DEF Scenarios!Elders, HeadsOf
  <2>5. Len(longer) \notin elders
    BY <1>0, <1>2, <1>4 DEF Scenarios!Elders, HeadsOf
  <2> QED BY <1>0, <1>2, <1>3, <1>4, <1>5, <2>1, <2>3, <2>4, <2>5
<1>11. Scenarios!AloneIsInformed'
  <2>1. ~troubled => Scenarios!Busy' = {}
    BY <1>10
  <2>2. \A x \in alone' : Scenarios!Busy' \subseteq {x}
    BY <1>1, <1>9 DEF Scenarios!AloneIsInformed
  <2>3. ASSUME NEW p \in Pair, request'[p] # Scenarios!Idle, ~troubled' \/ p \in alone' PROVE FALSE
    <3>1. p \in Scenarios!Busy' /\ p # q
      BY <1>7, <2>3 DEF Scenarios!Busy
    <3> QED BY <1>1, <1>9, <2>1, <2>3, <3>1 DEF Scenarios!AloneIsInformed
  <2>4. ASSUME NEW e \in Engines, engine'[e].phase = "insert", ~troubled' PROVE FALSE
    <3>1. e \in Scenarios!Busy'
      BY <2>4 DEF Scenarios!Busy, Scenarios!Resting
    <3> QED BY <1>1, <2>1, <2>4, <3>1
  <2> QED BY <1>1, <2>1, <2>2, <2>3, <2>4 DEF Scenarios!AloneIsInformed
<1>12. Scenarios!HeadsAreKnown'
  <2>1. Scenarios!Busy' = {} => Scenarios!Superseding' = {}
    BY DEF Scenarios!Busy, Scenarios!Superseding, Scenarios!Resting
  <2> QED BY <1>1, <1>10, <2>1 DEF Scenarios!HeadsAreKnown
<1> QED BY <1>6, <1>8, <1>11, <1>12

\* The newest row of the highest version, as the engine looks it up.
LEMMA LatestIs ==
  ASSUME Scenarios!HeadInv
  PROVE  /\ Scenarios!Latest \in 0..Len(v1)
         /\ v1 # <<>> /\ v1[Len(v1)].version = Scenarios!Highest => Scenarios!Latest = Len(v1)
         /\ v1 = <<>> => Scenarios!Latest = 0
<1> DEFINE rows == v1
           S == {0} \cup {i \in DOMAIN rows : rows[i].version = Scenarios!Highest}
<1>1. rows \in Seq(Scenario) /\ Len(rows) \in Nat /\ DOMAIN rows = 1..Len(rows)
  BY DEF Scenarios!HeadInv, Scenarios!TypeOK, Scenario
<1>2. S \subseteq 0..Len(rows) /\ S # {}
  BY <1>1
<1>3. PICK x \in S : \A y \in S : y <= x
  <2> HIDE DEF S
  <2> QED BY <1>1, <1>2, LargestExists
<1>4. Scenarios!Latest \in S /\ \A y \in S : Scenarios!Latest >= y
  <2>1. \A y \in S : x >= y
    BY <1>1, <1>2, <1>3
  <2>2. Scenarios!Latest = CHOOSE z \in S : \A y \in S : z >= y
    BY DEF Scenarios!Latest, Scenarios!Max
  <2> HIDE DEF S
  <2> QED BY <2>1, <2>2
<1>5. ASSUME rows # <<>>, rows[Len(rows)].version = Scenarios!Highest
      PROVE  Scenarios!Latest = Len(rows)
  <2>1. Len(rows) \in 1..Len(rows) /\ rows[Len(rows)].version = Scenarios!Highest
    BY <1>1, <1>5
  <2> Len(rows) \in S
    BY <1>1, <2>1
  <2>2. Scenarios!Latest \in 0..Len(rows) /\ Scenarios!Latest >= Len(rows)
    <3> HIDE DEF S
    <3> QED BY <1>2, <1>4
  <2> HIDE DEF S
  <2>3. Len(rows) \in Nat
    BY <1>1
  <2> QED BY <2>2, <2>3
<1>6. Scenarios!Latest \in 0..Len(rows)
  <2> HIDE DEF S
  <2> QED BY <1>2, <1>4
<1>7. rows = <<>> => Scenarios!Latest = 0
  BY <1>1, <1>6
<1> QED BY <1>5, <1>6, <1>7

\* persist_scenario looks up the latest scenario, or fails to.
LEMMA ScenariosLookup ==
  ASSUME Scenarios!HeadInv, NEW e \in Engines, NEW ok \in BOOLEAN, Scenarios!Lookup(e, ok)
  PROVE  Scenarios!HeadInv'
<1> DEFINE rows == v1  request == v3  engine == v4  alone == v5  troubled == v6
           found == [phase |-> "insert", version |-> Scenarios!Highest + 1,
                     previous |-> Scenarios!Latest]
           nothing == [phase |-> "insert", version |-> 1, previous |-> 0]
<1> USE DEF Scenarios!HeadInv
<1>0. rows \in Seq(Scenario) /\ Len(rows) \in Nat /\ DOMAIN rows = 1..Len(rows)
  BY DEF Scenarios!TypeOK, Scenario
<1>1. rows' = rows /\ request' = request /\ v2' = v2 /\ v7' = v7
      /\ alone' = (IF Scenarios!Busy = {} THEN {e} ELSE {})
      /\ troubled' = (troubled \/ Scenarios!Busy # {} \/ ~ok)
      /\ engine' = [engine EXCEPT ![e] = IF ok THEN found ELSE nothing]
  BY DEF Scenarios!Lookup
<1>2. Scenarios!Highest = TopVersion(rows)
  BY DEF Scenarios!Highest, TopVersion
<1>3. Scenarios!Highest \in Nat /\ Scenarios!Highest <= Len(rows)
  BY <1>0, <1>2, TopVersionIs DEF Scenarios!VersionsAreBounded
<1>4. Scenarios!Latest \in 0..Len(rows)
  BY LatestIs
<1>5. Scenarios!TypeOK'
  <2>1. troubled' \in BOOLEAN
    BY <1>1 DEF Scenarios!TypeOK
  <2>2. engine' \in [Engines -> [phase : {"idle", "insert", "supersede"}, version : Nat,
                                 previous : Nat]]
    BY <1>1, <1>3, <1>4 DEF Scenarios!TypeOK
  <2> QED BY <1>1, <2>1, <2>2 DEF Scenarios!TypeOK
<1>6. engine'[e] = (IF ok THEN found ELSE nothing) /\ \A f \in Engines \ {e} : engine'[f] = engine[f]
  BY <1>1 DEF Scenarios!TypeOK
<1>7. engine[e] = Scenarios!Resting
  BY DEF Scenarios!Lookup
<1>8. Scenarios!VersionsAreBounded'
  <2>1. engine'[e].version <= Len(rows) + 1 /\ engine'[e].previous <= Len(rows)
        /\ engine'[e].phase = "insert"
    BY <1>0, <1>3, <1>4, <1>6
  <2> QED BY <1>1, <1>6, <2>1 DEF Scenarios!VersionsAreBounded
<1>9. Scenarios!Busy' \subseteq Scenarios!Busy \cup {e} /\ Scenarios!Highest' = Scenarios!Highest
      /\ Scenarios!Heads' = Scenarios!Heads
  BY <1>1, <1>6 DEF Scenarios!Busy, Scenarios!Highest, Scenarios!Heads
<1>10. Scenarios!Superseding' = Scenarios!Superseding
  BY <1>6, <1>7 DEF Scenarios!Superseding, Scenarios!Resting
<1>11. Scenarios!HeadsAreKnown'
  <2>1. {engine'[f].previous : f \in Scenarios!Superseding'}
          = {engine[f].previous : f \in Scenarios!Superseding}
    <3>1. \A f \in Scenarios!Superseding : f \in Engines /\ f # e
      BY <1>7 DEF Scenarios!Superseding, Scenarios!Resting
    <3> QED BY <1>6, <1>10, <3>1
  <2> QED BY <1>1, <1>9, <2>1 DEF Scenarios!HeadsAreKnown
<1>12. Scenarios!AloneIsInformed'
  <2>1. CASE Scenarios!Busy # {}
    <3>1. alone' = {} /\ troubled'
      BY <1>1, <2>1
    <3> QED BY <3>1 DEF Scenarios!AloneIsInformed
  <2>2. CASE Scenarios!Busy = {}
    <3>1. \A q \in Pair : request[q] = Scenarios!Idle
      BY <2>2 DEF Scenarios!Busy
    <3>2. \A f \in Engines \ {e} : engine'[f].phase # "insert"
      BY <1>6, <2>2 DEF Scenarios!Busy, Scenarios!Resting
    <3>3. ASSUME ~troubled'
          PROVE  engine'[e].version = Scenarios!Highest + 1 /\ engine'[e].previous = Len(rows)
      <4>1. ok /\ ~troubled /\ engine'[e] = found
        BY <1>1, <1>6, <3>3
      <4>2. Scenarios!Superseding = {}
        BY <2>2 DEF Scenarios!Busy, Scenarios!Superseding, Scenarios!Resting
      <4>3. Scenarios!Latest = Len(rows)
        BY <1>0, <4>1, <4>2, LatestIs DEF Scenarios!HeadsAreKnown
      <4> QED BY <4>1, <4>3
    <3> QED BY <1>1, <1>9, <2>2, <3>1, <3>2, <3>3 DEF Scenarios!AloneIsInformed
  <2> QED BY <2>1, <2>2
<1> QED BY <1>5, <1>8, <1>11, <1>12

\* persist_scenario inserts its row.
LEMMA ScenariosInsert ==
  ASSUME Scenarios!HeadInv, NEW e \in Engines, NEW ok \in BOOLEAN,
         Scenarios!InsertScenario(e, ok)
  PROVE  Scenarios!HeadInv'
<1> DEFINE rows == v1  request == v3  engine == v4  alone == v5  troubled == v6
           mine == engine[e]
           new == [version |-> mine.version, pursued |-> FALSE, superseded |-> FALSE]
<1> USE DEF Scenarios!HeadInv
<1>0. rows \in Seq(Scenario) /\ Len(rows) \in Nat /\ DOMAIN rows = 1..Len(rows)
      /\ new \in Scenario /\ ~new.superseded
  BY DEF Scenarios!TypeOK, Scenario
<1>1. request' = request /\ v2' = v2 /\ alone' = alone /\ troubled' = troubled
      /\ (IF ok THEN rows' = Append(rows, new) /\ v7' = FALSE ELSE rows' = rows /\ v7' = v7)
      /\ mine.phase = "insert"
  BY DEF Scenarios!InsertScenario, Scenarios!Append1
<1> HIDE DEF new
<1>2. engine'[e] = (IF ok /\ mine.previous # 0 THEN [mine EXCEPT !.phase = "supersede"]
                    ELSE Scenarios!Resting)
      /\ (\A f \in Engines \ {e} : engine'[f] = engine[f])
      /\ engine' \in [Engines -> [phase : {"idle", "insert", "supersede"}, version : Nat,
                                  previous : Nat]]
  BY DEF Scenarios!InsertScenario, Scenarios!TypeOK, Scenarios!Resting
<1>3. mine.previous \in Nat /\ mine.version \in Nat /\ mine.version <= Len(rows) + 1
      /\ mine.previous <= Len(rows)
  BY DEF Scenarios!TypeOK, Scenarios!VersionsAreBounded
<1>4. ok => /\ rows' \in Seq(Scenario) /\ Len(rows') = Len(rows) + 1 /\ rows'[Len(rows')] = new
            /\ \A i \in 1..Len(rows) : rows'[i] = rows[i]
            /\ HeadsOf(rows') = HeadsOf(rows) \cup {Len(rows')}
  <2> DEFINE t == Append(rows, new)
  <2>1. /\ t \in Seq(Scenario) /\ Len(t) = Len(rows) + 1 /\ t[Len(t)] = new
        /\ \A i \in 1..Len(rows) : t[i] = rows[i]
        /\ HeadsOf(t) = HeadsOf(rows) \cup {Len(t)}
    BY <1>0, AppendIs
  <2>2. ok => rows' = t
    BY <1>1
  <2> HIDE DEF t
  <2> QED BY <2>1, <2>2
<1>5. Scenarios!Highest = TopVersion(rows) /\ Scenarios!Heads = HeadsOf(rows)
      /\ Scenarios!Highest' = TopVersion(rows') /\ Scenarios!Heads' = HeadsOf(rows')
  BY DEF Scenarios!Highest, TopVersion, Scenarios!Heads, HeadsOf
<1>6. Scenarios!TypeOK'
  <2>1. rows' \in Seq(Scenario)
    BY <1>0, <1>1, <1>4
  <2>2. v7' \in BOOLEAN
    BY <1>1 DEF Scenarios!TypeOK
  <2> QED BY <1>1, <1>2, <2>1, <2>2 DEF Scenarios!TypeOK, Scenario
<1>7. Scenarios!VersionsAreBounded'
  <2>1. Len(rows') = (IF ok THEN Len(rows) + 1 ELSE Len(rows)) /\ Len(rows) \in Nat
    BY <1>0, <1>1, <1>4
  <2>2. \A i \in DOMAIN rows' : rows'[i].version <= Len(rows')
    <3>1. \A i \in 1..Len(rows) : rows[i].version \in Nat
      BY <1>0, VersionIsNat
    <3>2. CASE ok
      <4>1. new.version = mine.version
        BY DEF new
      <4>2. DOMAIN rows' = 1..Len(rows')
        BY <1>4, <3>2
      <4> QED BY <1>0, <1>3, <1>4, <2>1, <3>1, <3>2, <4>1, <4>2 DEF Scenarios!VersionsAreBounded
    <3>3. CASE ~ok
      BY <1>1, <3>3 DEF Scenarios!VersionsAreBounded
    <3> QED BY <3>2, <3>3
  <2>3. \A p \in Pair : request'[p].version <= Len(rows') + 1
    <3>1. \A p \in Pair : request[p].version \in Nat
      BY DEF Scenarios!TypeOK
    <3> QED BY <1>1, <2>1, <3>1 DEF Scenarios!VersionsAreBounded
  <2>4. ASSUME NEW f \in Engines
        PROVE  /\ engine'[f].version <= Len(rows') + 1 /\ engine'[f].previous <= Len(rows')
               /\ engine'[f].phase = "supersede" => engine'[f].previous \in 1..(Len(rows') - 1)
    <3>1. engine[f].version \in Nat /\ engine[f].previous \in Nat
      BY DEF Scenarios!TypeOK
    <3>2. CASE f # e
      BY <1>2, <2>1, <3>1, <3>2 DEF Scenarios!VersionsAreBounded
    <3>3. CASE f = e /\ ok /\ mine.previous # 0
      <4>1. engine'[f].version = mine.version /\ engine'[f].previous = mine.previous
        BY <1>2, <3>3 DEF Scenarios!TypeOK
      <4> QED BY <1>3, <2>1, <3>3, <4>1
    <3>4. CASE f = e /\ ~(ok /\ mine.previous # 0)
      BY <1>2, <2>1, <3>4 DEF Scenarios!Resting
    <3> QED BY <3>2, <3>3, <3>4
  <2> QED BY <2>2, <2>3, <2>4 DEF Scenarios!VersionsAreBounded
<1>8. e \in Scenarios!Busy /\ Scenarios!Busy' \subseteq Scenarios!Busy
  BY <1>1, <1>2 DEF Scenarios!Busy, Scenarios!Resting
<1>9. ASSUME ~troubled
      PROVE  /\ \A p \in Pair : request[p] = Scenarios!Idle
             /\ \A f \in Engines \ {e} : engine[f] = Scenarios!Resting
  <2>1. \A x \in Scenarios!Busy : x = e
    BY <1>8, <1>9 DEF Scenarios!AloneIsInformed
  <2> QED BY <2>1, WorkspaceAssumption DEF Scenarios!Busy
<1>10. Scenarios!AloneIsInformed'
  <2>1. ASSUME NEW q \in Pair, request'[q] # Scenarios!Idle, ~troubled' \/ q \in alone'
        PROVE  FALSE
    <3>1. q \in alone /\ q # e
      BY <1>1, <1>9, <2>1, WorkspaceAssumption
    <3> QED BY <1>8, <3>1 DEF Scenarios!AloneIsInformed
  <2>2. ASSUME NEW f \in Engines, engine'[f].phase = "insert", ~troubled' PROVE FALSE
    BY <1>1, <1>2, <1>9, <2>2 DEF Scenarios!Resting, Scenarios!TypeOK
  <2> QED BY <1>1, <1>8, <2>1, <2>2 DEF Scenarios!AloneIsInformed
<1>11. Scenarios!HeadsAreKnown'
  <2>1. CASE ~ok
    <3>1. Scenarios!Superseding' = Scenarios!Superseding
          /\ \A f \in Scenarios!Superseding : engine'[f] = engine[f]
      BY <1>1, <1>2, <2>1 DEF Scenarios!Superseding, Scenarios!Resting
    <3> QED BY <1>1, <1>5, <2>1, <3>1 DEF Scenarios!HeadsAreKnown
  <2>2. CASE ok /\ troubled
    BY <1>1, <2>2 DEF Scenarios!HeadsAreKnown
  <2>3. CASE ok /\ ~troubled
    <3>1. mine.version = TopVersion(rows) + 1 /\ mine.previous = Len(rows)
      BY <1>1, <1>5, <2>3 DEF Scenarios!AloneIsInformed
    <3>2. rows'[Len(rows')].version = Scenarios!Highest'
      <4>1. new.version = mine.version
        BY DEF new
      <4> QED BY <1>0, <1>1, <1>4, <1>5, <2>3, <3>1, <4>1, AppendNext
              DEF Scenarios!VersionsAreBounded
    <3>3. Scenarios!Superseding = {}
      BY <1>1, <1>9, <2>3 DEF Scenarios!Superseding, Scenarios!Resting
    <3>4. CASE rows = <<>>
      <4>1. engine'[e] = Scenarios!Resting
        BY <1>0, <1>2, <3>1, <3>4
      <4>2. Scenarios!Superseding' = {} /\ HeadsOf(rows) = {}
        BY <1>2, <1>9, <2>3, <3>4, <4>1 DEF Scenarios!Superseding, Scenarios!Resting, HeadsOf
      <4> QED BY <1>1, <1>4, <1>5, <2>3, <3>2, <4>2 DEF Scenarios!HeadsAreKnown
    <3>5. CASE rows # <<>>
      <4>1. mine.previous # 0
        BY <1>0, <3>1, <3>5
      <4>2. engine'[e].phase = "supersede" /\ engine'[e].previous = Len(rows)
        BY <1>2, <2>3, <3>1, <4>1 DEF Scenarios!TypeOK
      <4>3. Scenarios!Superseding' = {e}
        BY <1>2, <1>9, <2>3, <4>2 DEF Scenarios!Superseding, Scenarios!Resting
      <4>4. Scenarios!Heads = {Len(rows)}
        BY <2>3, <3>3, <3>5 DEF Scenarios!HeadsAreKnown
      <4>5. {engine'[f].previous : f \in Scenarios!Superseding'} = {Len(rows)}
        BY <4>2, <4>3
      <4> QED BY <1>1, <1>4, <1>5, <2>3, <3>2, <4>4, <4>5 DEF Scenarios!HeadsAreKnown
    <3> QED BY <3>4, <3>5
  <2> QED BY <2>1, <2>2, <2>3
<1> QED BY <1>6, <1>7, <1>10, <1>11

\* persist_scenario supersedes the row it had looked up, fails to, or dies before.
LEMMA ScenariosSupersede ==
  ASSUME Scenarios!HeadInv, NEW e \in Engines,
         \/ \E ok \in BOOLEAN : Scenarios!SupersedeScenario(e, ok)
         \/ Scenarios!Die(e)
  PROVE  Scenarios!HeadInv'
<1> DEFINE rows == v1  request == v3  engine == v4  alone == v5  troubled == v6
           previous == engine[e].previous
<1> USE DEF Scenarios!HeadInv
<1>0. rows \in Seq(Scenario) /\ Len(rows) \in Nat /\ DOMAIN rows = 1..Len(rows)
  BY DEF Scenarios!TypeOK, Scenario
<1>1. /\ request' = request /\ v2' = v2 /\ alone' = alone /\ v7' = v7
      /\ engine' = [engine EXCEPT ![e] = Scenarios!Resting] /\ engine[e] # Scenarios!Resting
      /\ troubled' \in BOOLEAN /\ (troubled => troubled')
      /\ \/ rows' = rows /\ troubled'
         \/ rows' = Scenarios!Supersede(rows, {previous}) /\ engine[e].phase = "supersede"
  <2>1. CASE Scenarios!Die(e)
    BY <2>1 DEF Scenarios!Die
  <2>2. ASSUME NEW ok \in BOOLEAN, Scenarios!SupersedeScenario(e, ok)
        PROVE  /\ UNCHANGED <<v2, v3, v5, v7>> /\ engine[e] # Scenarios!Resting
               /\ engine' = [engine EXCEPT ![e] = Scenarios!Resting]
               /\ troubled' = (troubled \/ ~ok) /\ engine[e].phase = "supersede"
               /\ IF ok THEN rows' = Scenarios!Supersede(rows, {previous}) ELSE rows' = rows
    BY <2>2 DEF Scenarios!SupersedeScenario, Scenarios!Resting
  <2>3. troubled \in BOOLEAN
    BY DEF Scenarios!TypeOK
  <2> QED BY <2>1, <2>2, <2>3
<1>2. engine'[e] = Scenarios!Resting /\ (\A f \in Engines \ {e} : engine'[f] = engine[f])
      /\ engine' \in [Engines -> [phase : {"idle", "insert", "supersede"}, version : Nat,
                                  previous : Nat]]
  BY <1>1 DEF Scenarios!TypeOK, Scenarios!Resting
<1>3. /\ rows' \in Seq(Scenario) /\ Len(rows') = Len(rows)
      /\ \A i \in 1..Len(rows) : rows'[i].version = rows[i].version
      /\ TopVersion(rows') = TopVersion(rows)
      /\ \/ HeadsOf(rows') = HeadsOf(rows) /\ troubled'
         \/ HeadsOf(rows') = HeadsOf(rows) \ {previous} /\ engine[e].phase = "supersede"
  BY <1>0, <1>1, SupersedeIs
<1>4. Scenarios!Highest = TopVersion(rows) /\ Scenarios!Heads = HeadsOf(rows)
      /\ Scenarios!Highest' = TopVersion(rows') /\ Scenarios!Heads' = HeadsOf(rows')
  BY DEF Scenarios!Highest, TopVersion, Scenarios!Heads, HeadsOf
<1>5. Scenarios!TypeOK'
  BY <1>1, <1>2, <1>3 DEF Scenarios!TypeOK, Scenario
<1>6. Scenarios!VersionsAreBounded'
  <2>1. DOMAIN rows' = 1..Len(rows)
    BY <1>3
  <2> QED BY <1>0, <1>1, <1>2, <1>3, <2>1 DEF Scenarios!VersionsAreBounded, Scenarios!Resting
<1>7. e \in Scenarios!Busy /\ Scenarios!Busy' \subseteq Scenarios!Busy
  BY <1>1, <1>2 DEF Scenarios!Busy
<1>8. ASSUME NEW q \in Pair, request[q] # Scenarios!Idle PROVE q \notin alone /\ troubled
  <2>1. q \in Scenarios!Busy /\ q # e
    BY <1>8, WorkspaceAssumption DEF Scenarios!Busy
  <2> QED BY <1>7, <2>1 DEF Scenarios!AloneIsInformed
<1>9. ASSUME ~troubled PROVE \A f \in Engines \ {e} : engine[f] = Scenarios!Resting
  <2>1. \A x \in Scenarios!Busy : x = e
    BY <1>7, <1>9 DEF Scenarios!AloneIsInformed
  <2> QED BY <2>1 DEF Scenarios!Busy
<1>10. Scenarios!AloneIsInformed'
  <2>1. ASSUME NEW f \in Engines, engine'[f].phase = "insert", ~troubled' PROVE FALSE
    BY <1>1, <1>2, <1>9, <2>1 DEF Scenarios!Resting
  <2> QED BY <1>1, <1>7, <1>8, <2>1 DEF Scenarios!AloneIsInformed
<1>11. Scenarios!HeadsAreKnown'
  <2>1. engine[e].phase = "supersede" => previous \in 1..(Len(rows) - 1)
    BY DEF Scenarios!VersionsAreBounded
  <2>2. v7' => Scenarios!Heads' = {Len(rows')}
    BY <1>0, <1>1, <1>3, <1>4, <2>1 DEF Scenarios!HeadsAreKnown
  <2>3. ASSUME ~troubled', rows' # <<>>
        PROVE  /\ rows'[Len(rows')].version = Scenarios!Highest'
               /\ Scenarios!Heads' = {Len(rows')} /\ Scenarios!Superseding' = {}
    <3>1. ~troubled /\ engine[e].phase = "supersede" /\ rows # <<>>
      BY <1>0, <1>1, <1>3, <2>3
    <3>2. Scenarios!Superseding = {e} /\ Scenarios!Superseding' = {}
      BY <1>2, <1>9, <3>1 DEF Scenarios!Superseding, Scenarios!Resting
    <3>3. Scenarios!Heads = {Len(rows), previous} /\ rows[Len(rows)].version = Scenarios!Highest
      BY <3>1, <3>2 DEF Scenarios!HeadsAreKnown
    <3> QED BY <1>0, <1>3, <1>4, <2>1, <2>3, <3>1, <3>2, <3>3
  <2> QED BY <2>2, <2>3 DEF Scenarios!HeadsAreKnown
<1> QED BY <1>5, <1>6, <1>10, <1>11

LEMMA ScenariosStep ==
  ASSUME Scenarios!HeadInv, [Scenarios!Next]_(Scenarios!vars) PROVE Scenarios!HeadInv'
<1>1. CASE Scenarios!CreatePursuit \/ UNCHANGED Scenarios!vars
  <2>1. UNCHANGED <<v1, v3, v4, v5, v6, v7>> /\ v2' \in BOOLEAN
    BY <1>1 DEF Scenarios!CreatePursuit, Scenarios!vars, Scenarios!HeadInv, Scenarios!TypeOK
  <2>2. /\ Scenarios!Busy' = Scenarios!Busy /\ Scenarios!Highest' = Scenarios!Highest
        /\ Scenarios!Heads' = Scenarios!Heads /\ Scenarios!Superseding' = Scenarios!Superseding
    BY <2>1 DEF Scenarios!Busy, Scenarios!Highest, Scenarios!Heads, Scenarios!Superseding
  <2>3. Scenarios!TypeOK' /\ Scenarios!VersionsAreBounded'
    BY <2>1 DEF Scenarios!HeadInv, Scenarios!TypeOK, Scenarios!VersionsAreBounded
  <2>4. Scenarios!AloneIsInformed' /\ Scenarios!HeadsAreKnown'
    BY <2>1, <2>2 DEF Scenarios!HeadInv, Scenarios!AloneIsInformed, Scenarios!HeadsAreKnown
  <2> QED BY <2>3, <2>4 DEF Scenarios!HeadInv
<1> QED BY <1>1, ScenariosRest, ScenariosRead, ScenariosCommit, ScenariosLookup, ScenariosInsert,
           ScenariosSupersede DEF Scenarios!Next

LEMMA ScenariosHead == ASSUME Scenarios!HeadInv PROVE Scenarios!OneHead
<1>1. (\A e \in Engines : v4[e].phase # "supersede") => Scenarios!Superseding = {}
  BY DEF Scenarios!Superseding
<1> QED BY <1>1 DEF Scenarios!HeadInv, Scenarios!HeadsAreKnown, Scenarios!OneHead

-----------------------------------------------------------------------------
(***************************************************************************)
(* PredictionClock: what is scored was blind, and counts once.  v1 .. v11  *)
(* are clock, opening, awards, firstSeen, preds, scored, noted, run,       *)
(* known, loose and changes.                                               *)
(***************************************************************************)
Prediction == [generated : Nat, day : Nat, suppressed : BOOLEAN]
NotAfter(s, j, i) == \/ s[j].generated < s[i].generated
                     \/ s[j].generated = s[i].generated /\ j <= i
LatestOf(s, B) == CHOOSE i \in B : \A j \in B : NotAfter(s, j, i)

LEMMA GeneratedIsNat ==
  ASSUME NEW s \in Seq(Prediction) PROVE \A i \in DOMAIN s : s[i].generated \in Nat
<1>1. \A i \in DOMAIN s : s[i] \in Prediction
  OBVIOUS
<1> QED BY <1>1 DEF Prediction

\* Of some predictions generated before n, one is the latest.
LEMMA LatestOfIs ==
  ASSUME NEW s \in Seq(Prediction), NEW B, B \subseteq DOMAIN s, B # {}, NEW n \in Nat,
         \A i \in B : s[i].generated <= n
  PROVE  LatestOf(s, B) \in B /\ \A j \in B : NotAfter(s, j, LatestOf(s, B))
<1> DEFINE G == {s[i].generated : i \in B}
<1>1. \A i \in B : i \in 1..Len(s) /\ s[i].generated \in Nat
  BY GeneratedIsNat
<1>2. PICK g \in G : \A h \in G : h <= g
  <2>1. \A g \in G : g \in 0..n
    BY <1>1
  <2>2. G # {}
    OBVIOUS
  <2> HIDE DEF G
  <2>3. G \subseteq 0..n
    BY <2>1
  <2> QED BY <2>2, <2>3, LargestExists
<1> DEFINE I == {i \in B : s[i].generated = g}
<1>3. PICK i \in I : \A j \in I : j <= i
  <2>1. \A j \in I : j \in 0..Len(s)
    BY <1>1
  <2>2. I # {}
    BY <1>2
  <2> HIDE DEF I
  <2>3. I \subseteq 0..Len(s) /\ Len(s) \in Nat
    BY <2>1
  <2> QED BY <2>2, <2>3, LargestExists
<1>4. ASSUME NEW j \in B PROVE NotAfter(s, j, i)
  <2>1. s[j].generated \in Nat /\ s[j].generated <= g /\ s[i].generated = g /\ g \in Nat
    BY <1>1, <1>2
  <2>2. s[j].generated = g => j <= i
    BY <1>3
  <2> QED BY <2>1, <2>2 DEF NotAfter
<1>5. i \in B
  OBVIOUS
<1> QED BY <1>4, <1>5 DEF LatestOf

LEMMA LatestOfUnique ==
  ASSUME NEW s \in Seq(Prediction), NEW B, B \subseteq DOMAIN s, NEW i \in B, NEW k \in B,
         \A j \in B : NotAfter(s, j, i), \A j \in B : NotAfter(s, j, k)
  PROVE  i = k
<1>1. s[i].generated \in Nat /\ s[k].generated \in Nat /\ i \in Nat /\ k \in Nat
  BY GeneratedIsNat
<1> QED BY <1>1 DEF NotAfter

\* More predictions, none of them in B: the latest of B stays.
LEMMA LatestOfKept ==
  ASSUME NEW s \in Seq(Prediction), NEW t \in Seq(Prediction), NEW B, B \subseteq DOMAIN s,
         B # {}, Len(s) <= Len(t), \A i \in DOMAIN s : t[i] = s[i],
         NEW n \in Nat, \A i \in B : s[i].generated <= n
  PROVE  LatestOf(t, B) = LatestOf(s, B)
<1>1. B \subseteq DOMAIN t /\ \A i \in B : t[i].generated <= n
  OBVIOUS
<1>2. LatestOf(s, B) \in B /\ \A j \in B : NotAfter(s, j, LatestOf(s, B))
  BY LatestOfIs
<1>3. LatestOf(t, B) \in B /\ \A j \in B : NotAfter(t, j, LatestOf(t, B))
  BY <1>1, LatestOfIs
<1>4. \A j \in B : NotAfter(s, j, LatestOf(t, B))
  BY <1>3 DEF NotAfter
<1> QED BY <1>2, <1>3, <1>4, LatestOfUnique

-----------------------------------------------------------------------------
\* The bound of the scorecard is never after the first sight of the award.
LEMMA BlindUntilIs ==
  ASSUME NEW seen \in Nat, NEW open \in Nat
  PROVE  LET until == Accuracy!Min({seen, IF open # 0 THEN open ELSE seen})
         IN  until \in Nat /\ until <= seen
<1> DEFINE S == {seen, IF open # 0 THEN open ELSE seen}
<1>1. \E x \in S : \A y \in S : x =< y
  OBVIOUS
<1>2. Accuracy!Min(S) \in S /\ \A y \in S : Accuracy!Min(S) =< y
  BY <1>1 DEF Accuracy!Min
<1>3. \A x \in S : x \in Nat
  OBVIOUS
<1> QED BY <1>2, <1>3

LEMMA BlindIs ==
  ASSUME Accuracy!TypeOK
  PROVE  /\ Accuracy!BlindUntil \in Nat /\ Accuracy!BlindUntil <= v4 /\ v4 \in Nat
         /\ v5 \in Seq(Prediction) /\ Accuracy!Blind \subseteq DOMAIN v5
         /\ Accuracy!LatestBlind = LatestOf(v5, Accuracy!Blind)
         /\ \A i \in Accuracy!Blind : v5[i].generated <= v4 /\ v5[i].generated < v4 /\ v4 # 0
<1>1. v2 \in Nat /\ v4 \in Nat /\ v5 \in Seq(Prediction)
  BY WorkspaceAssumption DEF Accuracy!TypeOK, Prediction
<1>2. Accuracy!BlindUntil \in Nat /\ Accuracy!BlindUntil <= v4
  BY <1>1, BlindUntilIs DEF Accuracy!BlindUntil
<1>3. Accuracy!Blind \subseteq DOMAIN v5
  BY DEF Accuracy!Blind
<1>4. Accuracy!LatestBlind = LatestOf(v5, Accuracy!Blind)
  BY DEF Accuracy!LatestBlind, LatestOf, NotAfter
<1>5. \A i \in DOMAIN v5 : v5[i].generated \in Nat
  BY <1>1, GeneratedIsNat
<1> QED BY <1>1, <1>2, <1>3, <1>4, <1>5 DEF Accuracy!Blind

LEMMA AccuracyInit == ASSUME Accuracy!Init PROVE Accuracy!ScoreInv
<1>1. v5 = <<>> /\ v6 = <<>> /\ v7 = {} /\ DOMAIN v5 = {} /\ DOMAIN v6 = {} /\ Len(v6) = 0
  BY DEF Accuracy!Init
<1>2. v8 \in [Pair -> [phase : {"idle", "compute", "store", "score", "insert"}, day : Nat,
                       generated : Nat, suppressed : BOOLEAN, target : Nat]]
  BY DEF Accuracy!Init, Accuracy!Idle
<1>3. v2 \in 0..AccuracyClock /\ v1 \in 0..AccuracyClock /\ v4 \in 0..AccuracyClock
      /\ v9 \in 0..AccuracyClock /\ v3 \in 0..2 /\ v11 \in 0..AccuracyChanges
  BY WorkspaceAssumption DEF Accuracy!Init
<1>4. v5 \in Seq(Prediction) /\ v6 \in Seq(DOMAIN v5) /\ v7 \subseteq DOMAIN v5 /\ v10 \in BOOLEAN
  <2>1. v10 \in BOOLEAN
    BY DEF Accuracy!Init
  <2>2. <<>> \in Seq(Prediction) /\ <<>> \in Seq(DOMAIN v5)
    BY EmptySeq
  <2> QED BY <1>1, <2>1, <2>2
<1>5. Accuracy!TypeOK
  BY <1>2, <1>3, <1>4 DEF Accuracy!TypeOK, Prediction
<1>6. Accuracy!Inserting = {}
  BY DEF Accuracy!Init, Accuracy!Inserting, Accuracy!Idle
<1> QED BY <1>1, <1>5, <1>6
        DEF Accuracy!Init, Accuracy!ScoreInv, Accuracy!TargetsAreBlind, Accuracy!LatestIsHeldOnce

\* The latest blind prediction stays, and nothing new is held.
LEMMA HeldOnceKept ==
  ASSUME Accuracy!LatestIsHeldOnce, v6' = v6, v10 => v10',
         Accuracy!Blind' = Accuracy!Blind, Accuracy!LatestBlind' = Accuracy!LatestBlind,
         Accuracy!Inserting' \subseteq Accuracy!Inserting,
         \A r \in Accuracy!Inserting' : v8'[r] = v8[r]
  PROVE  Accuracy!LatestIsHeldOnce'
<1>1. SUFFICES ASSUME ~v10'
               PROVE  /\ Len(v6) <= 1
                      /\ \A q, r \in Accuracy!Inserting' : q = r
                      /\ Accuracy!Inserting' # {} => v6 = <<>>
                      /\ v6 # <<>> \/ Accuracy!Inserting' # {} => Accuracy!Blind # {}
                      /\ \A k \in DOMAIN v6 : v6[k] = Accuracy!LatestBlind
                      /\ \A r \in Accuracy!Inserting' : v8'[r].target = Accuracy!LatestBlind
  BY Zenon DEF Accuracy!LatestIsHeldOnce
<1>2. ~v10
  BY <1>1
<1> QED BY <1>2 DEF Accuracy!LatestIsHeldOnce

\* Steps that leave predictions, dates and scores alone, and start no scoring.
LEMMA AccuracyQuiet ==
  ASSUME Accuracy!ScoreInv, Accuracy!TypeOK', UNCHANGED <<v2, v4, v5, v6, v9, v10>>,
         \A r \in Pair : v8'[r].phase = "insert" => v8'[r] = v8[r]
  PROVE  Accuracy!ScoreInv'
<1>1. Accuracy!Inserting' \subseteq Accuracy!Inserting
      /\ \A r \in Accuracy!Inserting' : v8'[r] = v8[r]
  BY DEF Accuracy!Inserting
<1>2. Accuracy!BlindUntil' = Accuracy!BlindUntil
  BY DEF Accuracy!BlindUntil
<1>3. Accuracy!Blind' = Accuracy!Blind
  BY <1>2 DEF Accuracy!Blind
<1>4. Accuracy!LatestBlind' = Accuracy!LatestBlind
  BY <1>3 DEF Accuracy!LatestBlind
<1>5. Accuracy!TargetsAreBlind'
  BY <1>1 DEF Accuracy!ScoreInv, Accuracy!TargetsAreBlind, Accuracy!IsBlind
<1>6. Accuracy!LatestIsHeldOnce'
  BY <1>1, <1>3, <1>4, HeldOnceKept DEF Accuracy!ScoreInv
<1> QED BY <1>5, <1>6 DEF Accuracy!ScoreInv

RunRecord == [phase : {"idle", "compute", "store", "score", "insert"}, day : Nat,
              generated : Nat, suppressed : BOOLEAN, target : Nat]

LEMMA AccuracyRunMoves ==
  ASSUME Accuracy!ScoreInv, NEW r \in Pair,
         \/ Accuracy!Select(r) \/ Accuracy!ComputeFails(r) \/ Accuracy!Die(r)
         \/ \E suppressed \in BOOLEAN : Accuracy!Compute(r, suppressed)
  PROVE  Accuracy!ScoreInv'
<1> DEFINE clock == v1  run == v8
<1>1. run \in [Pair -> RunRecord] /\ clock \in Nat
  BY WorkspaceAssumption DEF Accuracy!ScoreInv, Accuracy!TypeOK, RunRecord
<1>2. UNCHANGED <<v1, v2, v3, v4, v5, v6, v7, v9, v10, v11>>
  BY DEF Accuracy!Select, Accuracy!ComputeFails, Accuracy!Die, Accuracy!Compute
<1>3. run' \in [Pair -> RunRecord] /\ run'[r].phase # "insert"
      /\ \A q \in Pair \ {r} : run'[q] = run[q]
  <2>1. CASE Accuracy!Select(r)
    <3>1. Accuracy!Day(clock) \in Nat
      BY <1>1, WorkspaceAssumption DEF Accuracy!Day
    <3> QED BY <1>1, <2>1, <3>1 DEF Accuracy!Select, Accuracy!Idle, RunRecord
  <2>2. CASE Accuracy!ComputeFails(r) \/ Accuracy!Die(r)
    <3>1. Accuracy!Idle \in RunRecord /\ [Accuracy!Idle EXCEPT !.phase = "score"] \in RunRecord
          /\ Accuracy!Idle.phase # "insert"
          /\ [Accuracy!Idle EXCEPT !.phase = "score"].phase # "insert"
      BY DEF Accuracy!Idle, RunRecord
    <3>2. \/ run' = [run EXCEPT ![r] = Accuracy!Idle]
          \/ run' = [run EXCEPT ![r] = [Accuracy!Idle EXCEPT !.phase = "score"]]
      BY <2>2 DEF Accuracy!ComputeFails, Accuracy!Die
    <3> QED BY <1>1, <3>1, <3>2
  <2>3. ASSUME NEW suppressed \in BOOLEAN, Accuracy!Compute(r, suppressed)
        PROVE  run' \in [Pair -> RunRecord] /\ run'[r].phase # "insert"
               /\ \A q \in Pair \ {r} : run'[q] = run[q]
    <3>1. run' = [run EXCEPT ![r] = [run[r] EXCEPT !.phase = "store", !.generated = clock,
                                                   !.suppressed = suppressed]]
      BY <1>1, <2>3 DEF Accuracy!Compute
    <3>2. [run[r] EXCEPT !.phase = "store", !.generated = clock, !.suppressed = suppressed]
            \in RunRecord
      BY <1>1 DEF RunRecord
    <3>3. run'[r].phase = "store"
      BY <1>1, <3>1 DEF RunRecord
    <3> QED BY <1>1, <3>1, <3>2, <3>3
  <2> QED BY <2>1, <2>2, <2>3
<1>4. Accuracy!TypeOK'
  BY <1>2, <1>3 DEF Accuracy!ScoreInv, Accuracy!TypeOK, RunRecord
<1>5. \A q \in Pair : run'[q].phase = "insert" => run'[q] = run[q]
  BY <1>3
<1> QED BY <1>2, <1>4, <1>5, AccuracyQuiet

LEMMA AccuracyOutside ==
  ASSUME Accuracy!ScoreInv,
         \/ Accuracy!Tick \/ \E i \in DOMAIN v5 : Accuracy!ConsoleFeedback(i)
         \/ UNCHANGED Accuracy!vars
  PROVE  Accuracy!ScoreInv'
<1>1. UNCHANGED <<v2, v4, v5, v6, v8, v9, v10>>
  BY DEF Accuracy!Tick, Accuracy!ConsoleFeedback, Accuracy!vars
<1>2. Accuracy!TypeOK'
  <2>1. v1' \in 0..AccuracyClock
    BY WorkspaceAssumption
       DEF Accuracy!ScoreInv, Accuracy!TypeOK, Accuracy!Tick, Accuracy!ConsoleFeedback, Accuracy!vars
  <2>2. v3' \in 0..2
    BY DEF Accuracy!ScoreInv, Accuracy!TypeOK, Accuracy!Tick, Accuracy!ConsoleFeedback,
           Accuracy!vars
  <2>4. v11' \in 0..AccuracyChanges
    <3>1. v11 \in 0..AccuracyChanges /\ (v11' = v11 \/ (v11 < AccuracyChanges /\ v11' = v11 + 1))
      BY DEF Accuracy!ScoreInv, Accuracy!TypeOK, Accuracy!Tick, Accuracy!ConsoleFeedback,
             Accuracy!Changed, Accuracy!vars
    <3> QED BY <3>1, WorkspaceAssumption
  <2>3. v7' \subseteq DOMAIN v5
    BY DEF Accuracy!ScoreInv, Accuracy!TypeOK, Accuracy!Tick, Accuracy!ConsoleFeedback, Accuracy!vars
  <2> QED BY <1>1, <2>1, <2>2, <2>3, <2>4 DEF Accuracy!ScoreInv, Accuracy!TypeOK
<1> QED BY <1>1, <1>2, AccuracyQuiet

\* The harvest: the first sight of an award is the last one, too.
LEMMA AccuracyHarvest ==
  ASSUME Accuracy!ScoreInv, NEW count \in 0..2, Accuracy!Harvest(count)
  PROVE  Accuracy!ScoreInv'
<1> DEFINE firstSeen == v4  preds == v5  scored == v6  run == v8  known == v9
<1>1. UNCHANGED <<v1, v2, v5, v6, v7, v8, v10>> /\ known = firstSeen
  BY DEF Accuracy!Harvest, Accuracy!ScoreInv, Accuracy!TargetsAreBlind
<1>2. known' = firstSeen' /\ (firstSeen # 0 => firstSeen' = firstSeen)
  BY <1>1 DEF Accuracy!Harvest, Accuracy!FirstSeen
<1>3. Accuracy!TypeOK'
  <2>1. firstSeen' \in 0..AccuracyClock
    BY DEF Accuracy!ScoreInv, Accuracy!TypeOK, Accuracy!Harvest, Accuracy!FirstSeen
  <2>2. v3' \in 0..2 /\ v11' \in 0..AccuracyChanges
    BY WorkspaceAssumption DEF Accuracy!ScoreInv, Accuracy!TypeOK, Accuracy!Harvest, Accuracy!Changed
  <2> QED BY <1>1, <1>2, <2>1, <2>2 DEF Accuracy!ScoreInv, Accuracy!TypeOK
<1>4. CASE firstSeen # 0
  BY <1>1, <1>2, <1>3, <1>4, AccuracyQuiet
<1>5. CASE firstSeen = 0
  <2>1. DOMAIN scored = {} /\ Accuracy!Inserting = {}
    BY <1>5 DEF Accuracy!ScoreInv, Accuracy!TargetsAreBlind, Accuracy!IsBlind
  <2>2. Accuracy!Inserting' = {} /\ Len(scored) = 0 /\ scored = <<>>
    BY <1>1, <2>1 DEF Accuracy!Inserting, Accuracy!ScoreInv, Accuracy!TypeOK
  <2> QED BY <1>1, <1>2, <1>3, <2>1, <2>2
          DEF Accuracy!ScoreInv, Accuracy!TargetsAreBlind, Accuracy!LatestIsHeldOnce
<1> QED BY <1>4, <1>5

\* The opening moves: nothing is held, or all is loose.
LEMMA AccuracyMove ==
  ASSUME Accuracy!ScoreInv, NEW to \in Openings, Accuracy!MoveOpening(to)
  PROVE  Accuracy!ScoreInv'
<1>1. UNCHANGED <<v1, v3, v4, v5, v6, v7, v8, v9>> /\ v2' = to
      /\ v10' = (v10 \/ v6 # <<>> \/ \E r \in Pair : v8[r].phase = "insert")
  BY DEF Accuracy!MoveOpening
<1>2. Accuracy!TypeOK'
  <2>1. v10' \in BOOLEAN
    BY <1>1 DEF Accuracy!ScoreInv, Accuracy!TypeOK
  <2>2. v2' \in 0..AccuracyClock /\ v11' \in 0..AccuracyChanges
    BY <1>1, WorkspaceAssumption
       DEF Accuracy!ScoreInv, Accuracy!TypeOK, Accuracy!MoveOpening, Accuracy!Changed
  <2> QED BY <1>1, <2>1, <2>2 DEF Accuracy!ScoreInv, Accuracy!TypeOK
<1>3. Accuracy!Inserting' = Accuracy!Inserting
  BY <1>1 DEF Accuracy!Inserting
<1>4. Accuracy!TargetsAreBlind'
  BY <1>1, <1>3 DEF Accuracy!ScoreInv, Accuracy!TargetsAreBlind, Accuracy!IsBlind
<1>5. Accuracy!LatestIsHeldOnce'
  <2>1. ~v10' => v6 = <<>> /\ Accuracy!Inserting = {}
    BY <1>1 DEF Accuracy!Inserting
  <2>2. Len(<<>>) = 0 /\ DOMAIN <<>> = {}
    OBVIOUS
  <2> QED BY <1>1, <1>3, <2>1, <2>2 DEF Accuracy!LatestIsHeldOnce
<1> QED BY <1>2, <1>4, <1>5 DEF Accuracy!ScoreInv

\* A prediction is stored, by a run or by the console.
LEMMA AccuracyStored ==
  ASSUME Accuracy!ScoreInv, NEW p \in Prediction, Accuracy!Stored(p),
         UNCHANGED <<v1, v2, v3, v4, v6, v7, v9>>, v11' \in 0..AccuracyChanges,
         v8' \in [Pair -> RunRecord],
         \A r \in Pair : v8'[r].phase = "insert" => v8'[r] = v8[r]
  PROVE  Accuracy!ScoreInv'
<1> DEFINE firstSeen == v4  preds == v5  scored == v6  run == v8  loose == v10
<1>0. Accuracy!TypeOK
  BY DEF Accuracy!ScoreInv
<1>1. preds \in Seq(Prediction) /\ preds' = Append(preds, p)
      /\ loose' = (loose \/ (firstSeen # 0 /\ p.generated < firstSeen))
  BY <1>0 DEF Accuracy!TypeOK, Accuracy!Stored, Prediction
<1>2. /\ preds' \in Seq(Prediction) /\ Len(preds') = Len(preds) + 1 /\ preds'[Len(preds')] = p
      /\ (\A i \in DOMAIN preds : preds'[i] = preds[i]) /\ Len(preds) \in Nat
      /\ DOMAIN preds' = DOMAIN preds \cup {Len(preds')} /\ DOMAIN preds = 1..Len(preds)
  BY <1>1, AppendProperties
<1>3. Accuracy!TypeOK'
  <2>1. loose' \in BOOLEAN
    BY <1>0, <1>1 DEF Accuracy!TypeOK
  <2>2. scored' \in Seq(DOMAIN preds') /\ v7' \subseteq DOMAIN preds'
    <3>1. DOMAIN preds \subseteq DOMAIN preds'
      BY <1>2
    <3>2. Seq(DOMAIN preds) \subseteq Seq(DOMAIN preds')
      BY <3>1, SeqMonotonic
    <3> QED BY <1>0, <3>1, <3>2 DEF Accuracy!TypeOK
  <2> QED BY <1>0, <1>2, <2>1, <2>2 DEF Accuracy!TypeOK, Prediction, RunRecord
<1>4. Accuracy!Inserting' \subseteq Accuracy!Inserting
      /\ \A r \in Accuracy!Inserting' : run'[r] = run[r]
  BY DEF Accuracy!Inserting
<1>5. Accuracy!TargetsAreBlind'
  <2>1. \A i : Accuracy!IsBlind(i) => Accuracy!IsBlind(i)'
    BY <1>2 DEF Accuracy!IsBlind
  <2> QED BY <1>4, <2>1 DEF Accuracy!ScoreInv, Accuracy!TargetsAreBlind
<1>6. Accuracy!LatestIsHeldOnce'
  <2>1. CASE loose'
    BY <2>1 DEF Accuracy!LatestIsHeldOnce
  <2>2. CASE ~loose' /\ Accuracy!Blind # {}
    <3>1. ~loose /\ ~(p.generated < firstSeen)
      BY <1>1, <2>2 DEF Accuracy!Blind
    <3>2. Accuracy!BlindUntil' = Accuracy!BlindUntil
      BY DEF Accuracy!BlindUntil
    <3>3. Accuracy!Blind' = Accuracy!Blind
      <4>1. ~(p.generated < Accuracy!BlindUntil)
        <5>1. p.generated \in Nat /\ Accuracy!BlindUntil \in Nat /\ firstSeen \in Nat
              /\ Accuracy!BlindUntil <= firstSeen
          BY <1>0, BlindIs DEF Prediction
        <5> QED BY <3>1, <5>1
      <4> QED BY <1>2, <3>2, <4>1 DEF Accuracy!Blind
    <3>4. Accuracy!LatestBlind' = LatestOf(preds', Accuracy!Blind')
      BY DEF Accuracy!LatestBlind, LatestOf, NotAfter
    <3>5. Accuracy!Blind \subseteq DOMAIN preds /\ firstSeen \in Nat
          /\ (\A i \in Accuracy!Blind : preds[i].generated <= firstSeen)
          /\ Accuracy!LatestBlind = LatestOf(preds, Accuracy!Blind)
      BY <1>0, BlindIs
    <3>6. Len(preds) <= Len(preds')
      BY <1>2
    <3>7. Accuracy!LatestBlind' = Accuracy!LatestBlind
      BY <1>1, <1>2, <2>2, <3>3, <3>4, <3>5, <3>6, LatestOfKept
    <3> QED BY <1>4, <3>1, <3>3, <3>7, HeldOnceKept DEF Accuracy!ScoreInv
  <2>3. CASE ~loose' /\ Accuracy!Blind = {}
    <3>1. ~loose /\ scored = <<>> /\ Accuracy!Inserting = {}
      BY <1>1, <2>3 DEF Accuracy!ScoreInv, Accuracy!LatestIsHeldOnce
    <3>2. scored' = <<>> /\ Accuracy!Inserting' = {} /\ Len(<<>>) = 0 /\ DOMAIN <<>> = {}
      BY <1>4, <3>1
    <3> QED BY <3>2 DEF Accuracy!LatestIsHeldOnce
  <2> QED BY <1>1, <2>1, <2>2, <2>3
<1> QED BY <1>3, <1>5, <1>6 DEF Accuracy!ScoreInv

LEMMA AccuracyStore ==
  ASSUME Accuracy!ScoreInv,
         \/ \E r \in Pair : Accuracy!Store(r)
         \/ \E suppressed \in BOOLEAN : Accuracy!Interactive(suppressed)
  PROVE  Accuracy!ScoreInv'
<1> DEFINE clock == v1  run == v8
<1>1. run \in [Pair -> RunRecord] /\ clock \in Nat /\ v11 \in 0..AccuracyChanges
  BY WorkspaceAssumption DEF Accuracy!ScoreInv, Accuracy!TypeOK, RunRecord
<1>2. ASSUME NEW suppressed \in BOOLEAN, Accuracy!Interactive(suppressed) PROVE Accuracy!ScoreInv'
  <2> DEFINE p == [generated |-> clock, day |-> 0, suppressed |-> suppressed]
  <2>1. p \in Prediction
    BY <1>1 DEF Prediction
  <2>2. Accuracy!Stored(p) /\ UNCHANGED <<v1, v2, v3, v4, v6, v7, v8, v9>>
    BY <1>2 DEF Accuracy!Interactive
  <2>3. v11' \in 0..AccuracyChanges
    BY <1>1, <1>2, WorkspaceAssumption DEF Accuracy!Interactive, Accuracy!Changed
  <2> HIDE DEF p
  <2> QED BY <1>1, <2>1, <2>2, <2>3, AccuracyStored
<1>3. ASSUME NEW r \in Pair, Accuracy!Store(r) PROVE Accuracy!ScoreInv'
  <2> DEFINE p == [generated |-> run[r].generated, day |-> run[r].day,
                   suppressed |-> run[r].suppressed]
  <2>1. p \in Prediction
    BY <1>1 DEF Prediction, RunRecord
  <2>2. UNCHANGED <<v1, v2, v3, v4, v6, v7, v9, v11>>
        /\ run' = [run EXCEPT ![r] = [Accuracy!Idle EXCEPT !.phase = "score"]]
        /\ (Accuracy!Stored(p) \/ UNCHANGED <<v5, v10>>)
    BY <1>3 DEF Accuracy!Store
  <2>3. run' \in [Pair -> RunRecord] /\ \A q \in Pair : run'[q].phase = "insert" => run'[q] = run[q]
    <3>1. [Accuracy!Idle EXCEPT !.phase = "score"] \in RunRecord
          /\ [Accuracy!Idle EXCEPT !.phase = "score"].phase # "insert"
      BY DEF Accuracy!Idle, RunRecord
    <3> QED BY <1>1, <2>2, <3>1
  <2>4. CASE Accuracy!Stored(p)
    <3> HIDE DEF p
    <3> QED BY <1>1, <2>1, <2>2, <2>3, <2>4, AccuracyStored
  <2>5. CASE UNCHANGED <<v5, v10>>
    <3>1. Accuracy!TypeOK'
      BY <2>2, <2>3, <2>5 DEF Accuracy!ScoreInv, Accuracy!TypeOK, RunRecord
    <3> QED BY <2>2, <2>3, <2>5, <3>1, AccuracyQuiet
  <2> QED BY <2>2, <2>4, <2>5
<1> QED BY <1>2, <1>3

\* The SELECT of the scorecard: another one under way makes it loose.
LEMMA AccuracyRead ==
  ASSUME Accuracy!ScoreInv, NEW r \in Pair, Accuracy!ScoreRead(r)
  PROVE  Accuracy!ScoreInv'
<1> DEFINE preds == v5  scored == v6  run == v8  loose == v10
           found == Accuracy!Scorable /\ ~Accuracy!Scored(Accuracy!LatestBlind)
<1>0. Accuracy!TypeOK /\ run \in [Pair -> RunRecord] /\ loose \in BOOLEAN
  BY DEF Accuracy!ScoreInv, Accuracy!TypeOK, RunRecord
<1>1. /\ UNCHANGED <<v1, v2, v3, v4, v5, v6, v7, v9, v11>>
      /\ run' = [run EXCEPT ![r] = IF found
                    THEN [run[r] EXCEPT !.phase = "insert", !.target = Accuracy!LatestBlind]
                    ELSE Accuracy!Idle]
      /\ loose' = (loose \/ \E q \in Pair \ {r} : run[q].phase = "insert")
      /\ run[r].phase = "score"
  BY DEF Accuracy!ScoreRead
<1>2. found => /\ Accuracy!LatestBlind \in Accuracy!Blind /\ Accuracy!LatestBlind \in Nat
               /\ Accuracy!IsBlind(Accuracy!LatestBlind)
  <2>1. SUFFICES ASSUME Accuracy!Scorable
                 PROVE  Accuracy!LatestBlind \in Accuracy!Blind /\ Accuracy!LatestBlind \in Nat
                        /\ Accuracy!IsBlind(Accuracy!LatestBlind)
    OBVIOUS
  <2>2. Accuracy!LatestBlind \in Accuracy!Blind
    BY <1>0, <2>1, BlindIs, LatestOfIs DEF Accuracy!Scorable
  <2> QED BY <1>0, <2>1, <2>2, BlindIs DEF Accuracy!Scorable, Accuracy!IsBlind
<1>3. \/ /\ found /\ run'[r].phase = "insert" /\ run'[r].target = Accuracy!LatestBlind
      \/ ~found /\ run'[r].phase = "idle"
  BY <1>0, <1>1 DEF RunRecord, Accuracy!Idle
<1>4. run' \in [Pair -> RunRecord] /\ \A q \in Pair \ {r} : run'[q] = run[q]
  <2>1. Accuracy!Idle \in RunRecord
    BY DEF Accuracy!Idle, RunRecord
  <2>2. found => [run[r] EXCEPT !.phase = "insert", !.target = Accuracy!LatestBlind] \in RunRecord
    BY <1>0, <1>2 DEF RunRecord
  <2> QED BY <1>0, <1>1, <2>1, <2>2
<1>5. Accuracy!TypeOK'
  <2>1. loose' \in BOOLEAN
    BY <1>0, <1>1
  <2> QED BY <1>0, <1>1, <1>4, <2>1 DEF Accuracy!TypeOK, RunRecord
<1>6. Accuracy!Blind' = Accuracy!Blind /\ Accuracy!LatestBlind' = Accuracy!LatestBlind
  <2>1. Accuracy!BlindUntil' = Accuracy!BlindUntil
    BY <1>1 DEF Accuracy!BlindUntil
  <2>2. Accuracy!Blind' = Accuracy!Blind
    BY <1>1, <2>1 DEF Accuracy!Blind
  <2> QED BY <1>1, <2>2 DEF Accuracy!LatestBlind
<1> HIDE DEF found
<1>7. Accuracy!Inserting' = IF found THEN Accuracy!Inserting \cup {r} ELSE Accuracy!Inserting
  BY <1>1, <1>3, <1>4 DEF Accuracy!Inserting
<1>8. Accuracy!TargetsAreBlind'
  <2>1. ASSUME NEW q \in Accuracy!Inserting' PROVE Accuracy!IsBlind(run'[q].target)
    <3>1. CASE q = r
      BY <1>2, <1>3, <2>1, <3>1 DEF Accuracy!Inserting
    <3>2. CASE q # r
      BY <1>4, <2>1, <3>2 DEF Accuracy!Inserting, Accuracy!ScoreInv, Accuracy!TargetsAreBlind
    <3> QED BY <3>1, <3>2
  <2>2. \A i : Accuracy!IsBlind(i)' <=> Accuracy!IsBlind(i)
    BY <1>1 DEF Accuracy!IsBlind
  <2> QED BY <1>1, <2>1, <2>2 DEF Accuracy!ScoreInv, Accuracy!TargetsAreBlind, Accuracy!IsBlind
<1>9. Accuracy!LatestIsHeldOnce'
  <2>1. ASSUME ~loose' PROVE ~loose /\ Accuracy!Inserting = {}
    BY <1>1, <2>1 DEF Accuracy!Inserting
  <2>2. CASE ~found
    BY <1>1, <1>6, <1>7, <2>1, <2>2 DEF Accuracy!ScoreInv, Accuracy!LatestIsHeldOnce
  <2>3. ASSUME found, ~loose' PROVE scored = <<>> /\ Accuracy!Inserting' = {r} /\ Accuracy!Blind # {}
    <3>1. scored = <<>>
      <4>1. \A k \in DOMAIN scored : scored[k] = Accuracy!LatestBlind
        BY <2>1, <2>3 DEF Accuracy!ScoreInv, Accuracy!LatestIsHeldOnce
      <4>2. DOMAIN scored = {}
        BY <2>3, <4>1 DEF found, Accuracy!Scored
      <4> QED BY <1>0, <4>2 DEF Accuracy!TypeOK
    <3> QED BY <1>7, <2>1, <2>3, <3>1 DEF found, Accuracy!Scorable
  <2>4. CASE found /\ ~loose'
    <3>1. Len(<<>>) = 0 /\ DOMAIN <<>> = {}
      OBVIOUS
    <3> QED BY <1>1, <1>3, <1>6, <2>3, <2>4, <3>1 DEF Accuracy!LatestIsHeldOnce
  <2>5. CASE loose'
    BY <2>5 DEF Accuracy!LatestIsHeldOnce
  <2> QED BY <2>2, <2>4, <2>5
<1> QED BY <1>5, <1>8, <1>9 DEF Accuracy!ScoreInv

LEMMA AccuracyInsert ==
  ASSUME Accuracy!ScoreInv, NEW r \in Pair, Accuracy!ScoreInsert(r)
  PROVE  Accuracy!ScoreInv'
<1> DEFINE preds == v5  scored == v6  run == v8  loose == v10
<1>0. Accuracy!TypeOK /\ run \in [Pair -> RunRecord] /\ scored \in Seq(DOMAIN preds)
      /\ r \in Accuracy!Inserting /\ run[r].target \in DOMAIN preds /\ Accuracy!IsBlind(run[r].target)
  BY DEF Accuracy!ScoreInv, Accuracy!TypeOK, RunRecord, Accuracy!ScoreInsert, Accuracy!Inserting,
         Accuracy!TargetsAreBlind, Accuracy!IsBlind
<1>1. UNCHANGED <<v1, v2, v3, v4, v5, v7, v9, v10, v11>>
      /\ run' = [run EXCEPT ![r] = Accuracy!Idle] /\ scored' = Append(scored, run[r].target)
  BY DEF Accuracy!ScoreInsert
<1>2. /\ scored' \in Seq(DOMAIN preds) /\ Len(scored') = Len(scored) + 1 /\ Len(scored) \in Nat
      /\ scored'[Len(scored')] = run[r].target /\ (\A k \in 1..Len(scored) : scored'[k] = scored[k])
      /\ DOMAIN scored' = DOMAIN scored \cup {Len(scored')} /\ DOMAIN scored = 1..Len(scored)
  BY <1>0, <1>1, AppendProperties
<1>3. run' \in [Pair -> RunRecord] /\ (\A q \in Pair \ {r} : run'[q] = run[q]) /\ run'[r].phase = "idle"
  BY <1>0, <1>1 DEF RunRecord, Accuracy!Idle
<1>4. Accuracy!TypeOK'
  BY <1>0, <1>1, <1>2, <1>3 DEF Accuracy!TypeOK, RunRecord
<1>5. Accuracy!Inserting' = Accuracy!Inserting \ {r}
  BY <1>3 DEF Accuracy!Inserting
<1>6. Accuracy!Blind' = Accuracy!Blind /\ Accuracy!LatestBlind' = Accuracy!LatestBlind
  <2>1. Accuracy!BlindUntil' = Accuracy!BlindUntil
    BY <1>1 DEF Accuracy!BlindUntil
  <2>2. Accuracy!Blind' = Accuracy!Blind
    BY <1>1, <2>1 DEF Accuracy!Blind
  <2> QED BY <1>1, <2>2 DEF Accuracy!LatestBlind
<1>7. Accuracy!TargetsAreBlind'
  <2>1. \A i : Accuracy!IsBlind(i)' <=> Accuracy!IsBlind(i)
    BY <1>1 DEF Accuracy!IsBlind
  <2>2. \A k \in DOMAIN scored' : Accuracy!IsBlind(scored'[k])
    BY <1>0, <1>2 DEF Accuracy!ScoreInv, Accuracy!TargetsAreBlind
  <2>3. \A q \in Accuracy!Inserting' : Accuracy!IsBlind(run'[q].target)
    BY <1>3, <1>5 DEF Accuracy!ScoreInv, Accuracy!TargetsAreBlind, Accuracy!Inserting
  <2> QED BY <1>1, <2>1, <2>2, <2>3 DEF Accuracy!ScoreInv, Accuracy!TargetsAreBlind, Accuracy!IsBlind
<1>8. Accuracy!LatestIsHeldOnce'
  <2>1. SUFFICES ASSUME ~loose
                 PROVE  /\ Len(scored') <= 1 /\ Accuracy!Inserting' = {} /\ Accuracy!Blind # {}
                        /\ \A k \in DOMAIN scored' : scored'[k] = Accuracy!LatestBlind
    BY <1>1, <1>6 DEF Accuracy!LatestIsHeldOnce
  <2>2. scored = <<>> /\ Accuracy!Inserting = {r} /\ run[r].target = Accuracy!LatestBlind
        /\ Accuracy!Blind # {}
    BY <1>0, <2>1 DEF Accuracy!ScoreInv, Accuracy!LatestIsHeldOnce
  <2>3. Len(scored) = 0
    BY <2>2
  <2> QED BY <1>2, <1>5, <2>2, <2>3
<1> QED BY <1>4, <1>7, <1>8 DEF Accuracy!ScoreInv

LEMMA AccuracyStep ==
  ASSUME Accuracy!ScoreInv, [Accuracy!Next]_(Accuracy!vars) PROVE Accuracy!ScoreInv'
BY AccuracyRunMoves, AccuracyOutside, AccuracyHarvest, AccuracyMove, AccuracyStore, AccuracyRead,
   AccuracyInsert DEF Accuracy!Next

LEMMA AccuracyHolds ==
  ASSUME Accuracy!ScoreInv PROVE Accuracy!ScoredBlind /\ Accuracy!CountedOnce
BY DEF Accuracy!ScoreInv, Accuracy!TargetsAreBlind, Accuracy!LatestIsHeldOnce, Accuracy!IsBlind,
       Accuracy!ScoredBlind, Accuracy!CountedOnce

-----------------------------------------------------------------------------
(***************************************************************************)
(* PursuitDesk: baselines are counted, and outcomes are measured.  v1 ..   *)
(* v8 are pursuit, request, worker, sims, award, outcome, deaths and       *)
(* overlaps.                                                               *)
(***************************************************************************)
DeskRequests ==
  {Desk!Idle} \cup Desk!Creating \cup Desk!Reading \cup Desk!Measuring \cup Desk!Seeding
    \cup Desk!Refreshing
DeskStages == [Tenants -> Desk!Stages \cup {"none"}]
DeskWorkers == [phase : {"idle", "seeding"}, todo : SUBSET Tenants, row : 0..MaxSims]
DeskOutcomes == [Tenants -> [result : DeskResults \cup {"none"}, due : SUBSET (1..MaxSims)]]

LEMMA DeskTypes ==
  Desk!TypeOK <=> /\ v1 \in DeskStages /\ v2 \in [Pair -> DeskRequests] /\ v3 \in DeskWorkers
                  /\ v4 \in Seq(Desk!SimSet) /\ Len(v4) <= MaxSims
                  /\ v5 \in Desk!Maybe /\ v6 \in DeskOutcomes /\ v7 \in 0..MaxDeaths
                  /\ v8 \in [Tenants -> Nat]
BY DEF Desk!TypeOK, DeskStages, DeskRequests, DeskWorkers, DeskOutcomes

\* A request's record is of the set that it is named for.
LEMMA DeskRecordIs ==
  ASSUME NEW r \in DeskRequests
  PROVE  /\ r.doing = "insert" => r \in Desk!Creating
         /\ r.doing = "outcome" => r \in Desk!Reading
         /\ r.doing = "measured" => r \in Desk!Measuring
         /\ r.doing = "seed" => r \in Desk!Seeding
         /\ r.doing = "refresh" => r \in Desk!Refreshing
BY DEF DeskRequests, Desk!Idle, Desk!Creating, Desk!Reading, Desk!Measuring, Desk!Seeding,
       Desk!Refreshing

LEMMA SimIs ==
  ASSUME NEW s \in Seq(Desk!SimSet), NEW i \in DOMAIN s
  PROVE  s[i] \in Desk!SimSet
OBVIOUS

\* Its finite sets and their sizes are those of FiniteSets.
LEMMA DeskCounts ==
  \A S : Desk!Cardinality(S) = Cardinality(S) /\ (Desk!IsFiniteSet(S) <=> IsFiniteSet(S))
<1>1. ASSUME NEW S PROVE Desk!IsFiniteSet(S) <=> IsFiniteSet(S)
  BY DEF Desk!IsFiniteSet, IsFiniteSet
<1>2. ASSUME NEW S PROVE Desk!Cardinality(S) = Cardinality(S)
  BY <1>1 DEF Desk!Cardinality, Cardinality
<1> QED BY <1>1, <1>2

DeskCounted(t) ==
  /\ IsFiniteSet(Desk!Seedings(t))
  /\ Cardinality(Desk!Baselines(t)) + Cardinality(Desk!Seedings(t)) <= 1 + v8[t]

LEMMA DeskCountedIs ==
  /\ Desk!SeedersAreCounted <=> \A t \in Tenants : DeskCounted(t)
  /\ Desk!SeedersAreCounted' <=> \A t \in Tenants : DeskCounted(t)'
BY DeskCounts DEF Desk!SeedersAreCounted, DeskCounted

LEMMA DeskInit == ASSUME Desk!Init PROVE Desk!DeskInv
<1>1. v4 = <<>> /\ DOMAIN v4 = {} /\ Len(v4) = 0 /\ v4 \in Seq(Desk!SimSet)
  BY DEF Desk!Init
<1>2. v2 \in [Pair -> DeskRequests] /\ \A q \in Pair : v2[q].doing = "nothing"
  BY DEF Desk!Init, DeskRequests, Desk!Idle
<1>3. v1 \in DeskStages /\ v3 \in DeskWorkers /\ v5 \in Desk!Maybe /\ v7 \in 0..MaxDeaths
      /\ v8 \in [Tenants -> Nat] /\ Len(v4) <= MaxSims
  BY <1>1, WorkspaceAssumption
     DEF Desk!Init, DeskStages, DeskWorkers, Desk!Maybe, Desk!Stages, Desk!WorkerIdle
<1>4. v6 \in DeskOutcomes /\ \A t \in Tenants : v6[t].due = {}
  BY DEF Desk!Init, DeskOutcomes, Desk!NoOutcome
<1>5. Desk!TypeOK
  BY <1>1, <1>2, <1>3, <1>4, DeskTypes
<1>6. Desk!SeedersAreCounted
  <2> SUFFICES ASSUME NEW t \in Tenants
               PROVE  /\ IsFiniteSet(Desk!Seedings(t))
                      /\ Cardinality(Desk!Baselines(t)) + Cardinality(Desk!Seedings(t)) <= 1 + v8[t]
    BY DeskCountedIs DEF DeskCounted
  <2>1. Desk!Seedings(t) = {} /\ Desk!Baselines(t) = {}
    BY <1>1, <1>2 DEF Desk!Init, Desk!Seedings, Desk!Baselines, Desk!WorkerIdle
  <2>2. v8[t] = 0
    BY DEF Desk!Init
  <2> QED BY <2>1, <2>2, FS_EmptySet
<1>7. Desk!MeasuresHold
  BY <1>2 DEF Desk!MeasuresHold, Desk!MeasureHolds
<1>8. Desk!DuesExist /\ Desk!OutcomesAreMeasured
  BY <1>4 DEF Desk!DuesExist, Desk!OutcomesAreMeasured
<1> QED BY <1>5, <1>6, <1>7, <1>8 DEF Desk!DeskInv

-----------------------------------------------------------------------------
\* The parts of the invariant, from what a step does to what they are about.

\* A simulation stays, committed if it was, and measured if it was.
DeskGrows ==
  /\ DOMAIN v4 \subseteq DOMAIN v4'
  /\ \A i \in DOMAIN v4 : /\ v4'[i].tenant = v4[i].tenant /\ v4'[i].basis = v4[i].basis
                          /\ v4[i].kept => v4'[i].kept
                          /\ v4[i].measured # 0 => v4'[i].measured # 0

LEMMA MeasuresKept ==
  ASSUME Desk!MeasuresHold, DeskGrows,
         \A q \in Pair : v2'[q] = v2[q] \/ Desk!MeasureHolds(v2'[q])
  PROVE  Desk!MeasuresHold'
<1>1. \A t : Desk!Visible(t) \subseteq Desk!Visible(t)'
  BY DEF DeskGrows, Desk!Visible
<1>2. ASSUME NEW q \in Pair PROVE Desk!MeasureHolds(v2'[q])
  BY DEF Desk!MeasuresHold
<1>3. ASSUME NEW r, Desk!MeasureHolds(r) PROVE Desk!MeasureHolds(r)'
  BY <1>1, <1>3 DEF DeskGrows, Desk!MeasureHolds
<1> QED BY <1>2, <1>3 DEF Desk!MeasuresHold, Desk!MeasureHolds

LEMMA OutcomesKept ==
  ASSUME Desk!DuesExist, Desk!OutcomesAreMeasured, DeskGrows, v6' = v6
  PROVE  Desk!DuesExist' /\ Desk!OutcomesAreMeasured'
BY DEF Desk!DuesExist, Desk!OutcomesAreMeasured, DeskGrows

LEMMA BaselinesFinite ==
  ASSUME Desk!TypeOK, NEW t PROVE IsFiniteSet(Desk!Baselines(t)) /\ Cardinality(Desk!Baselines(t)) \in Nat
<1>1. Len(v4) \in Nat /\ DOMAIN v4 = 1..Len(v4)
  BY DEF Desk!TypeOK
<1>2. IsFiniteSet(1..Len(v4))
  BY <1>1, FS_Interval
<1>3. Desk!Baselines(t) \subseteq 1..Len(v4)
  BY <1>1 DEF Desk!Baselines
<1> QED BY <1>2, <1>3, FS_Subset, FS_CardinalityType

\* Fewer seedings, and the same baselines.
LEMMA SeedersKept ==
  ASSUME Desk!TypeOK, Desk!SeedersAreCounted, v8' = v8,
         \A t \in Tenants : /\ Desk!Seedings(t)' \subseteq Desk!Seedings(t)
                            /\ Desk!Baselines(t)' = Desk!Baselines(t)
  PROVE  Desk!SeedersAreCounted'
<1> SUFFICES ASSUME NEW t \in Tenants
             PROVE  /\ IsFiniteSet(Desk!Seedings(t)')
                    /\ Cardinality(Desk!Baselines(t)') + Cardinality(Desk!Seedings(t)') <= 1 + v8[t]
  BY DeskCountedIs DEF DeskCounted
<1> DEFINE b == Cardinality(Desk!Baselines(t))
           m == Cardinality(Desk!Seedings(t))
           n == Cardinality(Desk!Seedings(t)')
<1>1. IsFiniteSet(Desk!Seedings(t)) /\ b + m <= 1 + v8[t]
  BY DeskCountedIs DEF DeskCounted
<1>2. IsFiniteSet(Desk!Seedings(t)') /\ n <= m
  BY <1>1, FS_Subset
<1>3. m \in Nat /\ n \in Nat /\ b \in Nat /\ v8[t] \in Nat
  BY <1>1, <1>2, FS_CardinalityType, BaselinesFinite DEF Desk!TypeOK
<1>4. Cardinality(Desk!Baselines(t)') = b
  OBVIOUS
<1> HIDE DEF b, m, n
<1>5. b + n <= 1 + v8[t]
  BY <1>1, <1>2, <1>3
<1> QED BY <1>2, <1>4, <1>5 DEF n

\* The simulations and outcomes stay, and what a request is about to write holds.
LEMMA DeskQuiet ==
  ASSUME Desk!DeskInv, Desk!TypeOK', UNCHANGED <<v4, v6, v8>>,
         \A t \in Tenants : Desk!Seedings(t)' \subseteq Desk!Seedings(t),
         \A q \in Pair : v2'[q] = v2[q] \/ Desk!MeasureHolds(v2'[q])
  PROVE  Desk!DeskInv'
<1>1. DeskGrows
  BY DEF DeskGrows
<1>2. \A t : Desk!Baselines(t)' = Desk!Baselines(t)
  BY DEF Desk!Baselines
<1>3. Desk!SeedersAreCounted'
  BY <1>2, SeedersKept DEF Desk!DeskInv
<1>4. Desk!MeasuresHold' /\ Desk!DuesExist' /\ Desk!OutcomesAreMeasured'
  BY <1>1, MeasuresKept, OutcomesKept DEF Desk!DeskInv
<1> QED BY <1>3, <1>4 DEF Desk!DeskInv

\* What the measuring of a tenant's simulations finds.
LEMMA DeskMeasurable ==
  ASSUME Desk!TypeOK, NEW t \in Tenants
  PROVE  /\ Desk!Measurable(t) \in SUBSET (1..MaxSims) /\ Desk!Measurable(t) \subseteq DOMAIN v4
         /\ v5 = 0 => Desk!Measurable(t) = {}
         /\ v5 # 0 => Desk!Measurable(t) = Desk!Visible(t)
         /\ Desk!Measurable(t) \subseteq Desk!Visible(t)
<1>1. DOMAIN v4 \subseteq 1..MaxSims
  BY WorkspaceAssumption DEF Desk!TypeOK
<1> QED BY <1>1 DEF Desk!Measurable, Desk!Visible

-----------------------------------------------------------------------------
\* One request moves on, or fails; nothing stored changes but a pursuit.
LEMMA DeskRequestMoves ==
  ASSUME Desk!DeskInv, NEW q \in Pair,
         \/ \E t \in Tenants : Desk!CreateLook(q, t) \/ Desk!PricingAccuracy(q, t)
         \/ Desk!CreateInsert(q) \/ Desk!ConsoleSeedDone(q) \/ Desk!OutcomeMeasure(q)
         \/ Desk!RequestFails(q)
         \/ \E t \in Tenants, result \in DeskResults : Desk!OutcomeRead(q, t, result)
  PROVE  Desk!DeskInv'
<1>0. Desk!TypeOK /\ v1 \in DeskStages /\ v2 \in [Pair -> DeskRequests] /\ v5 \in Desk!Maybe
      /\ v7 \in 0..MaxDeaths
  BY DeskTypes DEF Desk!DeskInv
<1>1. UNCHANGED <<v3, v4, v5, v6, v8>>
  BY DEF Desk!CreateLook, Desk!PricingAccuracy, Desk!CreateInsert, Desk!ConsoleSeedDone,
         Desk!OutcomeMeasure, Desk!RequestFails, Desk!OutcomeRead
<1>2. v1' \in DeskStages /\ v7' \in 0..MaxDeaths
  <2>1. v1' \in DeskStages
    BY <1>0, DeskRecordIs
       DEF Desk!CreateLook, Desk!PricingAccuracy, Desk!CreateInsert, Desk!ConsoleSeedDone,
           Desk!OutcomeMeasure, Desk!RequestFails, Desk!OutcomeRead, DeskStages, Desk!Stages,
           Desk!OpenStages
  <2>2. v7' = v7 \/ (v7 < MaxDeaths /\ v7' = v7 + 1)
    BY DEF Desk!CreateLook, Desk!PricingAccuracy, Desk!CreateInsert, Desk!ConsoleSeedDone,
           Desk!OutcomeMeasure, Desk!RequestFails, Desk!OutcomeRead
  <2> QED BY <1>0, <2>1, <2>2, WorkspaceAssumption
<1>3. \E r \in DeskRequests : v2' = [v2 EXCEPT ![q] = r] /\ r.doing # "seed" /\ Desk!MeasureHolds(r)
  <2>0. /\ Desk!Idle \in DeskRequests /\ Desk!Idle.doing # "seed" /\ Desk!MeasureHolds(Desk!Idle)
    BY DEF DeskRequests, Desk!Idle, Desk!MeasureHolds
  <2>1. ASSUME NEW t \in Tenants
        PROVE  LET r == Desk!Refresh(t)
               IN  r \in DeskRequests /\ r.doing # "seed" /\ Desk!MeasureHolds(r)
    <3> DEFINE r == Desk!Refresh(t)
    <3>1. r.doing = "refresh" /\ r.seen = Desk!Measurable(t) /\ r.value = v5 /\ r \in Desk!Refreshing
      BY <1>0, DeskMeasurable DEF Desk!Refresh, Desk!Refreshing
    <3> HIDE DEF r
    <3>2. r \in DeskRequests /\ Desk!MeasureHolds(r)
      BY <1>0, <3>1, DeskMeasurable DEF DeskRequests, Desk!MeasureHolds
    <3> QED BY <3>1, <3>2 DEF r
  <2>2. CASE \E t \in Tenants : Desk!CreateLook(q, t)
    <3>1. PICK t \in Tenants : Desk!CreateLook(q, t)
      BY <2>2
    <3> DEFINE r == [doing |-> "insert", tenant |-> t]
    <3>2. r \in DeskRequests /\ r.doing # "seed" /\ Desk!MeasureHolds(r)
      BY DEF DeskRequests, Desk!Creating, Desk!MeasureHolds
    <3> QED BY <2>0, <3>1, <3>2 DEF Desk!CreateLook
  <2>3. CASE \E t \in Tenants : Desk!PricingAccuracy(q, t)
    <3>1. PICK t \in Tenants : Desk!PricingAccuracy(q, t)
      BY <2>3
    <3> QED BY <2>1, <3>1 DEF Desk!PricingAccuracy
  <2>4. CASE Desk!CreateInsert(q) \/ Desk!RequestFails(q)
    BY <2>0, <2>4 DEF Desk!CreateInsert, Desk!RequestFails
  <2>5. CASE Desk!ConsoleSeedDone(q)
    <3>1. v2[q].tenant \in Tenants
      BY <1>0, <2>5, DeskRecordIs DEF Desk!ConsoleSeedDone, Desk!Seeding
    <3>2. v2' = [v2 EXCEPT ![q] = Desk!Refresh(v2[q].tenant)]
      BY <2>5 DEF Desk!ConsoleSeedDone
    <3> QED BY <2>1, <3>1, <3>2
  <2>6. CASE \E t \in Tenants, result \in DeskResults : Desk!OutcomeRead(q, t, result)
    <3>1. PICK t \in Tenants, result \in DeskResults : Desk!OutcomeRead(q, t, result)
      BY <2>6
    <3> DEFINE r == [doing |-> "outcome", tenant |-> t, result |-> result, award |-> v5,
                     due |-> Desk!Measurable(t)]
    <3>2. r \in Desk!Reading /\ r.doing = "outcome" /\ r.tenant = t /\ r.award = v5
          /\ r.due = Desk!Measurable(t)
      BY <1>0, DeskMeasurable DEF Desk!Reading
    <3>3. v2' = [v2 EXCEPT ![q] = r]
      BY <3>1 DEF Desk!OutcomeRead
    <3> HIDE DEF r
    <3>4. r \in DeskRequests /\ Desk!MeasureHolds(r)
      BY <1>0, <3>2, DeskMeasurable DEF DeskRequests, Desk!MeasureHolds
    <3> QED BY <3>2, <3>3, <3>4
  <2>7. CASE Desk!OutcomeMeasure(q)
    <3> DEFINE o == v2[q]
               r == [doing |-> "measured", tenant |-> o.tenant, result |-> o.result,
                     due |-> IF v5 # 0 THEN o.due ELSE {},
                     seen |-> IF o.award # 0 THEN Desk!Measurable(o.tenant) ELSE {},
                     value |-> IF o.award # 0 THEN v5 ELSE 0]
    <3>1. o.doing = "outcome" /\ v2' = [v2 EXCEPT ![q] = r]
      BY <2>7 DEF Desk!OutcomeMeasure
    <3>2. o \in Desk!Reading
      BY <1>0, <3>1, DeskRecordIs
    <3>3. o.tenant \in Tenants /\ o.result \in DeskResults /\ o.due \in SUBSET (1..MaxSims)
      BY <3>2 DEF Desk!Reading
    <3>4. o.due \subseteq Desk!Visible(o.tenant) /\ (o.award = 0 => o.due = {})
      BY <3>1 DEF Desk!DeskInv, Desk!MeasuresHold, Desk!MeasureHolds
    <3>5. Desk!Measurable(o.tenant) \in SUBSET (1..MaxSims) /\ 0 \in Desk!Maybe
      BY <1>0, <3>3, DeskMeasurable DEF Desk!Maybe
    <3> HIDE DEF o
    <3>6. r \in Desk!Measuring
      BY <1>0, <3>3, <3>5 DEF Desk!Measuring
    <3>7. r.doing = "measured" /\ r.seen \subseteq DOMAIN v4 /\ (r.seen # {} => r.value # 0)
      BY <1>0, <3>3, DeskMeasurable
    <3>8. r.due \subseteq r.seen
      BY <1>0, <3>3, <3>4, DeskMeasurable
    <3> HIDE DEF r
    <3>9. r \in DeskRequests /\ Desk!MeasureHolds(r)
      BY <3>6, <3>7, <3>8 DEF DeskRequests, Desk!MeasureHolds
    <3> QED BY <3>1, <3>7, <3>9
  <2> QED BY <2>2, <2>3, <2>4, <2>5, <2>6, <2>7
<1>4. PICK r \in DeskRequests : v2' = [v2 EXCEPT ![q] = r] /\ r.doing # "seed" /\ Desk!MeasureHolds(r)
  BY <1>3
<1>5. v2' \in [Pair -> DeskRequests] /\ v2'[q] = r /\ \A p \in Pair \ {q} : v2'[p] = v2[p]
  BY <1>0, <1>4
<1>6. Desk!TypeOK'
  BY <1>0, <1>1, <1>2, <1>5, DeskTypes
     DEF Desk!TypeOK, DeskStages, DeskRequests, DeskWorkers, DeskOutcomes
<1>7. \A t \in Tenants : Desk!Seedings(t)' \subseteq Desk!Seedings(t)
  BY <1>1, <1>4, <1>5 DEF Desk!Seedings
<1> QED BY <1>1, <1>4, <1>5, <1>6, <1>7, DeskQuiet

\* The steps of others that leave requests and simulations alone.
LEMMA DeskOutside ==
  ASSUME Desk!DeskInv,
         \/ \E t \in Tenants, stage \in Desk!Stages : Desk!PatchStage(t, stage)
         \/ \E value \in Desk!Maybe : Desk!StoreAward(value)
         \/ Desk!SeedDone \/ Desk!SeedDies \/ UNCHANGED Desk!vars
  PROVE  Desk!DeskInv'
<1>0. Desk!TypeOK
  BY DEF Desk!DeskInv
<1>1. UNCHANGED <<v2, v4, v6, v8>>
  BY DEF Desk!PatchStage, Desk!StoreAward, Desk!SeedDone, Desk!SeedDies, Desk!vars
<1>2. v3' = v3 \/ v3' = Desk!WorkerIdle
  BY DEF Desk!PatchStage, Desk!StoreAward, Desk!SeedDone, Desk!SeedDies, Desk!vars
<1>3. Desk!TypeOK'
  <2>1. v1' \in [Tenants -> Desk!Stages \cup {"none"}]
    BY <1>0 DEF Desk!TypeOK, Desk!PatchStage, Desk!StoreAward, Desk!SeedDone, Desk!SeedDies,
                Desk!vars
  <2>2. v5' \in Desk!Maybe /\ v7' \in 0..MaxDeaths
    BY <1>0, WorkspaceAssumption
       DEF Desk!TypeOK, Desk!PatchStage, Desk!StoreAward, Desk!SeedDone, Desk!SeedDies, Desk!vars
  <2>3. v3' \in [phase : {"idle", "seeding"}, todo : SUBSET Tenants, row : 0..MaxSims]
    BY <1>0, <1>2, WorkspaceAssumption DEF Desk!TypeOK, Desk!WorkerIdle
  <2> QED BY <1>0, <1>1, <2>1, <2>2, <2>3 DEF Desk!TypeOK
<1>4. \A t \in Tenants : Desk!Seedings(t)' \subseteq Desk!Seedings(t)
  BY <1>1, <1>2 DEF Desk!Seedings, Desk!WorkerIdle
<1> QED BY <1>1, <1>3, <1>4, DeskQuiet

\* A simulation commits.
LEMMA DeskCommits ==
  ASSUME Desk!DeskInv, NEW i \in DOMAIN v4, Desk!SimCommits(i)
  PROVE  Desk!DeskInv'
<1> DEFINE new == [v4[i] EXCEPT !.kept = TRUE]
<1>0. Desk!TypeOK /\ v4 \in Seq(Desk!SimSet) /\ i \in 1..Len(v4) /\ DOMAIN v4 = 1..Len(v4)
  BY DEF Desk!DeskInv, Desk!TypeOK
<1>1. v4' = [v4 EXCEPT ![i] = new] /\ UNCHANGED <<v1, v2, v3, v5, v6, v7, v8>>
  BY DEF Desk!SimCommits
<1>2. /\ new \in Desk!SimSet /\ new.tenant = v4[i].tenant /\ new.basis = v4[i].basis
      /\ new.kept /\ new.measured = v4[i].measured
  <2>1. v4[i] \in Desk!SimSet
    BY <1>0, SimIs
  <2> QED BY <2>1 DEF Desk!SimSet
<1> HIDE DEF new
<1>3. /\ v4' \in Seq(Desk!SimSet) /\ Len(v4') = Len(v4) /\ DOMAIN v4' = DOMAIN v4
      /\ \A j \in DOMAIN v4 : v4'[j] = IF j = i THEN new ELSE v4[j]
  BY <1>0, <1>1, <1>2, ExceptSeq
<1>4. DeskGrows
  BY <1>2, <1>3 DEF DeskGrows
<1>5. Desk!TypeOK'
  BY <1>0, <1>1, <1>3 DEF Desk!TypeOK
<1>6. Desk!SeedersAreCounted'
  <2>1. \A t : Desk!Baselines(t)' = Desk!Baselines(t) /\ Desk!Seedings(t)' = Desk!Seedings(t)
    BY <1>1, <1>2, <1>3 DEF Desk!Baselines, Desk!Seedings
  <2> QED BY <1>1, <2>1, SeedersKept DEF Desk!DeskInv
<1> QED BY <1>1, <1>4, <1>5, <1>6, MeasuresKept, OutcomesKept DEF Desk!DeskInv

\* One simulation more, by a user or by the seeding (of one tenant) that had it to do.
LEMMA DeskRecords ==
  ASSUME Desk!DeskInv, NEW t \in Tenants, NEW basis \in {"baseline", "what_if"},
         Desk!RecordSim(t, basis), UNCHANGED <<v1, v5, v6, v7, v8>>,
         v2' \in [Pair -> DeskRequests], v3' \in DeskWorkers,
         \A q \in Pair : v2'[q] = v2[q] \/ v2'[q].doing = "seed",
         \A u \in Tenants : Desk!Seedings(u)' \subseteq Desk!Seedings(u),
         basis = "baseline" => \E a \in Desk!Seedings(t) : a \notin Desk!Seedings(t)'
  PROVE  Desk!DeskInv'
<1> DEFINE new == [tenant |-> t, basis |-> basis, kept |-> FALSE, measured |-> 0]
           n == Len(v4) + 1
<1>0. Desk!TypeOK
  BY DEF Desk!DeskInv
<1>1. v4 \in Seq(Desk!SimSet) /\ v4' = Append(v4, new) /\ Len(v4) < MaxSims /\ Len(v4) \in Nat
      /\ DOMAIN v4 = 1..Len(v4)
  BY <1>0 DEF Desk!RecordSim, Desk!TypeOK
<1>2. new \in Desk!SimSet /\ new.tenant = t /\ new.basis = basis
  BY DEF Desk!SimSet, Desk!Maybe
<1> HIDE DEF new
<1>3. /\ v4' \in Seq(Desk!SimSet) /\ Len(v4') = n /\ v4'[n] = new
      /\ (\A i \in DOMAIN v4 : v4'[i] = v4[i])
      /\ DOMAIN v4' = DOMAIN v4 \cup {n} /\ n \notin DOMAIN v4
  BY <1>1, <1>2, AppendProperties
<1>4. Desk!TypeOK'
  <2>1. Len(v4') <= MaxSims
    BY <1>1, <1>3, WorkspaceAssumption
  <2> QED BY <1>0, <1>3, <2>1 DEF Desk!TypeOK, DeskRequests, DeskWorkers
<1>5. DeskGrows
  BY <1>3 DEF DeskGrows
<1>6. Desk!SeedersAreCounted'
  <2> SUFFICES ASSUME NEW u \in Tenants
               PROVE  /\ IsFiniteSet(Desk!Seedings(u)')
                      /\ Cardinality(Desk!Baselines(u)') + Cardinality(Desk!Seedings(u)') <= 1 + v8[u]
    BY DeskCountedIs DEF DeskCounted
  <2> DEFINE b == Cardinality(Desk!Baselines(u))
             c == Cardinality(Desk!Baselines(u)')
             m == Cardinality(Desk!Seedings(u))
             k == Cardinality(Desk!Seedings(u)')
  <2>1. IsFiniteSet(Desk!Seedings(u)) /\ b + m <= 1 + v8[u]
    BY DeskCountedIs DEF Desk!DeskInv, DeskCounted
  <2>2. IsFiniteSet(Desk!Seedings(u)') /\ k <= m /\ (k = m => Desk!Seedings(u)' = Desk!Seedings(u))
    BY <2>1, FS_Subset
  <2>3. m \in Nat /\ k \in Nat /\ b \in Nat /\ v8[u] \in Nat
    BY <1>0, <2>1, <2>2, FS_CardinalityType, BaselinesFinite DEF Desk!TypeOK
  <2>4. CASE u = t /\ basis = "baseline"
    <3>1. Desk!Baselines(u)' = Desk!Baselines(u) \cup {n} /\ n \notin Desk!Baselines(u)
      BY <1>2, <1>3, <2>4 DEF Desk!Baselines
    <3>2. c = b + 1
      BY <1>0, <3>1, FS_AddElement, BaselinesFinite
    <3>3. k # m
      BY <2>2, <2>4
    <3> HIDE DEF b, c, m, k
    <3>4. c + k <= 1 + v8[u]
      BY <2>1, <2>2, <2>3, <3>2, <3>3
    <3> QED BY <2>2, <3>4 DEF c, k
  <2>5. CASE ~(u = t /\ basis = "baseline")
    <3>1. Desk!Baselines(u)' = Desk!Baselines(u)
      BY <1>2, <1>3, <2>5 DEF Desk!Baselines
    <3>2. c = b
      BY <3>1
    <3> HIDE DEF b, c, m, k
    <3>3. c + k <= 1 + v8[u]
      BY <2>1, <2>2, <2>3, <3>2
    <3> QED BY <2>2, <3>3 DEF c, k
  <2> QED BY <2>4, <2>5
<1>7. Desk!MeasuresHold'
  <2>1. \A q \in Pair : v2'[q] = v2[q] \/ Desk!MeasureHolds(v2'[q])
    BY DEF Desk!MeasureHolds
  <2> QED BY <1>5, <2>1, MeasuresKept DEF Desk!DeskInv
<1> QED BY <1>4, <1>5, <1>6, <1>7, OutcomesKept DEF Desk!DeskInv

LEMMA DeskSimulates ==
  ASSUME Desk!DeskInv, NEW t \in Tenants, Desk!SimulatePrice(t)
  PROVE  Desk!DeskInv'
<1>1. Desk!RecordSim(t, "what_if") /\ UNCHANGED <<v1, v2, v3, v5, v6, v7, v8>>
  BY DEF Desk!SimulatePrice
<1>2. v2 \in [Pair -> DeskRequests] /\ v3 \in DeskWorkers
  BY DeskTypes DEF Desk!DeskInv
<1>3. \A u : Desk!Seedings(u)' = Desk!Seedings(u)
  BY <1>1 DEF Desk!Seedings
<1> QED BY <1>1, <1>2, <1>3, DeskRecords

\* The job inserts the baseline of one tenant, or the console that of the one who asks.
LEMMA DeskSeeds ==
  ASSUME Desk!DeskInv,
         \/ \E t \in Tenants : Desk!SeedInsert(t)
         \/ \E q \in Pair : Desk!ConsoleSeedInsert(q)
  PROVE  Desk!DeskInv'
<1>0. v2 \in [Pair -> DeskRequests] /\ v3 \in DeskWorkers
  BY DeskTypes DEF Desk!DeskInv
<1>1. v4 \in Seq(Desk!SimSet) /\ Len(v4) \in Nat
  BY DEF Desk!DeskInv, Desk!TypeOK
<1>2. ASSUME NEW t \in Tenants, Desk!SeedInsert(t) PROVE Desk!DeskInv'
  <2>1. /\ Desk!RecordSim(t, "baseline") /\ UNCHANGED <<v1, v2, v5, v6, v7, v8>>
        /\ v3' = [v3 EXCEPT !.todo = @ \ {t}, !.row = Len(v4) + 1] /\ t \in v3.todo
    BY ONLY <1>2 DEF Desk!SeedInsert
  <2>2. Len(v4) + 1 \in 0..MaxSims
    <3>1. Len(v4) < MaxSims
      BY <2>1 DEF Desk!RecordSim
    <3> QED BY <1>1, <3>1, WorkspaceAssumption
  <2>3. v3'.todo = v3.todo \ {t} /\ v3' \in DeskWorkers
    BY <1>0, <2>1, <2>2 DEF DeskWorkers
  <2>4. \A u \in Tenants : Desk!Seedings(u)' \subseteq Desk!Seedings(u)
    BY <2>1, <2>3 DEF Desk!Seedings
  <2>5. "worker" \in Desk!Seedings(t) /\ "worker" \notin Desk!Seedings(t)'
    BY <2>1, <2>3, WorkspaceAssumption DEF Desk!Seedings
  <2> QED BY <1>0, <2>1, <2>3, <2>4, <2>5, DeskRecords
<1>3. ASSUME NEW q \in Pair, Desk!ConsoleSeedInsert(q) PROVE Desk!DeskInv'
  <2>1. PICK t \in v2[q].todo :
          /\ Desk!RecordSim(t, "baseline")
          /\ v2' = [v2 EXCEPT ![q].todo = @ \ {t}, ![q].row = Len(v4) + 1]
    BY <1>3 DEF Desk!ConsoleSeedInsert
  <2>2. v2[q].doing = "seed" /\ UNCHANGED <<v1, v3, v5, v6, v7, v8>>
    BY <1>3 DEF Desk!ConsoleSeedInsert
  <2>3. v2[q] \in Desk!Seeding
    BY <1>0, <2>2, DeskRecordIs
  <2>4. t \in Tenants
    BY <2>1, <2>3 DEF Desk!Seeding
  <2>5. Len(v4) + 1 \in 0..MaxSims
    <3>1. Len(v4) < MaxSims
      BY <2>1 DEF Desk!RecordSim
    <3> QED BY <1>1, <3>1, WorkspaceAssumption
  <2>6. /\ v2'[q] = [v2[q] EXCEPT !.todo = @ \ {t}, !.row = Len(v4) + 1]
        /\ \A p \in Pair \ {q} : v2'[p] = v2[p]
    BY <1>0, <2>1
  <2>7. v2'[q].doing = "seed" /\ v2'[q].todo = v2[q].todo \ {t} /\ v2'[q] \in Desk!Seeding
    BY <2>2, <2>3, <2>5, <2>6 DEF Desk!Seeding
  <2>8. v2' \in [Pair -> DeskRequests]
    <3>1. v2'[q] \in DeskRequests
      BY <2>7 DEF DeskRequests
    <3> QED BY <1>0, <2>1, <2>6, <3>1
  <2>9. \A u \in Tenants : Desk!Seedings(u)' \subseteq Desk!Seedings(u)
    BY <2>2, <2>6, <2>7 DEF Desk!Seedings
  <2>10. q \in Desk!Seedings(t) /\ q \notin Desk!Seedings(t)'
    BY <2>1, <2>2, <2>7, WorkspaceAssumption DEF Desk!Seedings
  <2> QED BY <1>0, <2>1, <2>2, <2>4, <2>6, <2>7, <2>8, <2>9, <2>10, DeskRecords
<1> QED BY <1>2, <1>3

\* A seeding begins: where another one is under way, or its row is on the way, they overlap.
LEMMA DeskSelects ==
  ASSUME Desk!DeskInv,
         Desk!SeedSelect \/ \E q \in Pair, t \in Tenants : Desk!ConsoleSeedSelect(q, t)
  PROVE  Desk!DeskInv'
<1>0. Desk!TypeOK /\ v2 \in [Pair -> DeskRequests] /\ v3 \in DeskWorkers /\ v8 \in [Tenants -> Nat]
  BY DeskTypes DEF Desk!DeskInv
<1>1. UNCHANGED <<v1, v4, v5, v6, v7>>
  BY DEF Desk!SeedSelect, Desk!ConsoleSeedSelect
<1>2. PICK who \in Pair \cup {"worker"}, todo \in SUBSET Tenants :
        /\ \A t \in todo : Desk!Unseeded(t)
        /\ v8' = Desk!Overlapped(todo)
        /\ \A t \in Tenants \ todo : Desk!Seedings(t)' \subseteq Desk!Seedings(t)
        /\ \A t \in todo : Desk!Seedings(t)' \subseteq Desk!Seedings(t) \cup {who}
        /\ v2' \in [Pair -> DeskRequests] /\ v3' \in DeskWorkers
        /\ \A q \in Pair : v2'[q] = v2[q] \/ v2'[q].doing = "seed"
  <2>1. CASE Desk!SeedSelect
    <3> DEFINE todo == {t \in Tenants : Desk!Unseeded(t)}
    <3>1. v3' = [phase |-> "seeding", todo |-> todo, row |-> 0] /\ v2' = v2
          /\ v8' = Desk!Overlapped(todo)
      BY <2>1 DEF Desk!SeedSelect
    <3>2. \A t \in Tenants \ todo : Desk!Seedings(t)' \subseteq Desk!Seedings(t)
      BY <3>1 DEF Desk!Seedings
    <3>3. \A t \in todo : Desk!Seedings(t)' \subseteq Desk!Seedings(t) \cup {"worker"}
      BY <3>1 DEF Desk!Seedings
    <3>4. (\A t \in todo : Desk!Unseeded(t)) /\ todo \in SUBSET Tenants
      OBVIOUS
    <3>5. v3' \in DeskWorkers
      BY <3>1, WorkspaceAssumption DEF DeskWorkers
    <3> HIDE DEF todo
    <3> QED BY <1>0, <3>1, <3>2, <3>3, <3>4, <3>5
  <2>2. CASE \E q \in Pair, t \in Tenants : Desk!ConsoleSeedSelect(q, t)
    <3>1. PICK q \in Pair, t \in Tenants : Desk!ConsoleSeedSelect(q, t)
      BY <2>2
    <3> DEFINE todo == {u \in {t} : Desk!Unseeded(u)}
               r == [doing |-> "seed", tenant |-> t, todo |-> todo, row |-> 0]
    <3>2. /\ v2' = [v2 EXCEPT ![q] = r] /\ v3' = v3
          /\ v8' = Desk!Overlapped(todo) /\ v2[q] = Desk!Idle
      BY <3>1 DEF Desk!ConsoleSeedSelect
    <3>3. r \in DeskRequests
      BY WorkspaceAssumption DEF DeskRequests, Desk!Seeding
    <3>4. v2'[q] = r /\ \A p \in Pair \ {q} : v2'[p] = v2[p]
      BY <1>0, <3>2
    <3>5. \A u \in Tenants \ todo : Desk!Seedings(u)' \subseteq Desk!Seedings(u)
      BY <3>2, <3>4 DEF Desk!Seedings
    <3>6. \A u \in todo : Desk!Seedings(u)' \subseteq Desk!Seedings(u) \cup {q}
      BY <3>2, <3>4 DEF Desk!Seedings
    <3>7. (\A u \in todo : Desk!Unseeded(u)) /\ todo \in SUBSET Tenants /\ r.doing = "seed"
      OBVIOUS
    <3>8. v2' \in [Pair -> DeskRequests]
      <4> HIDE DEF r
      <4> QED BY <1>0, <3>2, <3>3
    <3> HIDE DEF todo, r
    <3> QED BY <1>0, <3>2, <3>4, <3>5, <3>6, <3>7, <3>8
  <2> QED BY <2>1, <2>2
<1>3. \A t \in Tenants : /\ t \in todo /\ Desk!Overlapping(t) => v8'[t] = v8[t] + 1
                         /\ ~(t \in todo /\ Desk!Overlapping(t)) => v8'[t] = v8[t]
  BY <1>2 DEF Desk!Overlapped
<1>4. v8' \in [Tenants -> Nat]
  BY <1>0, <1>2 DEF Desk!Overlapped
<1>5. Desk!TypeOK'
  BY <1>0, <1>1, <1>2, <1>4 DEF Desk!TypeOK, DeskRequests, DeskWorkers
<1>6. \A t : Desk!Baselines(t)' = Desk!Baselines(t)
  BY <1>1 DEF Desk!Baselines
<1>7. Desk!SeedersAreCounted'
  <2> SUFFICES ASSUME NEW t \in Tenants
               PROVE  /\ IsFiniteSet(Desk!Seedings(t)')
                      /\ Cardinality(Desk!Baselines(t)) + Cardinality(Desk!Seedings(t)') <= 1 + v8'[t]
    BY <1>6, DeskCountedIs DEF DeskCounted
  <2> DEFINE b == Cardinality(Desk!Baselines(t))
             m == Cardinality(Desk!Seedings(t))
             k == Cardinality(Desk!Seedings(t)')
  <2>1. IsFiniteSet(Desk!Seedings(t)) /\ b + m <= 1 + v8[t]
    BY DeskCountedIs DEF Desk!DeskInv, DeskCounted
  <2>2. m \in Nat /\ b \in Nat /\ v8[t] \in Nat
    BY <1>0, <2>1, FS_CardinalityType, BaselinesFinite
  <2>3. IsFiniteSet(Desk!Seedings(t) \cup {who}) /\ Cardinality(Desk!Seedings(t) \cup {who}) <= m + 1
    <3>1. IsFiniteSet(Desk!Seedings(t) \cup {who})
          /\ Cardinality(Desk!Seedings(t) \cup {who}) = IF who \in Desk!Seedings(t) THEN m ELSE m + 1
      BY <2>1, FS_AddElement
    <3> HIDE DEF m
    <3> QED BY <2>2, <3>1
  <2>4. Desk!Seedings(t)' \subseteq Desk!Seedings(t) \cup {who}
    BY <1>2
  <2>5. IsFiniteSet(Desk!Seedings(t)') /\ k \in Nat
    BY <2>3, <2>4, FS_Subset, FS_CardinalityType
  <2>6. k <= m + 1
    <3>1. k <= Cardinality(Desk!Seedings(t) \cup {who})
      BY <2>3, <2>4, FS_Subset
    <3>2. Cardinality(Desk!Seedings(t) \cup {who}) \in Nat
      BY <2>3, FS_CardinalityType
    <3> QED BY <2>2, <2>3, <2>5, <3>1, <3>2
  <2>7. CASE t \notin todo
    <3>1. k <= m /\ v8'[t] = v8[t]
      BY <1>2, <1>3, <2>1, <2>7, FS_Subset
    <3> HIDE DEF b, m, k
    <3>2. b + k <= 1 + v8'[t]
      BY <2>1, <2>2, <2>5, <3>1
    <3> QED BY <2>5, <3>2 DEF b, k
  <2>8. CASE t \in todo /\ Desk!Overlapping(t)
    <3>1. v8'[t] = v8[t] + 1
      BY <1>3, <2>8
    <3> HIDE DEF b, m, k
    <3>2. b + k <= 1 + v8'[t]
      BY <2>1, <2>2, <2>5, <2>6, <3>1
    <3> QED BY <2>5, <3>2 DEF b, k
  <2>9. CASE t \in todo /\ ~Desk!Overlapping(t)
    <3>1. Desk!Seedings(t) = {} /\ \A i \in Desk!Baselines(t) : v4[i].kept
      BY <2>9 DEF Desk!Overlapping
    <3>2. Desk!Baselines(t) = {}
      BY <1>2, <2>9, <3>1 DEF Desk!Unseeded, Desk!Visible, Desk!Baselines
    <3>3. m = 0 /\ b = 0
      BY <3>1, <3>2, FS_EmptySet
    <3>4. v8'[t] = v8[t]
      BY <1>3, <2>9
    <3> HIDE DEF b, m, k
    <3>5. b + k <= 1 + v8'[t]
      BY <2>2, <2>5, <2>6, <3>3, <3>4
    <3> QED BY <2>5, <3>5 DEF b, k
  <2> QED BY <2>7, <2>8, <2>9
<1>8. DeskGrows
  BY <1>1 DEF DeskGrows
<1>9. Desk!MeasuresHold'
  <2>1. \A q \in Pair : v2'[q] = v2[q] \/ Desk!MeasureHolds(v2'[q])
    BY <1>2 DEF Desk!MeasureHolds
  <2> QED BY <1>8, <2>1, MeasuresKept DEF Desk!DeskInv
<1> QED BY <1>1, <1>5, <1>7, <1>8, <1>9, OutcomesKept DEF Desk!DeskInv

\* A measurement changes nothing but the measured values, and those to a value.
LEMMA MeasuredIs ==
  ASSUME Desk!TypeOK, NEW seen, NEW value \in Desk!Maybe, v4' = Desk!Measured(seen, value),
         seen # {} => value # 0
  PROVE  /\ v4' \in Seq(Desk!SimSet) /\ Len(v4') = Len(v4) /\ DOMAIN v4' = DOMAIN v4 /\ DeskGrows
         /\ \A i \in DOMAIN v4 : i \in seen => v4'[i].measured # 0
         /\ \A t : Desk!Baselines(t)' = Desk!Baselines(t)
<1>1. v4 \in Seq(Desk!SimSet) /\ DOMAIN v4 = 1..Len(v4) /\ Len(v4) \in Nat
  BY DEF Desk!TypeOK
<1> DEFINE m(i) == IF i \in seen THEN [v4[i] EXCEPT !.measured = value] ELSE v4[i]
<1>2. v4' = [i \in 1..Len(v4) |-> m(i)]
  BY <1>1 DEF Desk!Measured
<1>3. ASSUME NEW i \in 1..Len(v4)
      PROVE  /\ m(i) \in Desk!SimSet
             /\ m(i).tenant = v4[i].tenant /\ m(i).basis = v4[i].basis /\ m(i).kept = v4[i].kept
             /\ m(i).measured = IF i \in seen THEN value ELSE v4[i].measured
  <2>1. v4[i] \in Desk!SimSet
    BY <1>1
  <2> QED BY <2>1 DEF Desk!SimSet
<1>4. \A i \in 1..Len(v4) : v4'[i] = m(i)
  BY <1>2
<1>5. v4' = [i \in 1..Len(v4) |-> v4'[i]] /\ \A i \in 1..Len(v4) : v4'[i] \in Desk!SimSet
  BY <1>2, <1>3, <1>4
<1> HIDE DEF m
<1>6. v4' \in Seq(Desk!SimSet) /\ Len(v4') = Len(v4) /\ DOMAIN v4' = DOMAIN v4
  BY <1>1, <1>5, IsASeq
<1>7. \A i \in DOMAIN v4 :
        /\ v4'[i].tenant = v4[i].tenant /\ v4'[i].basis = v4[i].basis /\ v4'[i].kept = v4[i].kept
        /\ v4'[i].measured = IF i \in seen THEN value ELSE v4[i].measured
  BY <1>1, <1>3, <1>4
<1>8. DeskGrows /\ \A i \in DOMAIN v4 : i \in seen => v4'[i].measured # 0
  BY <1>6, <1>7 DEF DeskGrows
<1>9. \A t : Desk!Baselines(t)' = Desk!Baselines(t)
  BY <1>6, <1>7 DEF Desk!Baselines
<1> QED BY <1>6, <1>8, <1>9

\* The measurements are written: a refresh commits, or an outcome with what was due to it.
LEMMA DeskWrites ==
  ASSUME Desk!DeskInv, NEW q \in Pair, Desk!Refreshed(q) \/ Desk!OutcomeCommit(q)
  PROVE  Desk!DeskInv'
<1> DEFINE r == v2[q]
<1>0. Desk!TypeOK /\ v2 \in [Pair -> DeskRequests] /\ v1 \in DeskStages /\ v6 \in DeskOutcomes
  BY DeskTypes DEF Desk!DeskInv
<1>1. /\ r.doing \in {"refresh", "measured"} /\ v4' = Desk!Measured(r.seen, r.value)
      /\ v2' = [v2 EXCEPT ![q] = Desk!Idle] /\ UNCHANGED <<v3, v5, v7, v8>>
  BY DEF Desk!Refreshed, Desk!OutcomeCommit
<1>2. r.value \in Desk!Maybe /\ r.seen \subseteq DOMAIN v4 /\ (r.seen # {} => r.value # 0)
  <2>1. r.value \in Desk!Maybe
    BY <1>0, <1>1, DeskRecordIs DEF Desk!Measuring, Desk!Refreshing
  <2> QED BY <1>1, <2>1 DEF Desk!DeskInv, Desk!MeasuresHold, Desk!MeasureHolds
<1>3. /\ v4' \in Seq(Desk!SimSet) /\ Len(v4') = Len(v4) /\ DOMAIN v4' = DOMAIN v4 /\ DeskGrows
      /\ \A i \in DOMAIN v4 : i \in r.seen => v4'[i].measured # 0
      /\ \A t : Desk!Baselines(t)' = Desk!Baselines(t)
  <2> HIDE DEF r
  <2> QED BY <1>0, <1>1, <1>2, MeasuredIs
<1>4. /\ v2' \in [Pair -> DeskRequests] /\ v2'[q] = Desk!Idle
      /\ \A p \in Pair \ {q} : v2'[p] = v2[p]
  <2>1. Desk!Idle \in DeskRequests
    BY DEF DeskRequests
  <2> QED BY <1>0, <1>1, <2>1
<1>5. Desk!SeedersAreCounted'
  <2>1. \A t \in Tenants : Desk!Seedings(t)' \subseteq Desk!Seedings(t)
    BY <1>1, <1>4 DEF Desk!Seedings, Desk!Idle
  <2> QED BY <1>0, <1>1, <1>3, <2>1, SeedersKept DEF Desk!DeskInv
<1>6. Desk!MeasuresHold'
  <2>1. Desk!MeasureHolds(Desk!Idle)
    BY DEF Desk!MeasureHolds, Desk!Idle
  <2> QED BY <1>3, <1>4, <2>1, MeasuresKept DEF Desk!DeskInv
<1>7. CASE Desk!Refreshed(q)
  <2>1. v1' = v1 /\ v6' = v6
    BY <1>7 DEF Desk!Refreshed
  <2>2. Desk!TypeOK'
    BY <1>0, <1>1, <1>3, <1>4, <2>1 DEF Desk!TypeOK, DeskRequests
  <2> QED BY <1>3, <1>5, <1>6, <2>1, <2>2, OutcomesKept DEF Desk!DeskInv
<1>8. CASE Desk!OutcomeCommit(q)
  <2> DEFINE entry == [result |-> r.result, due |-> r.due]
  <2>1. /\ r.doing = "measured" /\ v6' = [v6 EXCEPT ![r.tenant] = entry]
        /\ v1' = [v1 EXCEPT ![r.tenant] = r.result]
    BY <1>8 DEF Desk!OutcomeCommit
  <2>2. r \in Desk!Measuring /\ r.due \subseteq r.seen
    BY <1>0, <2>1, DeskRecordIs DEF Desk!DeskInv, Desk!MeasuresHold, Desk!MeasureHolds
  <2>3. /\ r.tenant \in Tenants /\ r.result \in DeskResults /\ entry.due = r.due
        /\ entry \in [result : DeskResults \cup {"none"}, due : SUBSET (1..MaxSims)]
    BY <2>2 DEF Desk!Measuring
  <2> HIDE DEF r, entry
  <2>4. v1' \in DeskStages
    BY <1>0, <2>1, <2>3 DEF DeskStages, Desk!Stages
  <2>5. /\ v6' \in DeskOutcomes /\ v6'[r.tenant] = entry
        /\ \A t \in Tenants \ {r.tenant} : v6'[t] = v6[t]
    BY <1>0, <2>1, <2>3 DEF DeskOutcomes
  <2>6. Desk!TypeOK'
    BY <1>0, <1>1, <1>3, <1>4, <2>4, <2>5 DEF Desk!TypeOK, DeskRequests, DeskStages, DeskOutcomes
  <2>7. Desk!DuesExist' /\ Desk!OutcomesAreMeasured'
    <3> SUFFICES ASSUME NEW t \in Tenants
                 PROVE  v6'[t].due \subseteq DOMAIN v4' /\ \A i \in v6'[t].due : v4'[i].measured # 0
      BY DEF Desk!DuesExist, Desk!OutcomesAreMeasured
    <3>1. CASE t = r.tenant
      BY <1>2, <1>3, <2>2, <2>3, <2>5, <3>1
    <3>2. CASE t # r.tenant
      BY <1>3, <2>5, <3>2 DEF Desk!DeskInv, Desk!DuesExist, Desk!OutcomesAreMeasured, DeskGrows
    <3> QED BY <3>1, <3>2
  <2> QED BY <1>5, <1>6, <2>6, <2>7 DEF Desk!DeskInv
<1> QED BY <1>7, <1>8

LEMMA DeskStep ==
  ASSUME Desk!DeskInv, [Desk!Next]_(Desk!vars) PROVE Desk!DeskInv'
BY DeskRequestMoves, DeskOutside, DeskCommits, DeskSimulates, DeskSeeds, DeskSelects, DeskWrites
   DEF Desk!Next

LEMMA DeskHolds ==
  ASSUME Desk!DeskInv PROVE Desk!BaselinesAreCounted /\ Desk!OutcomesAreMeasured
<1>1. ASSUME NEW t \in Tenants PROVE Cardinality(Desk!Baselines(t)) <= 1 + v8[t]
  <2> DEFINE b == Cardinality(Desk!Baselines(t))  m == Cardinality(Desk!Seedings(t))
  <2>1. IsFiniteSet(Desk!Seedings(t)) /\ b + m <= 1 + v8[t]
    BY DeskCountedIs DEF Desk!DeskInv, DeskCounted
  <2>2. m \in Nat /\ b \in Nat /\ v8[t] \in Nat
    BY <2>1, FS_CardinalityType, BaselinesFinite DEF Desk!DeskInv, Desk!TypeOK
  <2> HIDE DEF b, m
  <2>3. b <= 1 + v8[t]
    BY <2>1, <2>2
  <2> QED BY <2>3 DEF b
<1> QED BY <1>1, DeskCounts DEF Desk!DeskInv, Desk!BaselinesAreCounted

-----------------------------------------------------------------------------
(***************************************************************************)
(* MilestoneReminders: each offset is sent once.  v1 .. v8 are clock, due, *)
(* completed, linked, notif, job, edits and messages.                      *)
(***************************************************************************)
MilestoneJobs == [phase : {"idle", "fetch", "chat", "claim", "claimed", "sent"},
                  now : 0..MilestoneClock, offset : Milestones!Offsets \cup {"none"},
                  result : Milestones!Results]

LEMMA MilestoneInit == ASSUME Milestones!Init PROVE Milestones!MilestoneInv
<1>1. Milestones!Idle \in MilestoneJobs /\ Milestones!Idle.phase = "idle"
  BY WorkspaceAssumption DEF Milestones!Idle, MilestoneJobs, Milestones!Results
<1>2. v6 \in [Pair -> MilestoneJobs] /\ \A j \in Pair : v6[j].phase = "idle"
  BY <1>1 DEF Milestones!Init
<1>3. Milestones!TypeOK
  <2>1. v1 \in 1..MilestoneClock /\ v2 \in 0..(MilestoneClock + 3) /\ v7 \in 0..MilestoneEdits
    BY WorkspaceAssumption DEF Milestones!Init
  <2>2. v3 \in BOOLEAN
    BY DEF Milestones!Init
  <2>3. v4 \in BOOLEAN
    BY DEF Milestones!Init
  <2>4. v5 \in [Milestones!Offsets -> Milestones!Results \cup {"none"}]
    BY DEF Milestones!Init
  <2>5. v8 \in [Milestones!Offsets -> Nat]
    BY DEF Milestones!Init
  <2> QED BY <1>2, <2>1, <2>2, <2>3, <2>4, <2>5 DEF Milestones!TypeOK, MilestoneJobs
<1>4. Milestones!Claiming
  BY <1>2 DEF Milestones!Init, Milestones!Claiming, Milestones!Holders
<1>5. Milestones!MilestoneToldOnce
  BY DEF Milestones!Init, Milestones!MilestoneToldOnce
<1> QED BY <1>3, <1>4, <1>5 DEF Milestones!MilestoneInv

\* A step that makes no run a holder and leaves rows and messages alone.
LEMMA MilestoneQuiet ==
  ASSUME Milestones!MilestoneInv, Milestones!TypeOK', UNCHANGED <<v5, v8>>,
         \A j \in Pair : \/ v6'[j] = v6[j]
                         \/ v6'[j].phase \in {"idle", "fetch"}
                         \/ v6'[j].phase \in {"chat", "claim"} /\ v6'[j].offset # "none"
  PROVE  Milestones!MilestoneInv'
<1>1. \A o \in Milestones!Offsets : Milestones!Holders(o)' \subseteq Milestones!Holders(o)
                              /\ \A j \in Milestones!Holders(o)' : v6'[j] = v6[j]
  BY DEF Milestones!Holders
<1>2. Milestones!Claiming'
  BY <1>1 DEF Milestones!MilestoneInv, Milestones!Claiming
<1>3. Milestones!MilestoneToldOnce'
  BY DEF Milestones!MilestoneInv, Milestones!MilestoneToldOnce
<1> QED BY <1>2, <1>3 DEF Milestones!MilestoneInv

LEMMA MilestoneJobStep ==
  ASSUME Milestones!MilestoneInv, NEW j \in Pair,
         Milestones!Start(j) \/ Milestones!Fetch(j) \/ Milestones!FetchChat(j) \/ Milestones!Die(j)
  PROVE  Milestones!MilestoneInv'
<1> DEFINE clock == v1  job == v6
<1>0. Milestones!TypeOK /\ clock \in 1..MilestoneClock /\ job \in [Pair -> MilestoneJobs]
      /\ clock \in 0..MilestoneClock
  BY WorkspaceAssumption DEF Milestones!MilestoneInv, Milestones!TypeOK, MilestoneJobs
<1>1. UNCHANGED <<v1, v2, v3, v4, v5, v7, v8>>
  BY DEF Milestones!Start, Milestones!Fetch, Milestones!FetchChat, Milestones!Die
<1>2. Milestones!Idle \in MilestoneJobs /\ Milestones!Idle.phase = "idle"
  BY WorkspaceAssumption DEF Milestones!Idle, MilestoneJobs, Milestones!Results
<1>3. \E r \in MilestoneJobs : /\ job' = [job EXCEPT ![j] = r]
                               /\ \/ r.phase \in {"idle", "fetch"}
                                  \/ r.phase \in {"chat", "claim"} /\ r.offset # "none"
  <2>1. CASE Milestones!Start(j)
    <3> DEFINE r == [Milestones!Idle EXCEPT !.phase = "fetch", !.now = clock]
    <3>1. r \in MilestoneJobs /\ r.phase = "fetch"
      BY <1>0, <1>2 DEF MilestoneJobs
    <3> QED BY <2>1, <3>1 DEF Milestones!Start
  <2>2. CASE Milestones!Fetch(j)
    <3>1. PICK offset \in Milestones!Offsets \cup {"none"} :
            job' = [job EXCEPT ![j] = IF offset = "none" THEN Milestones!Idle
                                      ELSE [job[j] EXCEPT !.phase = "chat", !.offset = offset]]
      <4>1. \A d, n \in Nat : Milestones!OffsetFor(d, n) \in Milestones!Offsets
                           \/ Milestones!OffsetFor(d, n) = "none"
        BY DEF Milestones!OffsetFor, Milestones!Offsets
      <4>2. v2 \in Nat /\ job[j].now \in Nat
        BY <1>0, WorkspaceAssumption DEF Milestones!TypeOK, MilestoneJobs
      <4> QED BY <2>2, <4>1, <4>2 DEF Milestones!Fetch
    <3> DEFINE r == [job[j] EXCEPT !.phase = "chat", !.offset = offset]
    <3>2. r \in MilestoneJobs /\ r.phase = "chat" /\ r.offset = offset
      BY <1>0 DEF MilestoneJobs
    <3> QED BY <1>2, <3>1, <3>2
  <2>3. CASE Milestones!FetchChat(j)
    <3> DEFINE r == [job[j] EXCEPT !.phase = "claim"]
    <3>1. r \in MilestoneJobs /\ r.phase = "claim" /\ r.offset = job[j].offset
      BY <1>0 DEF MilestoneJobs
    <3>2. job[j].offset # "none" /\ job' = [job EXCEPT ![j] = IF v4 THEN r ELSE Milestones!Idle]
      BY <2>3 DEF Milestones!FetchChat, Milestones!MilestoneInv, Milestones!Claiming
    <3> QED BY <1>2, <3>1, <3>2
  <2>4. CASE Milestones!Die(j)
    BY <1>2, <2>4 DEF Milestones!Die
  <2> QED BY <2>1, <2>2, <2>3, <2>4
<1>4. PICK r \in MilestoneJobs : /\ job' = [job EXCEPT ![j] = r]
                                 /\ \/ r.phase \in {"idle", "fetch"}
                                    \/ r.phase \in {"chat", "claim"} /\ r.offset # "none"
  BY <1>3
<1>5. job' \in [Pair -> MilestoneJobs] /\ job'[j] = r /\ \A k \in Pair \ {j} : job'[k] = job[k]
  BY <1>0, <1>4
<1>6. Milestones!TypeOK'
  BY <1>0, <1>1, <1>5 DEF Milestones!TypeOK, MilestoneJobs
<1> QED BY <1>1, <1>4, <1>5, <1>6, MilestoneQuiet

\* The team, and time.
LEMMA MilestoneOutside ==
  ASSUME Milestones!MilestoneInv,
         \/ Milestones!Tick \/ Milestones!LinkChat \/ UNCHANGED Milestones!vars
         \/ \E d \in 0..(MilestoneClock + 3), done \in BOOLEAN : Milestones!PatchMilestone(d, done)
  PROVE  Milestones!MilestoneInv'
<1>0. Milestones!TypeOK
  BY DEF Milestones!MilestoneInv
<1>1. UNCHANGED <<v5, v6, v8>>
  BY DEF Milestones!Tick, Milestones!LinkChat, Milestones!PatchMilestone, Milestones!vars
<1>2. v1' \in 1..MilestoneClock /\ v2' \in 0..(MilestoneClock + 3) /\ v7' \in 0..MilestoneEdits
  BY <1>0, WorkspaceAssumption
     DEF Milestones!Tick, Milestones!LinkChat, Milestones!PatchMilestone, Milestones!vars,
         Milestones!TypeOK
<1>3. v3' \in BOOLEAN
  BY <1>0 DEF Milestones!Tick, Milestones!LinkChat, Milestones!PatchMilestone, Milestones!vars,
              Milestones!TypeOK
<1>4. v4' \in BOOLEAN
  BY <1>0 DEF Milestones!Tick, Milestones!LinkChat, Milestones!PatchMilestone, Milestones!vars,
              Milestones!TypeOK
<1>5. Milestones!TypeOK'
  BY <1>0, <1>1, <1>2, <1>3, <1>4 DEF Milestones!TypeOK
<1> QED BY <1>1, <1>5, MilestoneQuiet

LEMMA MilestoneClaim ==
  ASSUME Milestones!MilestoneInv, NEW j \in Pair,
         \/ Milestones!Claim(j) \/ Milestones!Record(j)
         \/ \E result \in Milestones!Results : Milestones!Send(j, result)
  PROVE  Milestones!MilestoneInv'
<1> DEFINE notif == v5  job == v6  messages == v8  o == job[j].offset
<1>0. /\ Milestones!TypeOK /\ job \in [Pair -> MilestoneJobs]
      /\ notif \in [Milestones!Offsets -> Milestones!Results \cup {"none"}]
      /\ messages \in [Milestones!Offsets -> Nat] /\ job[j] \in MilestoneJobs
  BY DEF Milestones!MilestoneInv, Milestones!TypeOK, MilestoneJobs
<1>1. UNCHANGED <<v1, v2, v3, v4, v7>>
  BY DEF Milestones!Claim, Milestones!Record, Milestones!Send
<1>2. job[j].phase \in {"claim", "claimed", "sent"} /\ o \in Milestones!Offsets
  <2>1. job[j].phase \in {"claim", "claimed", "sent"}
    BY DEF Milestones!Claim, Milestones!Record, Milestones!Send
  <2> QED BY <1>0, <2>1 DEF Milestones!MilestoneInv, Milestones!Claiming, MilestoneJobs
<1>3. Milestones!Idle \in MilestoneJobs /\ Milestones!Idle.phase = "idle"
  BY WorkspaceAssumption DEF Milestones!Idle, MilestoneJobs, Milestones!Results
<1>4. /\ \A p \in Milestones!Offsets :
           /\ notif[p] = "none" => messages[p] = 0 /\ Milestones!Holders(p) = {}
           /\ \A i, k \in Milestones!Holders(p) : i = k
           /\ \A i \in Milestones!Holders(p) :
                messages[p] = IF job[i].phase = "sent" /\ job[i].result = "sent" THEN 1 ELSE 0
           /\ messages[p] <= 1 /\ (notif[p] = "sent" => messages[p] = 1)
      /\ \A k \in Pair : job[k].phase \in {"chat", "claim", "claimed", "sent"} =>
           job[k].offset # "none"
  BY DEF Milestones!MilestoneInv, Milestones!Claiming, Milestones!MilestoneToldOnce
<1>5. CASE Milestones!Claim(j)
  <2>1. CASE notif[o] # "none"
    <3>1. job' = [job EXCEPT ![j] = Milestones!Idle] /\ notif' = notif /\ messages' = messages
      BY <1>5, <2>1 DEF Milestones!Claim
    <3>2. /\ job' \in [Pair -> MilestoneJobs] /\ job'[j] = Milestones!Idle
          /\ \A k \in Pair \ {j} : job'[k] = job[k]
      BY <1>0, <1>3, <3>1
    <3>3. Milestones!TypeOK'
      BY <1>0, <1>1, <3>1, <3>2 DEF Milestones!TypeOK, MilestoneJobs
    <3> QED BY <1>3, <3>1, <3>2, <3>3, MilestoneQuiet
  <2>2. CASE notif[o] = "none"
    <3>1. /\ job' = [job EXCEPT ![j].phase = "claimed"] /\ messages' = messages
          /\ notif' = [notif EXCEPT ![o] = "pending"]
      BY <1>5, <2>2 DEF Milestones!Claim
    <3> DEFINE r == [job[j] EXCEPT !.phase = "claimed"]
    <3>2. r \in MilestoneJobs /\ r.phase = "claimed" /\ r.offset = o
      BY <1>0 DEF MilestoneJobs
    <3>3. /\ job' \in [Pair -> MilestoneJobs] /\ job'[j] = r
          /\ \A k \in Pair \ {j} : job'[k] = job[k]
      <4> HIDE DEF r
      <4>1. job' = [job EXCEPT ![j] = r]
        BY <3>1 DEF r
      <4> QED BY <1>0, <3>2, <4>1
    <3>4. notif' \in [Milestones!Offsets -> Milestones!Results \cup {"none"}]
          /\ notif'[o] = "pending" /\ \A p \in Milestones!Offsets \ {o} : notif'[p] = notif[p]
      BY <1>0, <1>2, <3>1 DEF Milestones!Results
    <3>5. Milestones!TypeOK'
      BY <1>0, <1>1, <3>1, <3>3, <3>4 DEF Milestones!TypeOK, MilestoneJobs
    <3> HIDE DEF r
    <3>6. /\ \A p \in Milestones!Offsets \ {o} : Milestones!Holders(p)' = Milestones!Holders(p)
          /\ Milestones!Holders(o)' \subseteq {j}
      <4>1. job[j].phase = "claim" /\ Milestones!Holders(o) = {}
        BY <1>2, <1>4, <1>5, <2>2 DEF Milestones!Claim
      <4> QED BY <3>2, <3>3, <4>1 DEF Milestones!Holders
    <3>7. Milestones!Claiming'
      <4>1. \A k \in Pair : job'[k].phase \in {"chat", "claim", "claimed", "sent"} =>
              job'[k].offset # "none"
        BY <1>2, <1>4, <3>2, <3>3 DEF Milestones!Offsets
      <4>2. ASSUME NEW p \in Milestones!Offsets
            PROVE  /\ notif'[p] = "none" => messages'[p] = 0 /\ Milestones!Holders(p)' = {}
                   /\ \A i, k \in Milestones!Holders(p)' : i = k
                   /\ \A i \in Milestones!Holders(p)' :
                        messages'[p] =
                          IF job'[i].phase = "sent" /\ job'[i].result = "sent" THEN 1 ELSE 0
        <5>1. CASE p = o
          BY <1>2, <1>4, <2>2, <3>1, <3>2, <3>3, <3>4, <3>6, <5>1
        <5>2. CASE p # o
          <6>1. \A i \in Milestones!Holders(p)' : job'[i] = job[i]
            BY <1>2, <3>2, <3>3, <5>2 DEF Milestones!Holders
          <6>2. notif'[p] = notif[p] /\ messages' = messages
                /\ Milestones!Holders(p)' = Milestones!Holders(p)
            BY <3>1, <3>4, <3>6, <5>2
          <6> QED BY <1>4, <6>1, <6>2
        <5> QED BY <5>1, <5>2
      <4> QED BY <4>1, <4>2 DEF Milestones!Claiming
    <3>8. Milestones!MilestoneToldOnce'
      BY <1>4, <3>1, <3>4 DEF Milestones!MilestoneToldOnce
    <3> QED BY <3>5, <3>7, <3>8 DEF Milestones!MilestoneInv
  <2> QED BY <2>1, <2>2
<1>6. ASSUME NEW result \in Milestones!Results, Milestones!Send(j, result)
      PROVE  Milestones!MilestoneInv'
  <2>1. /\ job[j].phase = "claimed" /\ notif' = notif
        /\ job' = [job EXCEPT ![j].phase = "sent", ![j].result = result]
        /\ messages' = [messages EXCEPT ![o] = @ + IF result = "sent" THEN 1 ELSE 0]
    BY <1>6 DEF Milestones!Send
  <2> DEFINE r == [job[j] EXCEPT !.phase = "sent", !.result = result]
  <2>2. r \in MilestoneJobs /\ r.phase = "sent" /\ r.offset = o /\ r.result = result
    BY <1>0, <1>6 DEF MilestoneJobs
  <2>3. /\ job' \in [Pair -> MilestoneJobs] /\ job'[j] = r
        /\ \A k \in Pair \ {j} : job'[k] = job[k]
    <3>1. job' = [job EXCEPT ![j] = r]
      BY <1>0, <2>1
    <3> HIDE DEF r
    <3> QED BY <1>0, <2>2, <3>1
  <2> HIDE DEF r
  <2>4. j \in Milestones!Holders(o) /\ Milestones!Holders(o) = {j} /\ messages[o] = 0
    BY <1>2, <1>4, <2>1 DEF Milestones!Holders
  <2>5. /\ messages' \in [Milestones!Offsets -> Nat]
        /\ messages'[o] = IF result = "sent" THEN 1 ELSE 0
        /\ \A p \in Milestones!Offsets \ {o} : messages'[p] = messages[p]
    BY <1>0, <1>2, <2>1, <2>4
  <2>6. Milestones!TypeOK'
    BY <1>0, <1>1, <2>1, <2>3, <2>5 DEF Milestones!TypeOK, MilestoneJobs
  <2>7. \A p \in Milestones!Offsets : Milestones!Holders(p)' = Milestones!Holders(p)
    BY <1>2, <2>1, <2>2, <2>3 DEF Milestones!Holders
  <2>8. Milestones!Claiming'
    <3>1. \A k \in Pair : job'[k].phase \in {"chat", "claim", "claimed", "sent"} =>
            job'[k].offset # "none"
      BY <1>2, <1>4, <2>2, <2>3 DEF Milestones!Offsets
    <3>2. ASSUME NEW p \in Milestones!Offsets
          PROVE  /\ notif'[p] = "none" => messages'[p] = 0 /\ Milestones!Holders(p)' = {}
                 /\ \A i, k \in Milestones!Holders(p)' : i = k
                 /\ \A i \in Milestones!Holders(p)' :
                      messages'[p] =
                        IF job'[i].phase = "sent" /\ job'[i].result = "sent" THEN 1 ELSE 0
      <4>1. CASE p = o
        BY <1>2, <1>4, <2>1, <2>2, <2>3, <2>4, <2>5, <2>7, <4>1
      <4>2. CASE p # o
        <5>1. \A i \in Milestones!Holders(p) : job'[i] = job[i]
          BY <1>2, <2>1, <2>3, <4>2 DEF Milestones!Holders
        <5>2. notif'[p] = notif[p] /\ messages'[p] = messages[p]
              /\ Milestones!Holders(p)' = Milestones!Holders(p)
          BY <2>1, <2>5, <2>7, <4>2
        <5> QED BY <1>4, <5>1, <5>2
      <4> QED BY <4>1, <4>2
    <3> QED BY <3>1, <3>2 DEF Milestones!Claiming
  <2>9. Milestones!MilestoneToldOnce'
    <3>1. notif[o] # "sent"
      BY <1>2, <1>4, <2>4
    <3> QED BY <1>4, <2>1, <2>5, <3>1 DEF Milestones!MilestoneToldOnce
  <2> QED BY <2>6, <2>8, <2>9 DEF Milestones!MilestoneInv
<1>7. CASE Milestones!Record(j)
  <2>1. /\ job[j].phase = "sent" /\ messages' = messages
        /\ notif' = [notif EXCEPT ![o] = job[j].result]
        /\ job' = [job EXCEPT ![j] = Milestones!Idle] /\ job[j].result \in Milestones!Results
    BY <1>0, <1>7 DEF Milestones!Record, MilestoneJobs
  <2>2. /\ job' \in [Pair -> MilestoneJobs] /\ job'[j] = Milestones!Idle
        /\ \A k \in Pair \ {j} : job'[k] = job[k]
    BY <1>0, <1>3, <2>1
  <2>3. /\ notif' \in [Milestones!Offsets -> Milestones!Results \cup {"none"}]
        /\ notif'[o] = job[j].result /\ notif'[o] # "none"
        /\ \A p \in Milestones!Offsets \ {o} : notif'[p] = notif[p]
    BY <1>0, <1>2, <2>1 DEF Milestones!Results
  <2>4. j \in Milestones!Holders(o) /\ Milestones!Holders(o) = {j}
        /\ messages[o] = IF job[j].result = "sent" THEN 1 ELSE 0
    BY <1>2, <1>4, <2>1 DEF Milestones!Holders
  <2>5. Milestones!TypeOK'
    BY <1>0, <1>1, <2>1, <2>2, <2>3 DEF Milestones!TypeOK, MilestoneJobs
  <2>6. \A p \in Milestones!Offsets : Milestones!Holders(p)' \subseteq Milestones!Holders(p)
                               /\ \A i \in Milestones!Holders(p)' : job'[i] = job[i]
    BY <1>3, <2>2 DEF Milestones!Holders
  <2>7. Milestones!Claiming'
    <3>1. \A k \in Pair : job'[k].phase \in {"chat", "claim", "claimed", "sent"} =>
            job'[k].offset # "none"
      BY <1>3, <1>4, <2>2
    <3> QED BY <1>4, <2>1, <2>3, <2>6, <3>1 DEF Milestones!Claiming
  <2>8. Milestones!MilestoneToldOnce'
    BY <1>4, <2>1, <2>3, <2>4 DEF Milestones!MilestoneToldOnce
  <2> QED BY <2>5, <2>7, <2>8 DEF Milestones!MilestoneInv
<1> QED BY <1>5, <1>6, <1>7

LEMMA MilestoneStep ==
  ASSUME Milestones!MilestoneInv, [Milestones!Next]_(Milestones!vars)
  PROVE  Milestones!MilestoneInv'
BY MilestoneJobStep, MilestoneOutside, MilestoneClaim DEF Milestones!Next

-----------------------------------------------------------------------------
(***************************************************************************)
(* DeadlineReminders: each threshold once, and in time.  v1 .. v8 are      *)
(* clock, closing, open, emitted, job, doneAt, moves and steadySince.      *)
(***************************************************************************)
DeadlineJobs == [phase : {"idle", "find", "check", "insert"}, left : SUBSET Thresholds,
                 threshold : Thresholds \cup {Deadlines!None}, began : 0..DeadlineClock]

LEMMA LargestThreshold ==
  ASSUME NEW S \in SUBSET Thresholds, S # {} PROVE Deadlines!Largest(S) \in S
<1>1. IsFiniteSet(S) /\ S \in SUBSET Nat
  BY WorkspaceAssumption, FS_Subset
<1>2. \E x \in S : \A y \in S : y <= x
  BY <1>1, FiniteHasLargest
<1> QED BY <1>2 DEF Deadlines!Largest

\* What the parts of the type invariant say of a state, for the arithmetic.
LEMMA DeadlineTypes ==
  ASSUME Deadlines!TypeOK
  PROVE  /\ v1 \in Nat /\ v1 >= 1 /\ v2 \in Nat /\ v6 \in Nat /\ v8 \in Nat /\ v5.began \in Nat
         /\ v5 \in DeadlineJobs /\ v5.phase \in {"idle", "find", "check", "insert"}
         /\ v5.left \in SUBSET Thresholds /\ v5.threshold \in Thresholds \cup {0}
         /\ \A th \in Thresholds : v4[th] \in Nat /\ th \in Nat /\ th > 0
         /\ v4 \in [Thresholds -> Nat]
BY WorkspaceAssumption DEF Deadlines!TypeOK, DeadlineJobs, Deadlines!None

LEMMA DeadlineInit == ASSUME Deadlines!Init PROVE Deadlines!DeadlineInv
<1>1. v5 \in DeadlineJobs
  BY WorkspaceAssumption DEF Deadlines!Init, DeadlineJobs, Deadlines!Idle
<1>2. v1 \in 1..DeadlineClock /\ v2 \in 1..(DeadlineClock + 1) /\ v6 \in 0..DeadlineClock
      /\ v7 \in 0..DeadlineMoves /\ v8 \in 1..DeadlineClock
  BY WorkspaceAssumption DEF Deadlines!Init, Deadlines!None
<1>3. v4 \in [Thresholds -> Nat] /\ \A th \in Thresholds : v4[th] = 0
  BY DEF Deadlines!Init
<1>4. v3 \in BOOLEAN
  BY DEF Deadlines!Init
<1>5. Deadlines!TypeOK
  BY <1>1, <1>2, <1>3, <1>4 DEF Deadlines!TypeOK, DeadlineJobs
<1>6. Deadlines!RemindedOnce
  BY <1>3 DEF Deadlines!RemindedOnce
<1>7. Deadlines!InOrder
  BY <1>2 DEF Deadlines!Init, Deadlines!InOrder, Deadlines!Idle, Deadlines!None
<1>8. Deadlines!Reminding
  <2>1. v1 = 1 /\ v8 = 1
    BY DEF Deadlines!Init
  <2>2. ~(v8 < v1) /\ (v8 + 1)..(v1 - 1) = {}
    BY <2>1
  <2> QED BY <2>2 DEF Deadlines!Reminding
<1> QED BY <1>5, <1>6, <1>7, <1>8 DEF Deadlines!DeadlineInv

\* A move of the date or of the stage makes the tick unsteady.
LEMMA DeadlineMoved ==
  ASSUME Deadlines!DeadlineInv,
         Deadlines!PatchStage \/ \E d \in 1..(DeadlineClock + 1) : Deadlines!MoveDate(d)
  PROVE  Deadlines!DeadlineInv'
<1>0. Deadlines!TypeOK /\ Deadlines!InOrder
  BY DEF Deadlines!DeadlineInv
<1>1. UNCHANGED <<v1, v4, v5, v6>> /\ v8' = v1 /\ v7' = v7 + 1 /\ v7 < DeadlineMoves
      /\ v2' \in 1..(DeadlineClock + 1)
  BY <1>0 DEF Deadlines!PatchStage, Deadlines!MoveDate, Deadlines!TypeOK
<1>2. v3' \in BOOLEAN
  BY <1>0 DEF Deadlines!PatchStage, Deadlines!MoveDate, Deadlines!TypeOK
<1>3. v7' \in 0..DeadlineMoves
  BY <1>0, <1>1, WorkspaceAssumption DEF Deadlines!TypeOK
<1>4. Deadlines!TypeOK'
  BY <1>0, <1>1, <1>2, <1>3 DEF Deadlines!TypeOK
<1>5. v1 \in Nat
  BY <1>0, DeadlineTypes
<1>6. Deadlines!InOrder'
  BY <1>0, <1>1, <1>5 DEF Deadlines!InOrder
<1>7. ~(v8' < v1') /\ (v8' + 1)..(v1' - 1) = {}
  BY <1>1, <1>5
<1>8. Deadlines!Reminding'
  BY <1>7 DEF Deadlines!Reminding
<1>9. Deadlines!RemindedOnce'
  BY <1>1 DEF Deadlines!DeadlineInv, Deadlines!RemindedOnce
<1> QED BY <1>4, <1>6, <1>8, <1>9 DEF Deadlines!DeadlineInv

\* What was due in the tick that goes by has been emitted in it.
LEMMA DeadlineTick ==
  ASSUME Deadlines!DeadlineInv, Deadlines!Tick PROVE Deadlines!DeadlineInv'
<1> DEFINE clock == v1  closing == v2  open == v3  emitted == v4  job == v5  doneAt == v6
           since == v8
<1>0. Deadlines!TypeOK /\ Deadlines!InOrder /\ Deadlines!Reminding
  BY DEF Deadlines!DeadlineInv
<1>1. UNCHANGED <<v2, v3, v4, v5, v6, v7, v8>> /\ clock' = clock + 1 /\ clock < DeadlineClock
      /\ doneAt = clock
  BY DEF Deadlines!Tick
<1>2. clock \in Nat /\ clock >= 1 /\ closing \in Nat /\ doneAt \in Nat /\ since \in Nat
      /\ job.began \in Nat /\ \A th \in Thresholds : th \in Nat
  BY <1>0, DeadlineTypes
<1>3. clock' \in 1..DeadlineClock
  BY <1>0, <1>1, <1>2, WorkspaceAssumption
<1>4. Deadlines!TypeOK'
  BY <1>0, <1>1, <1>3 DEF Deadlines!TypeOK
<1>5. Deadlines!InOrder'
  BY <1>0, <1>1, <1>2 DEF Deadlines!InOrder
<1>6. doneAt' # clock' /\ job'.began # clock'
  BY <1>0, <1>1, <1>2 DEF Deadlines!InOrder
<1>7. ASSUME NEW c \in (since' + 1)..(clock' - 1), NEW th \in Thresholds,
             open', c < closing', closing' < c + th
      PROVE  emitted'[th] > 0
  <2>1. c \in Nat /\ c >= since + 1 /\ c <= clock /\ open /\ c < closing /\ closing < c + th
        /\ emitted' = emitted
    BY <1>1, <1>2, <1>7
  <2>2. CASE c = clock
    <3>1. since < clock /\ doneAt = clock
      BY <1>1, <1>2, <2>1, <2>2
    <3>2. Deadlines!Due(th)
      BY <2>1, <2>2 DEF Deadlines!Due
    <3> QED BY <1>0, <2>1, <3>1, <3>2 DEF Deadlines!Reminding
  <2>3. CASE c # clock
    <3>1. c \in (since + 1)..(clock - 1)
      BY <1>2, <2>1, <2>3
    <3> QED BY <1>0, <2>1, <3>1 DEF Deadlines!Reminding
  <2> QED BY <2>2, <2>3
<1>8. Deadlines!Reminding'
  BY <1>6, <1>7 DEF Deadlines!Reminding
<1>9. Deadlines!RemindedOnce'
  BY <1>1 DEF Deadlines!DeadlineInv, Deadlines!RemindedOnce
<1> QED BY <1>4, <1>5, <1>8, <1>9 DEF Deadlines!DeadlineInv

\* The job's steps, from what each adds to what the run is through with.
DeadlineGrows ==
  /\ v4' \in [Thresholds -> Nat]
  /\ \A th \in Thresholds : v4'[th] >= v4[th] /\ v4'[th] <= 1

LEMMA DeadlineRun ==
  ASSUME Deadlines!DeadlineInv, UNCHANGED <<v1, v2, v3, v7, v8>>, v5' \in DeadlineJobs,
         DeadlineGrows,
         v5'.began <= v1, v6' \in {v6, v5.began}, v6' # v6 => Deadlines!Passed = Thresholds,
         v5'.phase \in {"check", "insert"} => v5'.threshold # Deadlines!None,
         v5'.phase = "insert" => v4'[v5'.threshold] = 0,
         v5'.began = v1 =>
           \/ Deadlines!Passed' = {}
           \/ /\ v5.began = v1
              /\ \A th \in Deadlines!Passed' \ Deadlines!Passed : Deadlines!Due(th) => v4'[th] > 0
  PROVE  Deadlines!DeadlineInv'
<1> DEFINE clock == v1  emitted == v4  job == v5  doneAt == v6  since == v8
<1>0. Deadlines!TypeOK /\ Deadlines!InOrder /\ Deadlines!Reminding
  BY DEF Deadlines!DeadlineInv
<1>1. clock \in Nat /\ doneAt \in Nat /\ job.began \in Nat /\ job.began <= clock /\ doneAt <= clock
      /\ job.began \in 0..DeadlineClock /\ \A th \in Thresholds : emitted[th] \in Nat
  BY <1>0, DeadlineTypes DEF Deadlines!InOrder, DeadlineJobs
<1>2. Deadlines!TypeOK'
  BY <1>0, <1>1 DEF Deadlines!TypeOK, DeadlineJobs, DeadlineGrows
<1>3. Deadlines!RemindedOnce'
  BY DEF Deadlines!RemindedOnce, DeadlineGrows
<1>4. Deadlines!InOrder'
  <2>1. doneAt' <= clock' /\ job'.began <= clock' /\ since' <= clock'
    BY <1>0, <1>1 DEF Deadlines!InOrder
  <2> QED BY <2>1 DEF Deadlines!InOrder
<1>5. \A th \in Thresholds : /\ emitted[th] > 0 => emitted'[th] > 0
                             /\ Deadlines!Due(th)' = Deadlines!Due(th)
  <2>1. ASSUME NEW th \in Thresholds, emitted[th] > 0 PROVE emitted'[th] > 0
    BY <1>1, <2>1 DEF DeadlineGrows
  <2> QED BY <2>1 DEF Deadlines!Due
<1>6. ASSUME since' < clock', job'.began = clock', NEW th \in Deadlines!Passed',
             Deadlines!Due(th)'
      PROVE  emitted'[th] > 0
  <2>1. th \in Thresholds
    BY DEF Deadlines!Passed
  <2> QED BY <1>0, <1>5, <1>6, <2>1 DEF Deadlines!Reminding
<1>7. ASSUME since' < clock', doneAt' = clock', NEW th \in Thresholds, Deadlines!Due(th)'
      PROVE  emitted'[th] > 0
  BY <1>0, <1>5, <1>7 DEF Deadlines!Reminding
<1>8. \A c \in (since' + 1)..(clock' - 1), th \in Thresholds :
        v3' /\ c < v2' /\ v2' < c + th => emitted'[th] > 0
  BY <1>0, <1>5 DEF Deadlines!Reminding
<1>9. Deadlines!Reminding'
  BY <1>6, <1>7, <1>8 DEF Deadlines!Reminding
<1> QED BY <1>2, <1>3, <1>4, <1>9 DEF Deadlines!DeadlineInv

LEMMA DeadlineJobStep ==
  ASSUME Deadlines!DeadlineInv,
         Deadlines!Start \/ Deadlines!Find \/ Deadlines!Check \/ Deadlines!Insert \/ Deadlines!Die
  PROVE  Deadlines!DeadlineInv'
<1> DEFINE clock == v1  emitted == v4  job == v5  doneAt == v6
<1>0. /\ Deadlines!TypeOK /\ Deadlines!InOrder /\ clock \in Nat /\ clock >= 1
      /\ job \in DeadlineJobs /\ emitted \in [Thresholds -> Nat] /\ job.began \in Nat
      /\ job.began <= clock /\ clock \in 0..DeadlineClock
      /\ \A th \in Thresholds : emitted[th] \in Nat /\ emitted[th] <= 1
  BY DeadlineTypes, WorkspaceAssumption
     DEF Deadlines!DeadlineInv, Deadlines!InOrder, Deadlines!RemindedOnce, Deadlines!TypeOK
<1>1. UNCHANGED <<v1, v2, v3, v7, v8>>
  BY DEF Deadlines!Start, Deadlines!Find, Deadlines!Check, Deadlines!Insert, Deadlines!Die
<1>2. Deadlines!Idle \in DeadlineJobs /\ Deadlines!Idle.phase = "idle" /\ Deadlines!Idle.began = 0
  BY WorkspaceAssumption DEF Deadlines!Idle, DeadlineJobs
<1>3. v4' = v4 => DeadlineGrows
  BY <1>0 DEF DeadlineGrows
<1>4. CASE Deadlines!Start
  <2> DEFINE r == [phase |-> "find", left |-> Thresholds, threshold |-> Deadlines!None,
                   began |-> clock]
  <2>1. job' = r /\ UNCHANGED <<v4, v6>>
    BY <1>4 DEF Deadlines!Start
  <2>2. r \in DeadlineJobs /\ r.phase = "find" /\ r.left = Thresholds /\ r.began = clock
    BY <1>0 DEF DeadlineJobs
  <2>3. Deadlines!Passed' = {} /\ clock <= clock
    BY <1>0, <2>1, <2>2 DEF Deadlines!Passed
  <2> HIDE DEF r
  <2> QED BY <1>0, <1>1, <1>3, <2>1, <2>2, <2>3, DeadlineRun
<1>5. CASE Deadlines!Die \/ (Deadlines!Find /\ job.left = {})
  <2>1. job' = Deadlines!Idle /\ UNCHANGED v4
    BY <1>5 DEF Deadlines!Die, Deadlines!Find
  <2>2. job'.began <= clock /\ job'.began # clock
    BY <1>0, <1>2, <2>1
  <2>3. v6' \in {v6, job.began} /\ (v6' # v6 => Deadlines!Passed = Thresholds)
    BY <1>5 DEF Deadlines!Die, Deadlines!Find, Deadlines!Passed
  <2> QED BY <1>0, <1>1, <1>2, <1>3, <2>1, <2>2, <2>3, DeadlineRun
<1>6. CASE Deadlines!Find /\ job.left # {}
  <2> DEFINE th == Deadlines!Largest(job.left)
             r == [job EXCEPT !.left = @ \ {th}, !.threshold = th,
                              !.phase = IF Deadlines!Due(th) THEN "check" ELSE "find"]
  <2>1. job' = r /\ UNCHANGED <<v4, v6>> /\ job.phase = "find"
    BY <1>6 DEF Deadlines!Find
  <2>2. th \in job.left /\ th \in Thresholds /\ th # Deadlines!None
    <3>1. job.left \in SUBSET Thresholds
      BY <1>0 DEF DeadlineJobs
    <3>2. th \in job.left
      BY <1>6, <3>1, LargestThreshold
    <3> QED BY <3>1, <3>2, WorkspaceAssumption DEF Deadlines!None
  <2> HIDE DEF th
  <2>3. /\ r \in DeadlineJobs /\ r.left = job.left \ {th} /\ r.threshold = th
        /\ r.began = job.began /\ r.phase = IF Deadlines!Due(th) THEN "check" ELSE "find"
    BY <1>0, <2>2 DEF DeadlineJobs
  <2> HIDE DEF r
  <2>4. \A x \in Deadlines!Passed' \ Deadlines!Passed : Deadlines!Due(x) => emitted[x] > 0
    BY <2>1, <2>2, <2>3 DEF Deadlines!Passed
  <2> QED BY <1>0, <1>1, <1>3, <2>1, <2>2, <2>3, <2>4, DeadlineRun
<1>7. CASE Deadlines!Check
  <2> DEFINE th == job.threshold
             r == [job EXCEPT !.phase = IF Deadlines!Already(th) THEN "find" ELSE "insert"]
  <2>1. job' = r /\ UNCHANGED <<v4, v6>> /\ job.phase = "check"
    BY <1>7 DEF Deadlines!Check
  <2>2. th \in Thresholds /\ th # Deadlines!None
    BY <1>0, <2>1 DEF Deadlines!InOrder, DeadlineJobs
  <2>3. /\ r \in DeadlineJobs /\ r.left = job.left /\ r.threshold = th /\ r.began = job.began
        /\ r.phase = IF Deadlines!Already(th) THEN "find" ELSE "insert"
    BY <1>0 DEF DeadlineJobs
  <2> HIDE DEF r
  <2>4. r.phase = "insert" => emitted[th] = 0
    BY <1>0, <2>2, <2>3 DEF Deadlines!Already
  <2>5. \A x \in Deadlines!Passed' \ Deadlines!Passed : Deadlines!Due(x) => emitted[x] > 0
    BY <2>1, <2>2, <2>3 DEF Deadlines!Passed, Deadlines!Already
  <2> QED BY <1>0, <1>1, <1>3, <2>1, <2>2, <2>3, <2>4, <2>5, DeadlineRun
<1>8. CASE Deadlines!Insert
  <2> DEFINE th == job.threshold
             r == [job EXCEPT !.phase = "find"]
  <2>1. /\ job' = r /\ v6' = v6 /\ job.phase = "insert"
        /\ emitted' = [emitted EXCEPT ![th] = @ + 1]
    BY <1>8 DEF Deadlines!Insert
  <2>2. th \in Thresholds /\ emitted[th] = 0
    BY <1>0, <2>1 DEF Deadlines!InOrder, DeadlineJobs
  <2>3. /\ r \in DeadlineJobs /\ r.left = job.left /\ r.threshold = th /\ r.began = job.began
        /\ r.phase = "find"
    BY <1>0 DEF DeadlineJobs
  <2> HIDE DEF r
  <2>4. /\ emitted' \in [Thresholds -> Nat] /\ emitted'[th] = 1
        /\ \A x \in Thresholds \ {th} : emitted'[x] = emitted[x]
    BY <1>0, <2>1, <2>2
  <2>5. \A x \in Thresholds : emitted'[x] >= emitted[x] /\ emitted'[x] <= 1
    BY <1>0, <2>2, <2>4
  <2>6. \A x \in Deadlines!Passed' \ Deadlines!Passed : Deadlines!Due(x) => emitted'[x] > 0
    BY <2>1, <2>2, <2>3, <2>4 DEF Deadlines!Passed
  <2>7. /\ v6' \in {v6, job.began} /\ job' \in DeadlineJobs /\ job'.began = job.began
        /\ job'.began <= clock /\ job'.phase = "find"
    BY <1>0, <2>1, <2>3
  <2>8. /\ v6' # v6 => Deadlines!Passed = Thresholds
        /\ v5'.phase \in {"check", "insert"} => v5'.threshold # Deadlines!None
        /\ v5'.phase = "insert" => v4'[v5'.threshold] = 0
    BY <2>1, <2>7
  <2>9. v5'.began = v1 =>
          \/ Deadlines!Passed' = {}
          \/ /\ v5.began = v1
             /\ \A x \in Deadlines!Passed' \ Deadlines!Passed : Deadlines!Due(x) => v4'[x] > 0
    BY <2>6, <2>7
  <2>10. DeadlineGrows /\ v5' \in DeadlineJobs /\ v6' \in {v6, v5.began} /\ v5'.began <= v1
    BY <2>4, <2>5, <2>7 DEF DeadlineGrows
  <2> HIDE DEF th, clock, emitted, job, doneAt
  <2> QED BY <1>1, <2>8, <2>9, <2>10, DeadlineRun
<1>9. CASE Deadlines!Find
  BY <1>5, <1>6, <1>9
<1>10. CASE Deadlines!Die
  BY <1>5, <1>10
<1> QED BY <1>4, <1>7, <1>8, <1>9, <1>10

LEMMA DeadlineStep ==
  ASSUME Deadlines!DeadlineInv, [Deadlines!Next]_(Deadlines!vars)
  PROVE  Deadlines!DeadlineInv'
<1>1. CASE UNCHANGED Deadlines!vars
  BY <1>1 DEF Deadlines!vars, Deadlines!DeadlineInv, Deadlines!TypeOK, Deadlines!RemindedOnce,
              Deadlines!InOrder, Deadlines!Reminding, Deadlines!Passed, Deadlines!Due
<1> QED BY <1>1, DeadlineMoved, DeadlineTick, DeadlineJobStep DEF Deadlines!Next

\* Every tick between the last change and the closing is gone by.
LEMMA DeadlineHolds ==
  ASSUME Deadlines!DeadlineInv PROVE Deadlines!RemindedOnce /\ Deadlines!WarnedInTime
<1>1. v1 \in Nat /\ v1 >= 1 /\ v2 \in Nat /\ v8 \in Nat
  BY DeadlineTypes DEF Deadlines!DeadlineInv
<1>2. ASSUME NEW th \in Thresholds, v1 >= v2, v3,
             NEW c \in (v8 + 1)..(v2 - 1), v2 < c + th
      PROVE  v4[th] > 0
  <2>1. c \in (v8 + 1)..(v1 - 1) /\ c < v2
    BY <1>1, <1>2
  <2> QED BY <1>2, <2>1 DEF Deadlines!DeadlineInv, Deadlines!Reminding
<1> QED BY <1>2 DEF Deadlines!DeadlineInv, Deadlines!WarnedInTime

-----------------------------------------------------------------------------
(***************************************************************************)
(* DigestQueue: a notification in one message.  v1 .. v10 are clock,       *)
(* profile, row, engine, digest, digestRow, edits, told, overlapped and    *)
(* cutOff.                                                                 *)
(***************************************************************************)
DigestRows == [status : Digest!Results \cup {"none"}, created : 0..DigestClock]
DigestEngines == [phase : {"idle", "read", "claimed", "sent"}, note : Notes,
                  interval : Digest!Intervals, result : Digest!Results]
DigestDays == 0..(DigestClock \div DigestDay + 1)
DigestJobs == [phase : {"idle", "started", "summed", "sent", "logged"}, groups : SUBSET Notes,
               result : Digest!Results, day : DigestDays]

LEMMA DigestTypes ==
  ASSUME Digest!TypeOK
  PROVE  /\ v1 \in Nat /\ v1 \in 0..DigestClock /\ v3 \in [Notes -> DigestRows]
         /\ v4 \in DigestEngines /\ v4.note \in Notes /\ v4.result \in Digest!Results
         /\ v5 \in DigestJobs /\ v5.groups \subseteq Notes /\ v5.day \in DigestDays
         /\ v5.result \in Digest!Results /\ v8 \in [Notes -> Nat]
         /\ \A n \in Notes : /\ v3[n] \in DigestRows /\ v3[n].created \in Nat /\ v8[n] \in Nat
                             /\ v3[n].status \in Digest!Results \cup {"none"}
<1>1. v1 \in 0..DigestClock /\ v3 \in [Notes -> DigestRows] /\ v4 \in DigestEngines
      /\ v5 \in DigestJobs /\ v8 \in [Notes -> Nat]
  BY DEF Digest!TypeOK, DigestRows, DigestEngines, DigestJobs, DigestDays
<1>2. \A n \in Notes : v3[n] \in DigestRows /\ v8[n] \in Nat
  BY <1>1
<1>3. \A r \in DigestRows : r.created \in Nat /\ r.status \in Digest!Results \cup {"none"}
  BY WorkspaceAssumption DEF DigestRows
<1>4. v4.note \in Notes /\ v4.result \in Digest!Results
  BY <1>1 DEF DigestEngines
<1>5. v5.groups \subseteq Notes /\ v5.day \in DigestDays /\ v5.result \in Digest!Results
  BY <1>1 DEF DigestJobs
<1>6. v1 \in Nat
  BY <1>1, WorkspaceAssumption
<1> QED BY <1>1, <1>2, <1>3, <1>4, <1>5, <1>6

\* The type invariant again, from the types of what a step changes.
LEMMA DigestTyped ==
  ASSUME Digest!TypeOK, v3' \in [Notes -> DigestRows], v4' \in DigestEngines,
         v5' \in DigestJobs, v8' \in [Notes -> Nat], UNCHANGED <<v1, v2, v7>>,
         v6' \in Digest!Results \cup {"none"}, v9' \subseteq Notes, v10' \subseteq Notes
  PROVE  Digest!TypeOK'
BY DEF Digest!TypeOK, DigestRows, DigestEngines, DigestJobs, DigestDays

LEMMA DigestIdles ==
  /\ Digest!EngineIdle \in DigestEngines /\ Digest!EngineIdle.phase = "idle"
  /\ \A d \in DigestDays : Digest!DigestIdle(d) \in DigestJobs /\ Digest!DigestIdle(d).phase = "idle"
                           /\ Digest!DigestIdle(d).day = d
<1>1. (CHOOSE n \in Notes : TRUE) \in Notes
  BY WorkspaceAssumption
<1> QED BY <1>1 DEF Digest!EngineIdle, DigestEngines, Digest!Intervals, Digest!Results,
                    Digest!DigestIdle, DigestJobs

\* A digest that has begun is not the last of its numbers.
LEMMA DigestDayIn ==
  ASSUME NEW d \in DigestDays, NEW c \in 0..DigestClock, d * DigestDay <= c PROVE d + 1 \in DigestDays
<1>1. d \in Nat /\ DigestDay \in Nat /\ DigestDay > 0 /\ DigestClock \in Nat /\ c \in Nat /\ c <= DigestClock
      /\ DigestClock \div DigestDay \in Nat
  BY WorkspaceAssumption DEF DigestDays
<1> DEFINE q == DigestClock \div DigestDay
<1>2. DigestClock < DigestDay * (q + 1)
  BY <1>1
<1>3. d * DigestDay < DigestDay * (q + 1)
  <2>1. d * DigestDay \in Int /\ DigestDay * (q + 1) \in Int
    BY <1>1
  <2> HIDE DEF q
  <2> QED BY <1>1, <1>2, <2>1
<1>4. d < q + 1
  <2> HIDE DEF q
  <2> SUFFICES ASSUME ~(d < q + 1) PROVE FALSE
    OBVIOUS
  <2>1. q \in Nat
    BY <1>1 DEF q
  <2>2. d - (q + 1) \in Nat
    BY <1>1, <2>1
  <2>3. d * DigestDay = DigestDay * (q + 1) + (d - (q + 1)) * DigestDay
    BY <1>1, <2>1
  <2>4. (d - (q + 1)) * DigestDay \in Nat
    BY <1>1, <2>2
  <2> QED BY <1>1, <1>3, <2>1, <2>3, <2>4
<1> QED BY <1>1, <1>4 DEF DigestDays

LEMMA DigestInit == ASSUME Digest!Init PROVE Digest!DigestInv
<1>1. 1 \in DigestDays
  BY WorkspaceAssumption DEF DigestDays
<1>2. v4 = Digest!EngineIdle /\ v5 = Digest!DigestIdle(1) /\ v4 \in DigestEngines
      /\ v5 \in DigestJobs /\ v4.phase = "idle" /\ v5.phase = "idle"
  BY <1>1, DigestIdles DEF Digest!Init
<1>3. v3 = [n \in Notes |-> Digest!NoRow] /\ Digest!NoRow \in DigestRows
  BY WorkspaceAssumption DEF Digest!Init, Digest!NoRow, DigestRows
<1>4. v3 \in [Notes -> DigestRows] /\ v8 \in [Notes -> Nat]
      /\ \A n \in Notes : v3[n] = Digest!NoRow /\ v8[n] = 0
  BY <1>3 DEF Digest!Init
<1>5. Digest!TypeOK
  <2>1. v2 \in [active : BOOLEAN, interval : Digest!Intervals]
    BY DEF Digest!Init
  <2>2. v1 \in 0..DigestClock /\ v7 \in 0..DigestEdits /\ v6 \in Digest!Results \cup {"none"}
        /\ v9 = {} /\ v10 = {}
    BY WorkspaceAssumption DEF Digest!Init
  <2> QED BY <1>2, <1>4, <2>1, <2>2
          DEF Digest!TypeOK, DigestRows, DigestEngines, DigestJobs, DigestDays
<1>6. Digest!InPhase
  BY <1>2, <1>4 DEF Digest!InPhase, Digest!InHand, Digest!DigestRuns
<1>7. Digest!SentIsTold
  BY <1>2 DEF Digest!Init, Digest!SentIsTold
<1>8. Digest!OneSender
  <2> SUFFICES ASSUME NEW n \in Notes PROVE Digest!Alone(n)
    BY DEF Digest!OneSender
  <2>1. v3[n].status = "none" /\ v8[n] = 0
    BY <1>4 DEF Digest!NoRow
  <2> QED BY <1>2, <2>1 DEF Digest!Alone, Digest!InHand
<1>9. Digest!SentWasTold
  BY <1>4 DEF Digest!SentWasTold, Digest!NoRow
<1> QED BY <1>5, <1>6, <1>7, <1>8, <1>9 DEF Digest!DigestInv

\* Of a row that is known to no second sender: who holds it, in which phase.
LEMMA AloneIs ==
  ASSUME Digest!DigestInv, NEW n \in Notes \ (v9 \cup v10)
  PROVE  /\ Digest!Alone(n) /\ v8[n] \in {0, 1} /\ n \in Notes
         /\ n \in Digest!InHand => v5.phase = "idle"
         /\ v8[n] = 1 /\ n \in Digest!Out =>
              \/ n = v4.note /\ v4.phase = "sent" /\ v4.result = "sent" /\ v5.phase = "idle"
              \/ n \in v5.groups /\ v5.phase \in {"sent", "logged"} /\ v5.result = "sent"
<1>1. Digest!Alone(n) /\ v8[n] \in Nat
  BY DigestTypes DEF Digest!DigestInv, Digest!OneSender
<1>2. v8[n] \in {0, 1}
  BY <1>1 DEF Digest!Alone
<1>3. n \in Digest!InHand => v5.phase = "idle" /\ n = v4.note
  BY DEF Digest!DigestInv, Digest!InPhase, Digest!DigestRuns, Digest!InHand
<1> QED BY <1>1, <1>2, <1>3 DEF Digest!Out

\* Time passes, the owner edits: rows only leave the window.
LEMMA DigestQuiet ==
  ASSUME Digest!DigestInv,
         \/ Digest!Tick \/ Digest!ToggleProfile \/ UNCHANGED Digest!vars
         \/ \E interval \in Digest!Intervals : Digest!UpdateProfile(interval)
  PROVE  Digest!DigestInv'
<1>0. Digest!TypeOK /\ Digest!InPhase /\ Digest!SentIsTold /\ Digest!OneSender /\ Digest!SentWasTold
  BY DEF Digest!DigestInv
<1>1. UNCHANGED <<v3, v4, v5, v6, v8, v9, v10>>
  BY DEF Digest!Tick, Digest!ToggleProfile, Digest!UpdateProfile, Digest!vars
<1>2. v1' \in 0..DigestClock /\ v7' \in 0..DigestEdits /\ v1' >= v1 /\ v1 \in Nat /\ v1' \in Nat
  BY <1>0, WorkspaceAssumption
     DEF Digest!Tick, Digest!ToggleProfile, Digest!UpdateProfile, Digest!vars, Digest!TypeOK
<1>3. v2' \in [active : BOOLEAN, interval : Digest!Intervals]
  BY <1>0 DEF Digest!Tick, Digest!ToggleProfile, Digest!UpdateProfile, Digest!vars, Digest!TypeOK
<1>4. Digest!TypeOK'
  BY <1>0, <1>1, <1>2, <1>3 DEF Digest!TypeOK
<1>5. Digest!InHand' = Digest!InHand /\ Digest!Out' = Digest!Out
      /\ (Digest!DigestRuns' <=> Digest!DigestRuns)
  BY <1>1 DEF Digest!InHand, Digest!Out, Digest!DigestRuns
<1>6. Digest!InPhase'
  <2>1. v5.day * DigestDay <= v1 => v5.day * DigestDay <= v1'
    <3>1. v5.day * DigestDay \in Int
      BY <1>0, DigestTypes, WorkspaceAssumption DEF DigestDays
    <3> QED BY <1>2, <3>1
  <2> QED BY <1>0, <1>1, <1>5, <2>1 DEF Digest!InPhase
<1>7. Digest!SentIsTold'
  BY <1>0, <1>1 DEF Digest!SentIsTold
<1>8. \A n \in Notes : /\ v3[n].created + DigestDay <= v1 => v3[n].created + DigestDay <= v1'
                       /\ n \in Digest!InWindow' => n \in Digest!InWindow
  <2> SUFFICES ASSUME NEW n \in Notes
               PROVE  /\ v3[n].created + DigestDay <= v1 => v3[n].created + DigestDay <= v1'
                      /\ v3[n].created + DigestDay > v1' => v3[n].created + DigestDay > v1
    BY <1>1 DEF Digest!InWindow
  <2>1. v3[n].created + DigestDay \in Nat
    BY <1>0, DigestTypes, WorkspaceAssumption
  <2> QED BY <1>2, <2>1
<1>9. Digest!OneSender'
  <2> SUFFICES ASSUME NEW n \in Notes \ (v9 \cup v10) PROVE Digest!Alone(n)'
    BY <1>1 DEF Digest!OneSender
  <2> QED BY <1>0, <1>1, <1>5, <1>8 DEF Digest!OneSender, Digest!Alone
<1>10. Digest!SentWasTold'
  BY <1>0, <1>1 DEF Digest!SentWasTold
<1> QED BY <1>4, <1>6, <1>7, <1>9, <1>10 DEF Digest!DigestInv

LEMMA EngineReads ==
  ASSUME Digest!DigestInv, NEW n \in Notes, Digest!EngineRead(n) PROVE Digest!DigestInv'
<1> DEFINE row == v3  engine == v4
           r == [phase |-> "read", note |-> n, interval |-> v2.interval, result |-> "pending"]
<1>0. Digest!TypeOK /\ Digest!InPhase /\ Digest!SentIsTold /\ Digest!OneSender /\ Digest!SentWasTold
  BY DEF Digest!DigestInv
<1>1. UNCHANGED <<v1, v2, v3, v5, v6, v7, v8, v9, v10>> /\ engine' = r /\ row[n] = Digest!NoRow
      /\ engine.phase = "idle"
  BY DEF Digest!EngineRead
<1>2. r \in DigestEngines /\ r.phase = "read" /\ r.note = n
  BY <1>0 DEF Digest!TypeOK, DigestEngines, Digest!Results
<1> HIDE DEF r
<1>3. Digest!TypeOK'
  BY <1>0, <1>1, <1>2, DigestTypes, DigestTyped DEF Digest!TypeOK
<1>4. Digest!InHand = {} /\ Digest!InHand' = {} /\ Digest!Out' = Digest!Out
      /\ Digest!InWindow' = Digest!InWindow
  BY <1>1, <1>2 DEF Digest!InHand, Digest!Out, Digest!InWindow
<1>5. Digest!InPhase'
  BY <1>0, <1>1, <1>2, <1>4 DEF Digest!InPhase, Digest!DigestRuns
<1>6. Digest!SentIsTold' /\ Digest!SentWasTold'
  BY <1>0, <1>1, <1>2 DEF Digest!SentIsTold, Digest!SentWasTold
<1>7. Digest!OneSender'
  BY <1>0, <1>1, <1>4 DEF Digest!OneSender, Digest!Alone
<1> QED BY <1>3, <1>5, <1>6, <1>7 DEF Digest!DigestInv

\* The event in hand; while a digest runs it is one of two senders'.
LEMMA EngineClaims ==
  ASSUME Digest!DigestInv, Digest!EngineClaim PROVE Digest!DigestInv'
<1> DEFINE clock == v1  row == v3  engine == v4  told == v8  note == engine.note
           r == [engine EXCEPT !.phase = "claimed"]
           new == [status |-> "pending", created |-> clock]
<1>0. Digest!TypeOK /\ Digest!InPhase /\ Digest!SentIsTold /\ Digest!OneSender /\ Digest!SentWasTold
  BY DEF Digest!DigestInv
<1>1. /\ UNCHANGED <<v1, v2, v5, v6, v7, v8, v10>> /\ engine' = r /\ engine.phase = "read"
      /\ row' = [row EXCEPT ![note] = new]
      /\ v9' = v9 \cup IF Digest!DigestRuns THEN {note} ELSE {}
  BY DEF Digest!EngineClaim
<1>2. /\ note \in Notes /\ row \in [Notes -> DigestRows] /\ engine \in DigestEngines
      /\ clock \in 0..DigestClock
  BY <1>0, DigestTypes
<1>3. r \in DigestEngines /\ r.phase = "claimed" /\ r.note = note
  BY <1>2 DEF DigestEngines
<1>4. new \in DigestRows /\ new.status = "pending" /\ new.created = clock
  BY <1>2 DEF DigestRows, Digest!Results
<1> HIDE DEF r, new
<1>5. /\ row' \in [Notes -> DigestRows] /\ row'[note] = new
      /\ \A n \in Notes \ {note} : row'[n] = row[n]
  BY <1>1, <1>2, <1>4
<1>6. Digest!TypeOK'
  <2>1. v9' \subseteq Notes
    BY <1>0, <1>1, <1>2 DEF Digest!TypeOK
  <2> QED BY <1>0, <1>1, <1>3, <1>5, <2>1, DigestTypes, DigestTyped DEF Digest!TypeOK
<1>7. Digest!InHand = {} /\ Digest!InHand' = {note} /\ row[note].status = "none"
      /\ (Digest!DigestRuns' <=> Digest!DigestRuns)
  BY <1>0, <1>1, <1>3 DEF Digest!InHand, Digest!InPhase, Digest!NoRow, Digest!DigestRuns
<1>8. Digest!InPhase'
  <2>1. \A n \in Notes : row'[n].status = "none" => row[n].status = "none" /\ row'[n] = row[n]
    BY <1>4, <1>5
  <2>2. Digest!DigestRuns' => Digest!InHand' \subseteq v9'
    BY <1>1, <1>7
  <2>3. v5'.phase = "summed" => \A n \in v5'.groups : row'[n].status # "none"
    <3>1. v5.groups \subseteq Notes
      BY <1>0, DigestTypes
    <3> QED BY <1>0, <1>1, <2>1, <3>1 DEF Digest!InPhase
  <2> QED BY <1>0, <1>1, <1>3, <1>4, <1>5, <1>7, <2>1, <2>2, <2>3 DEF Digest!InPhase
<1>9. Digest!SentIsTold'
  BY <1>0, <1>1, <1>3 DEF Digest!SentIsTold
<1>10. Digest!SentWasTold'
  BY <1>0, <1>1, <1>4, <1>5 DEF Digest!SentWasTold
<1>11. Digest!OneSender'
  <2> SUFFICES ASSUME NEW n \in Notes \ (v9' \cup v10') PROVE Digest!Alone(n)'
    BY DEF Digest!OneSender
  <2>1. n \in Notes \ (v9 \cup v10)
    BY <1>1
  <2>2. Digest!Alone(n) /\ told[n] \in {0, 1} /\ n \in Notes
    BY <2>1, AloneIs
  <2>3. CASE n = note
    <3>1. ~Digest!DigestRuns
      BY <1>1, <2>3
    <3>2. told'[n] = 0 /\ row'[n].status = "pending" /\ v5'.phase = "idle"
      BY <1>1, <1>4, <1>5, <1>7, <2>2, <2>3, <3>1 DEF Digest!Alone, Digest!DigestRuns
    <3> QED BY <3>2 DEF Digest!Alone
  <2>4. CASE n # note
    <3>1. row'[n] = row[n] /\ n \notin Digest!InHand' /\ n \notin Digest!InHand
          /\ (n \in Digest!Out' <=> n \in Digest!Out)
          /\ (n \in Digest!InWindow' <=> n \in Digest!InWindow)
      BY <1>1, <1>5, <1>7, <2>2, <2>4 DEF Digest!Out, Digest!InWindow
    <3> QED BY <1>1, <2>2, <3>1 DEF Digest!Alone
  <2> QED BY <2>3, <2>4
<1> QED BY <1>6, <1>8, <1>9, <1>10, <1>11 DEF Digest!DigestInv

LEMMA EngineSends ==
  ASSUME Digest!DigestInv, NEW result \in Digest!Results, Digest!EngineSend(result)
  PROVE  Digest!DigestInv'
<1> DEFINE row == v3  engine == v4  told == v8  note == engine.note
           r == [engine EXCEPT !.phase = "sent", !.result = result]
<1>0. Digest!TypeOK /\ Digest!InPhase /\ Digest!SentIsTold /\ Digest!OneSender /\ Digest!SentWasTold
  BY DEF Digest!DigestInv
<1>1. /\ UNCHANGED <<v1, v2, v3, v5, v6, v7, v9, v10>> /\ engine' = r /\ engine.phase = "claimed"
      /\ told' = [told EXCEPT ![note] = @ + IF result = "sent" THEN 1 ELSE 0]
  BY DEF Digest!EngineSend
<1>2. note \in Notes /\ engine \in DigestEngines /\ told \in [Notes -> Nat]
      /\ \A n \in Notes : told[n] \in Nat
  BY <1>0, DigestTypes
<1>3. r \in DigestEngines /\ r.phase = "sent" /\ r.note = note /\ r.result = result
  BY <1>2 DEF DigestEngines
<1> HIDE DEF r
<1>4. /\ told' \in [Notes -> Nat] /\ \A n \in Notes \ {note} : told'[n] = told[n]
      /\ result = "sent" => told'[note] = told[note] + 1
      /\ result # "sent" => told'[note] = told[note]
  BY <1>1, <1>2
<1>5. \A n \in Notes : told[n] > 0 => told'[n] > 0
  BY <1>2, <1>4
<1>6. Digest!TypeOK'
  BY <1>0, <1>1, <1>3, <1>4, DigestTypes, DigestTyped DEF Digest!TypeOK
<1>7. Digest!InHand = {note} /\ Digest!InHand' = {note} /\ Digest!InWindow' = Digest!InWindow
      /\ (Digest!DigestRuns' <=> Digest!DigestRuns)
  BY <1>1, <1>3 DEF Digest!InHand, Digest!InWindow, Digest!DigestRuns
<1>8. Digest!InPhase'
  BY <1>0, <1>1, <1>3, <1>7 DEF Digest!InPhase
<1>9. Digest!SentIsTold'
  <2>1. result = "sent" => told'[note] > 0
    BY <1>2, <1>4
  <2>2. v5.groups \subseteq Notes /\ v10 \subseteq Notes
    BY <1>0, DigestTypes DEF Digest!TypeOK
  <2> QED BY <1>0, <1>1, <1>3, <1>5, <2>1, <2>2 DEF Digest!SentIsTold
<1>10. Digest!SentWasTold'
  BY <1>0, <1>1, <1>5 DEF Digest!SentWasTold
<1>11. Digest!OneSender'
  <2> SUFFICES ASSUME NEW n \in Notes \ (v9 \cup v10) PROVE Digest!Alone(n)'
    BY <1>1 DEF Digest!OneSender
  <2>1. /\ Digest!Alone(n) /\ told[n] \in {0, 1} /\ n \in Notes
        /\ n \in Digest!InHand => v5.phase = "idle"
    BY AloneIs
  <2>2. CASE n = note
    <3>1. v5.phase = "idle" /\ row[n].status = "pending" /\ told[n] = 0
      BY <1>1, <1>7, <2>1, <2>2 DEF Digest!Alone, Digest!Out
    <3>2. told'[n] \in {0, 1} /\ (told'[n] = 1 => result = "sent")
      BY <1>4, <2>2, <3>1
    <3>3. told'[n] = 1 => n \in Digest!Out'
      BY <1>3, <1>1, <1>7, <2>2, <3>2 DEF Digest!Out
    <3> QED BY <1>1, <3>1, <3>2, <3>3 DEF Digest!Alone
  <2>3. CASE n # note
    <3>1. told'[n] = told[n] /\ n \notin Digest!InHand' /\ n \notin Digest!InHand
          /\ (n \in Digest!Out' <=> n \in Digest!Out)
      BY <1>1, <1>4, <1>7, <2>1, <2>3 DEF Digest!Out
    <3> QED BY <1>1, <1>7, <2>1, <3>1 DEF Digest!Alone
  <2> QED BY <2>2, <2>3
<1> QED BY <1>6, <1>8, <1>9, <1>10, <1>11 DEF Digest!DigestInv

\* The UPDATE of the row at the end, or a death before it.
LEMMA EngineEnds ==
  ASSUME Digest!DigestInv, Digest!EngineRecord \/ Digest!EngineDies PROVE Digest!DigestInv'
<1> DEFINE row == v3  engine == v4  told == v8  note == engine.note
           r == [row[note] EXCEPT !.status = engine.result]
<1>0. Digest!TypeOK /\ Digest!InPhase /\ Digest!SentIsTold /\ Digest!OneSender /\ Digest!SentWasTold
  BY DEF Digest!DigestInv
<1>1. /\ UNCHANGED <<v1, v2, v5, v6, v7, v8, v9>> /\ engine' = Digest!EngineIdle
      /\ engine.phase \in {"claimed", "sent"} /\ v10 \subseteq v10' /\ v10' \subseteq v10 \cup {note}
  BY DEF Digest!EngineRecord, Digest!EngineDies
<1>2. /\ note \in Notes /\ engine \in DigestEngines /\ row \in [Notes -> DigestRows]
      /\ engine.result \in Digest!Results /\ row[note] \in DigestRows
      /\ \A n \in Notes : told[n] \in Nat
  BY <1>0, DigestTypes
<1>3. r \in DigestRows /\ r.status = engine.result /\ r.created = row[note].created
  BY <1>2 DEF DigestRows
<1> HIDE DEF r
<1>4. /\ row' \in [Notes -> DigestRows] /\ \A n \in Notes \ {note} : row'[n] = row[n]
      /\ \/ row'[note] = row[note] /\ (engine.phase = "sent" /\ engine.result = "sent" => note \in v10')
         \/ row'[note] = r /\ engine.phase = "sent"
  <2>1. CASE Digest!EngineRecord
    <3>1. row' = [row EXCEPT ![note] = r] /\ engine.phase = "sent"
      BY <2>1 DEF Digest!EngineRecord, r
    <3> QED BY <1>2, <1>3, <3>1
  <2>2. CASE Digest!EngineDies
    BY <1>2, <2>2 DEF Digest!EngineDies
  <2> QED BY <2>1, <2>2
<1>5. Digest!EngineIdle \in DigestEngines /\ Digest!EngineIdle.phase = "idle"
  BY DigestIdles
<1>6. Digest!TypeOK'
  <2>1. v10' \subseteq Notes
    BY <1>0, <1>1, <1>2 DEF Digest!TypeOK
  <2> QED BY <1>0, <1>1, <1>4, <1>5, <2>1, DigestTypes, DigestTyped DEF Digest!TypeOK
<1>7. Digest!InHand = {note} /\ Digest!InHand' = {} /\ (Digest!DigestRuns' <=> Digest!DigestRuns)
  BY <1>1, <1>5 DEF Digest!InHand, Digest!DigestRuns
<1>8. \A n \in Notes : row'[n].status = "none" => row[n].status = "none" /\ row'[n] = row[n]
  BY <1>2, <1>3, <1>4 DEF Digest!Results
<1>9. Digest!InPhase'
  <2>1. v5'.phase = "summed" => \A n \in v5'.groups : row'[n].status # "none"
    <3>1. v5.groups \subseteq Notes
      BY <1>0, DigestTypes
    <3> QED BY <1>0, <1>1, <1>8, <3>1 DEF Digest!InPhase
  <2> QED BY <1>0, <1>1, <1>5, <1>7, <1>8, <2>1 DEF Digest!InPhase
<1>10. Digest!SentIsTold'
  <2>1. note \in v10' \ v10 => told[note] > 0
    <3>1. note \in v10' \ v10 => engine.phase = "sent" /\ engine.result = "sent"
      BY DEF Digest!EngineRecord, Digest!EngineDies
    <3> QED BY <1>0, <3>1 DEF Digest!SentIsTold
  <2> QED BY <1>0, <1>1, <1>5, <2>1 DEF Digest!SentIsTold
<1>11. Digest!SentWasTold'
  <2> SUFFICES ASSUME NEW n \in Notes, row'[n].status = "sent" PROVE told[n] > 0 \/ n \in v9
    BY <1>1 DEF Digest!SentWasTold
  <2>1. CASE row'[n] = row[n]
    BY <1>0, <2>1 DEF Digest!SentWasTold
  <2>2. CASE row'[n] # row[n]
    BY <1>0, <1>3, <1>4, <2>2 DEF Digest!SentIsTold
  <2> QED BY <2>1, <2>2
<1>12. Digest!OneSender'
  <2> SUFFICES ASSUME NEW n \in Notes \ (v9' \cup v10') PROVE Digest!Alone(n)'
    BY DEF Digest!OneSender
  <2>1. n \in Notes \ (v9 \cup v10)
    BY <1>1
  <2>2. /\ Digest!Alone(n) /\ told[n] \in {0, 1} /\ n \in Notes
        /\ n \in Digest!InHand => v5.phase = "idle"
    BY <2>1, AloneIs
  <2>3. CASE n = note
    <3>1. v5.phase = "idle" /\ row[n].status = "pending"
          /\ (told[n] = 1 => engine.phase = "sent" /\ engine.result = "sent")
      BY <1>1, <1>7, <2>2, <2>3 DEF Digest!Alone, Digest!Out
    <3>2. row'[n].status = "pending" => told[n] = 0
      BY <1>1, <1>3, <1>4, <2>2, <2>3, <3>1
    <3>3. row'[n].status # "none"
      BY <1>8, <2>2, <3>1
    <3> QED BY <1>1, <1>7, <2>2, <3>1, <3>2, <3>3 DEF Digest!Alone
  <2>4. CASE n # note
    <3>1. row'[n] = row[n] /\ n \notin Digest!InHand' /\ n \notin Digest!InHand
          /\ (n \in Digest!Out' <=> n \in Digest!Out)
          /\ (n \in Digest!InWindow' <=> n \in Digest!InWindow)
      BY <1>1, <1>4, <1>7, <2>2, <2>4 DEF Digest!Out, Digest!InWindow
    <3> QED BY <1>1, <2>2, <3>1 DEF Digest!Alone
  <2> QED BY <2>3, <2>4
<1> QED BY <1>6, <1>9, <1>10, <1>11, <1>12 DEF Digest!DigestInv

\* The steps of a digest, from what each does to the rows that only it holds.
LEMMA DigestKept ==
  ASSUME Digest!DigestInv, UNCHANGED <<v1, v2, v4, v7>>,
         v3' \in [Notes -> DigestRows], v5' \in DigestJobs, v8' \in [Notes -> Nat],
         v6' \in Digest!Results \cup {"none"}, v9' \subseteq Notes, v10' \subseteq Notes,
         v9 \subseteq v9', \A n \in Notes : v8[n] > 0 => v8'[n] > 0,
         \A n \in Notes : v3[n].status = "none" <=> v3'[n].status = "none",
         \A n \in Notes : v3'[n] # v3[n] =>
           v3[n].status # "none" /\ (v8[n] > 0 \/ n \in v9) /\ v3'[n].status # "none",
         v5'.phase # "idle" => Digest!InHand \subseteq v9' /\ v5'.day * DigestDay <= v1,
         v5'.phase = "summed" => \A n \in v5'.groups : v3'[n].status # "none",
         v5'.phase = "logged" => v5'.result = "sent",
         v5'.phase \in {"sent", "logged"} /\ v5'.result = "sent" =>
           \A n \in v5'.groups : v8'[n] > 0,
         \A n \in v10' : v8'[n] > 0,
         \A n \in Notes \ (v9' \cup v10') : Digest!Alone(n)'
  PROVE  Digest!DigestInv'
<1>0. Digest!TypeOK /\ Digest!InPhase /\ Digest!SentIsTold /\ Digest!SentWasTold
      /\ v4.note \in Notes
  BY DigestTypes DEF Digest!DigestInv
<1>1. Digest!TypeOK'
  BY <1>0, DigestTypes, DigestTyped
<1>2. Digest!InPhase'
  <2>1. v4.phase = "read" => v3'[v4.note] = Digest!NoRow
    BY <1>0 DEF Digest!InPhase, Digest!NoRow
  <2>2. \A n \in Notes : v3'[n].status = "none" => v3'[n] = Digest!NoRow
    BY <1>0 DEF Digest!InPhase
  <2>3. Digest!InHand # {} => v3'[v4.note].status # "none"
    BY <1>0 DEF Digest!InPhase
  <2> QED BY <1>0, <2>1, <2>2, <2>3 DEF Digest!InPhase, Digest!InHand, Digest!DigestRuns
<1>3. Digest!SentIsTold'
  BY <1>0 DEF Digest!SentIsTold
<1>4. Digest!SentWasTold'
  <2> SUFFICES ASSUME NEW n \in Notes, v3'[n].status = "sent" PROVE v8'[n] > 0 \/ n \in v9'
    BY DEF Digest!SentWasTold
  <2>1. v8[n] > 0 \/ n \in v9
    BY <1>0 DEF Digest!SentWasTold
  <2> QED BY <2>1
<1>5. Digest!OneSender'
  BY DEF Digest!OneSender
<1> QED BY <1>1, <1>2, <1>3, <1>4, <1>5 DEF Digest!DigestInv

\* Steps that leave rows and messages alone: to start, to sum up, to log, to die.
LEMMA DigestTurns ==
  ASSUME Digest!DigestInv,
         Digest!DigestStart \/ Digest!DigestSum \/ Digest!DigestLog \/ Digest!DigestDies
  PROVE  Digest!DigestInv'
<1> DEFINE clock == v1  row == v3  digest == v5  told == v8
           next == Digest!DigestIdle(digest.day + 1)
<1>0. Digest!TypeOK /\ Digest!InPhase /\ Digest!SentIsTold /\ Digest!OneSender
  BY DEF Digest!DigestInv
<1>1. UNCHANGED <<v1, v2, v3, v4, v7, v8>>
  BY DEF Digest!DigestStart, Digest!DigestSum, Digest!DigestLog, Digest!DigestDies
<1>2. /\ row \in [Notes -> DigestRows] /\ digest \in DigestJobs /\ told \in [Notes -> Nat]
      /\ digest.groups \subseteq Notes /\ digest.day \in DigestDays /\ clock \in 0..DigestClock
      /\ v9 \subseteq Notes /\ v10 \subseteq Notes /\ digest.result \in Digest!Results
      /\ v6 \in Digest!Results \cup {"none"}
  BY <1>0, DigestTypes DEF Digest!TypeOK
<1>3. digest.day * DigestDay <= clock
  <2>1. Digest!DigestRuns => digest.day * DigestDay <= clock
    BY <1>0 DEF Digest!InPhase
  <2>2. digest.day * DigestDay \in Int /\ clock \in Int
    BY <1>2, WorkspaceAssumption DEF DigestDays
  <2>3. CASE Digest!DigestStart
    BY <2>2, <2>3 DEF Digest!DigestStart
  <2>4. CASE Digest!DigestSum \/ Digest!DigestLog \/ Digest!DigestDies
    BY <2>1, <2>4 DEF Digest!DigestSum, Digest!DigestLog, Digest!DigestDies, Digest!DigestRuns
  <2> QED BY <2>3, <2>4
<1>4. next \in DigestJobs /\ next.phase = "idle"
  BY <1>2, <1>3, DigestDayIn, DigestIdles
<1> HIDE DEF next
<1>5. \A n \in Notes \ (v9 \cup v10) :
        /\ Digest!Alone(n) /\ told[n] \in {0, 1}
        /\ n \in Digest!InHand => digest.phase = "idle"
        /\ told[n] = 1 /\ n \in Digest!Out =>
             \/ n = v4.note /\ v4.phase = "sent" /\ v4.result = "sent" /\ digest.phase = "idle"
             \/ n \in digest.groups /\ digest.phase \in {"sent", "logged"} /\ digest.result = "sent"
  BY AloneIs
<1>6. Digest!InWindow' = Digest!InWindow /\ Digest!InHand' = Digest!InHand
  BY <1>1 DEF Digest!InWindow, Digest!InHand
<1>7. CASE Digest!DigestStart
  <2> DEFINE r == [digest EXCEPT !.phase = "started"]
  <2>1. r \in DigestJobs /\ r.phase = "started" /\ r.day = digest.day
    BY <1>2 DEF DigestJobs
  <2>2. /\ digest.phase = "idle" /\ UNCHANGED <<v6, v10>>
        /\ \/ digest' = r /\ v9' = v9 \cup Digest!InHand
           \/ digest' = next /\ v9' = v9
    BY <1>7 DEF Digest!DigestStart, Digest!DigestRuns, next
  <2> HIDE DEF r
  <2>3. digest' \in DigestJobs /\ digest'.phase \in {"idle", "started"} /\ v9 \subseteq v9'
        /\ v9' \subseteq Notes
        /\ (digest'.phase # "idle" => Digest!InHand \subseteq v9' /\ digest'.day * DigestDay <= clock)
    <3>1. Digest!InHand \subseteq Notes
      BY <1>0, DigestTypes DEF Digest!InHand
    <3> QED BY <1>2, <1>3, <1>4, <2>1, <2>2, <3>1
  <2>4. ASSUME NEW n \in Notes \ (v9' \cup v10') PROVE Digest!Alone(n)'
    <3>1. n \in Notes \ (v9 \cup v10)
      BY <2>2, <2>3
    <3>2. n \in Digest!Out' <=> n \in Digest!Out
      BY <1>1, <1>6, <2>2, <2>3 DEF Digest!Out
    <3>3. digest'.phase \notin {"summed", "sent", "logged"}
      BY <2>3
    <3> QED BY <1>1, <1>5, <1>6, <3>1, <3>2, <3>3 DEF Digest!Alone
  <2>5. \A n \in v10' : told'[n] > 0
    BY <1>0, <1>1, <2>2 DEF Digest!SentIsTold
  <2> QED BY <1>1, <1>2, <2>2, <2>3, <2>4, <2>5, DigestKept
<1>8. CASE Digest!DigestSum
  <2> DEFINE r == [digest EXCEPT !.phase = "summed", !.groups = Digest!InWindow]
  <2>1. /\ digest.phase = "started" /\ UNCHANGED <<v6, v9, v10>>
        /\ \/ digest' = r
           \/ digest' = next
    BY <1>8 DEF Digest!DigestSum, next
  <2>2. Digest!InWindow \subseteq Notes
    BY DEF Digest!InWindow
  <2>3. r \in DigestJobs /\ r.phase = "summed" /\ r.day = digest.day
        /\ r.groups = Digest!InWindow
    BY <1>2, <2>2 DEF DigestJobs
  <2> HIDE DEF r
  <2>4. digest' \in DigestJobs /\ digest'.phase \in {"idle", "summed"}
        /\ (digest'.phase = "summed" => digest'.groups = Digest!InWindow)
        /\ (digest'.phase # "idle" => Digest!InHand \subseteq v9' /\ digest'.day * DigestDay <= clock)
    <3>1. Digest!InHand \subseteq v9
      BY <1>0, <2>1 DEF Digest!InPhase, Digest!DigestRuns
    <3> QED BY <1>3, <1>4, <2>1, <2>3, <3>1
  <2>5. \A n \in Digest!InWindow : row[n].status = "pending" /\ ~(row[n].created + DigestDay <= clock)
    <3> SUFFICES ASSUME NEW n \in Notes, row[n].created + DigestDay > clock
                 PROVE  ~(row[n].created + DigestDay <= clock)
      BY DEF Digest!InWindow
    <3>1. row[n].created + DigestDay \in Nat /\ clock \in Nat
      BY <1>0, DigestTypes, WorkspaceAssumption
    <3> QED BY <3>1
  <2>6. ASSUME NEW n \in Notes \ (v9 \cup v10) PROVE Digest!Alone(n)'
    <3>1. n \notin Digest!Out /\ n \notin Digest!Out' /\ n \notin Digest!InHand
      BY <1>5, <2>1, <2>4, <1>1, <1>6 DEF Digest!Out
    <3>2. n \in Digest!InWindow => told[n] = 0
      BY <1>5, <2>5, <3>1 DEF Digest!Alone
    <3>3. digest'.phase \notin {"sent", "logged"}
      BY <2>4
    <3> QED BY <1>1, <1>5, <1>6, <2>4, <3>1, <3>2, <3>3 DEF Digest!Alone
  <2>7. \A n \in v10' : told'[n] > 0
    BY <1>0, <1>1, <2>1 DEF Digest!SentIsTold
  <2>8. digest'.phase = "summed" => \A n \in digest'.groups : row'[n].status # "none"
    BY <1>1, <2>4, <2>5
  <2>9. digest'.phase \notin {"sent", "logged"}
    BY <2>4
  <2> QED BY <1>1, <1>2, <2>1, <2>4, <2>6, <2>7, <2>8, <2>9, DigestKept
<1>9. CASE Digest!DigestLog
  <2> DEFINE r == [digest EXCEPT !.phase = "logged"]
  <2>1. r \in DigestJobs /\ r.phase = "logged" /\ r.day = digest.day /\ r.groups = digest.groups
        /\ r.result = digest.result
    BY <1>2 DEF DigestJobs
  <2>2. /\ digest.phase = "sent" /\ UNCHANGED <<v9, v10>> /\ v6' = digest.result
        /\ digest' = IF digest.result = "sent" THEN r ELSE next
    BY <1>9 DEF Digest!DigestLog, next
  <2> HIDE DEF r
  <2>3. Digest!InHand \subseteq v9
    BY <1>0, <2>2 DEF Digest!InPhase, Digest!DigestRuns
  <2>4. digest' \in DigestJobs
        /\ (digest'.phase # "idle" => Digest!InHand \subseteq v9' /\ digest'.day * DigestDay <= clock)
        /\ \/ /\ digest'.phase = "logged" /\ digest'.groups = digest.groups
              /\ digest'.result = "sent" /\ digest.result = "sent"
           \/ digest'.phase = "idle" /\ digest.result # "sent"
    BY <1>3, <1>4, <2>1, <2>2, <2>3
  <2>5. ASSUME NEW n \in Notes \ (v9 \cup v10) PROVE Digest!Alone(n)'
    <3>1. n \notin Digest!InHand
      BY <1>5, <2>2
    <3>2. n \in Digest!Out' <=> n \in Digest!Out
      BY <1>1, <1>6, <2>2, <2>4, <3>1 DEF Digest!Out
    <3> QED BY <1>1, <1>5, <1>6, <2>2, <2>4, <3>1, <3>2 DEF Digest!Alone
  <2>6. /\ \A n \in v10' : told'[n] > 0
        /\ digest'.phase = "logged" => \A n \in digest'.groups : told'[n] > 0
    BY <1>0, <1>1, <2>2, <2>4 DEF Digest!SentIsTold
  <2>7. digest'.phase # "summed" /\ (digest'.phase = "logged" => digest'.result = "sent")
        /\ (digest'.phase \in {"sent", "logged"} => digest'.phase = "logged")
    BY <2>4
  <2> QED BY <1>1, <1>2, <2>2, <2>4, <2>5, <2>6, <2>7, DigestKept
<1>10. CASE Digest!DigestDies
  <2>1. /\ digest.phase # "idle" /\ UNCHANGED <<v6, v9>> /\ digest' = next
        /\ v10' = v10 \cup IF digest.phase \in {"sent", "logged"} /\ digest.result = "sent"
                           THEN digest.groups ELSE {}
    BY <1>10 DEF Digest!DigestDies, Digest!DigestRuns, next
  <2>2. ASSUME NEW n \in Notes \ (v9' \cup v10') PROVE Digest!Alone(n)'
    <3>1. n \in Notes \ (v9 \cup v10)
      BY <2>1
    <3>2. n \notin Digest!InHand /\ ~(told[n] = 1 /\ n \in Digest!Out)
      BY <1>5, <2>1, <3>1
    <3>3. digest'.phase = "idle"
      BY <1>4, <2>1
    <3> QED BY <1>1, <1>5, <1>6, <3>1, <3>2, <3>3 DEF Digest!Alone
  <2>3. \A n \in v10' : told'[n] > 0
    BY <1>0, <1>1, <2>1 DEF Digest!SentIsTold
  <2>4. v10' \subseteq Notes /\ digest' \in DigestJobs /\ digest'.phase = "idle"
    BY <1>2, <1>4, <2>1
  <2> QED BY <1>1, <1>2, <2>1, <2>2, <2>3, <2>4, DigestKept
<1> QED BY <1>7, <1>8, <1>9, <1>10

LEMMA DigestSends ==
  ASSUME Digest!DigestInv, NEW result \in Digest!Results, Digest!DigestSend(result)
  PROVE  Digest!DigestInv'
<1> DEFINE clock == v1  row == v3  digest == v5  told == v8
           r == [digest EXCEPT !.phase = "sent", !.result = result]
<1>0. Digest!TypeOK /\ Digest!InPhase /\ Digest!SentIsTold
  BY DEF Digest!DigestInv
<1>1. /\ UNCHANGED <<v1, v2, v3, v4, v6, v7, v9, v10>> /\ digest' = r /\ digest.phase = "summed"
      /\ told' = [n \in Notes |->
                    told[n] + IF result = "sent" /\ n \in digest.groups THEN 1 ELSE 0]
  BY DEF Digest!DigestSend
<1>2. /\ row \in [Notes -> DigestRows] /\ digest \in DigestJobs /\ told \in [Notes -> Nat]
      /\ digest.groups \subseteq Notes /\ v9 \subseteq Notes /\ v10 \subseteq Notes
      /\ v6 \in Digest!Results \cup {"none"} /\ \A n \in Notes : told[n] \in Nat
  BY <1>0, DigestTypes DEF Digest!TypeOK
<1>3. r \in DigestJobs /\ r.phase = "sent" /\ r.result = result /\ r.groups = digest.groups
      /\ r.day = digest.day
  BY <1>2 DEF DigestJobs
<1> HIDE DEF r
<1>4. /\ told' \in [Notes -> Nat]
      /\ \A n \in Notes : told'[n] = told[n] + IF result = "sent" /\ n \in digest.groups THEN 1 ELSE 0
  BY <1>1, <1>2
<1>5. \A n \in Notes : told[n] > 0 => told'[n] > 0
  BY <1>2, <1>4
<1>6. digest'.phase # "idle" => Digest!InHand \subseteq v9' /\ digest'.day * DigestDay <= clock
  BY <1>0, <1>1, <1>3 DEF Digest!InPhase, Digest!DigestRuns
<1>7. digest'.phase \in {"sent", "logged"} /\ digest'.result = "sent" =>
        \A n \in digest'.groups : told'[n] > 0
  BY <1>1, <1>2, <1>3, <1>4
<1>8. \A n \in v10' : told'[n] > 0
  BY <1>0, <1>1, <1>2, <1>5 DEF Digest!SentIsTold
<1>9. ASSUME NEW n \in Notes \ (v9 \cup v10) PROVE Digest!Alone(n)'
  <2>1. Digest!Alone(n) /\ told[n] \in {0, 1} /\ n \notin Digest!InHand /\ n \notin Digest!Out
    BY <1>1, AloneIs DEF Digest!Out
  <2>2. Digest!InHand' = Digest!InHand /\ Digest!InWindow' = Digest!InWindow
    BY <1>1 DEF Digest!InHand, Digest!InWindow
  <2>3. n \in digest.groups => told[n] = 0 /\ row[n].status # "none"
    BY <1>0, <1>1, <2>1 DEF Digest!Alone, Digest!InPhase
  <2>4. CASE result = "sent" /\ n \in digest.groups
    <3>1. told'[n] = 1 /\ n \in Digest!Out'
      BY <1>1, <1>3, <1>4, <2>3, <2>4 DEF Digest!Out
    <3>2. n \in digest'.groups /\ digest'.phase = "sent" /\ row'[n] = row[n]
      BY <1>1, <1>3, <2>4
    <3> QED BY <2>1, <2>2, <2>3, <2>4, <3>1, <3>2 DEF Digest!Alone
  <2>5. CASE ~(result = "sent" /\ n \in digest.groups)
    <3>1. told'[n] = told[n]
      BY <1>2, <1>4, <2>5
    <3>2. digest'.groups = digest.groups /\ digest'.phase = "sent" /\ digest.phase = "summed"
      BY <1>1, <1>3
    <3> QED BY <1>1, <2>1, <2>2, <3>1, <3>2 DEF Digest!Alone
  <2> QED BY <2>4, <2>5
<1>10. digest' \in DigestJobs /\ digest'.phase = "sent"
  BY <1>1, <1>3
<1> QED BY <1>1, <1>2, <1>4, <1>5, <1>6, <1>7, <1>8, <1>9, <1>10, DigestKept

\* The UPDATE: what is in the window of the moment was summed up.
LEMMA DigestMarks ==
  ASSUME Digest!DigestInv, Digest!DigestMark PROVE Digest!DigestInv'
<1> DEFINE clock == v1  row == v3  digest == v5  told == v8
           next == Digest!DigestIdle(digest.day + 1)
<1>0. Digest!TypeOK /\ Digest!InPhase /\ Digest!SentIsTold
  BY DEF Digest!DigestInv
<1>1. /\ UNCHANGED <<v1, v2, v4, v6, v7, v8, v9, v10>> /\ digest' = next /\ digest.phase = "logged"
      /\ row' = [n \in Notes |-> IF n \in Digest!InWindow THEN [row[n] EXCEPT !.status = "sent"]
                                 ELSE row[n]]
  BY DEF Digest!DigestMark
<1>2. /\ row \in [Notes -> DigestRows] /\ digest \in DigestJobs /\ told \in [Notes -> Nat]
      /\ digest.groups \subseteq Notes /\ v9 \subseteq Notes /\ v10 \subseteq Notes
      /\ v6 \in Digest!Results \cup {"none"} /\ digest.day \in DigestDays
      /\ clock \in 0..DigestClock /\ clock \in Nat
      /\ \A n \in Notes : row[n] \in DigestRows /\ row[n].created \in Nat
  BY <1>0, DigestTypes DEF Digest!TypeOK
<1>3. next \in DigestJobs /\ next.phase = "idle"
  <2>1. digest.day * DigestDay <= clock
    BY <1>0, <1>1 DEF Digest!InPhase, Digest!DigestRuns
  <2> QED BY <1>2, <2>1, DigestDayIn, DigestIdles
<1> HIDE DEF next
<1>4. \A n \in Notes : n \in Digest!InWindow <=> row[n].status = "pending" /\ ~(row[n].created + DigestDay <= clock)
  <2> SUFFICES ASSUME NEW n \in Notes
               PROVE  row[n].created + DigestDay > clock <=> ~(row[n].created + DigestDay <= clock)
    BY DEF Digest!InWindow
  <2>1. row[n].created + DigestDay \in Nat
    BY <1>2, WorkspaceAssumption
  <2> QED BY <1>2, <2>1
<1>5. ASSUME NEW n \in Notes
      PROVE  /\ row'[n] \in DigestRows
             /\ n \in Digest!InWindow => row'[n].status = "sent"
             /\ n \notin Digest!InWindow => row'[n] = row[n]
  <2> DEFINE r == [row[n] EXCEPT !.status = "sent"]
  <2>1. r \in DigestRows /\ r.status = "sent"
    BY <1>2 DEF DigestRows, Digest!Results
  <2>2. row'[n] = IF n \in Digest!InWindow THEN r ELSE row[n]
    BY <1>1
  <2> HIDE DEF r
  <2> QED BY <1>2, <2>1, <2>2
<1>6. row' \in [Notes -> DigestRows]
  <2>1. row' = [n \in Notes |-> row'[n]]
    BY <1>1
  <2> QED BY <1>5, <2>1
<1>7. \A n \in Notes : row[n].status = "none" <=> row'[n].status = "none"
  BY <1>4, <1>5
<1>8. \A n \in Digest!InWindow : told[n] > 0 \/ n \in v9
  <2> SUFFICES ASSUME NEW n \in Digest!InWindow, n \notin v9 PROVE told[n] > 0
    OBVIOUS
  <2>1. n \in Notes
    BY DEF Digest!InWindow
  <2>2. CASE n \in v10
    BY <1>0, <2>2 DEF Digest!SentIsTold
  <2>3. CASE n \notin v10
    <3>1. n \in digest.groups
      BY <1>1, <2>1, <2>3, AloneIs DEF Digest!Alone
    <3> QED BY <1>0, <1>1, <3>1 DEF Digest!SentIsTold, Digest!InPhase
  <2> QED BY <2>2, <2>3
<1>9. \A n \in Notes : row'[n] # row[n] =>
        row[n].status # "none" /\ (told[n] > 0 \/ n \in v9) /\ row'[n].status # "none"
  BY <1>4, <1>5, <1>8
<1>10. ASSUME NEW n \in Notes \ (v9 \cup v10) PROVE Digest!Alone(n)'
  <2>1. /\ Digest!Alone(n) /\ told[n] \in {0, 1} /\ n \notin Digest!InHand /\ n \in Notes
        /\ Digest!InHand' = Digest!InHand
    BY <1>1, AloneIs DEF Digest!InHand
  <2>2. row'[n].status = "pending" => row[n].status = "pending" /\ row'[n] = row[n]
                                      /\ row[n].created + DigestDay <= clock
    BY <1>4, <1>5, <2>1
  <2>3. row'[n].status = "none" => told[n] = 0
    BY <1>7, <2>1 DEF Digest!Alone
  <2>4. digest'.phase = "idle"
    BY <1>1, <1>3
  <2> QED BY <1>1, <2>1, <2>2, <2>3, <2>4 DEF Digest!Alone
<1>11. \A n \in v10' : told'[n] > 0
  BY <1>0, <1>1 DEF Digest!SentIsTold
<1>12. digest' \in DigestJobs /\ digest'.phase = "idle"
  BY <1>1, <1>3
<1>13. told' = told
  BY <1>1
<1> QED BY <1>1, <1>2, <1>6, <1>7, <1>9, <1>10, <1>11, <1>12, <1>13, DigestKept

LEMMA DigestStep ==
  ASSUME Digest!DigestInv, [Digest!Next]_(Digest!vars) PROVE Digest!DigestInv'
BY DigestQuiet, EngineReads, EngineClaims, EngineSends, EngineEnds, DigestTurns, DigestSends,
   DigestMarks DEF Digest!Next

\* A row of one sender is told once.
LEMMA DigestHolds ==
  ASSUME Digest!DigestInv PROVE Digest!ToldOnce /\ Digest!SentWasTold
<1>1. ASSUME NEW n \in Notes, v8[n] > 1 PROVE n \in v9 \cup v10
  <2>1. v8[n] \in Nat /\ ~(v8[n] <= 1)
    BY <1>1, DigestTypes DEF Digest!DigestInv
  <2> QED BY <2>1 DEF Digest!DigestInv, Digest!OneSender, Digest!Alone
<1> QED BY <1>1 DEF Digest!DigestInv, Digest!ToldOnce

-----------------------------------------------------------------------------
(***************************************************************************)
(* TelegramLinks: a code links one chat, once, and the profile that waits  *)
(* for a chat gets it.  v1 .. v12 are code, updates, kept, bot, active,    *)
(* target, edit, edits, failures, linked, failed and told.                 *)
(***************************************************************************)
LinkUpdateSet == [code : Codes, chat : Pair]
LinkBots == [offset : 0..(LinkUpdates + 1), last : 0..LinkUpdates, step : Telegram!Steps]

\* An update has a code and a chat.
LEMMA UpdateIs ==
  ASSUME NEW s \in Seq(LinkUpdateSet), NEW i \in DOMAIN s
  PROVE  s[i].code \in Codes /\ s[i].chat \in Pair
<1>1. s[i] \in LinkUpdateSet
  OBVIOUS
<1> QED BY <1>1 DEF LinkUpdateSet

\* The poller has its update in hand while it works on it.
LEMMA AtWork ==
  ASSUME Telegram!TypeOK, Telegram!BatchIsKept, v4.step # "next"
  PROVE  /\ Telegram!At \in DOMAIN v2 /\ Telegram!At \in 1..LinkUpdates
         /\ Telegram!Now.code \in Codes /\ Telegram!Now.chat \in Pair
<1>1. /\ v4.offset \in Nat /\ v4.offset >= 2 /\ v4.offset <= v4.last + 1 /\ v4.last <= Len(v2)
      /\ v4.last \in Nat /\ Len(v2) <= LinkUpdates /\ v2 \in Seq(LinkUpdateSet)
  <2>1. v4 \in LinkBots
    BY DEF Telegram!TypeOK, LinkBots
  <2>2. v4.offset \in Nat /\ v4.last \in Nat
    BY <2>1, WorkspaceAssumption DEF LinkBots
  <2> QED BY <2>2 DEF Telegram!TypeOK, Telegram!BatchIsKept, LinkUpdateSet
<1>2. Len(v2) \in Nat /\ DOMAIN v2 = 1..Len(v2)
  BY <1>1
<1>3. Telegram!At \in DOMAIN v2 /\ Telegram!At \in 1..LinkUpdates
  BY <1>1, <1>2, WorkspaceAssumption DEF Telegram!At
<1> QED BY <1>1, <1>3, UpdateIs DEF Telegram!Now

LEMMA TelegramInit == ASSUME Telegram!Init PROVE Telegram!LinkInv
<1>1. v2 = <<>> /\ v2 \in Seq(LinkUpdateSet) /\ Len(v2) = 0 /\ DOMAIN v2 = {}
      /\ v10 = <<>> /\ v10 \in Seq(Codes \X Pair) /\ DOMAIN v10 = {}
  BY DEF Telegram!Init
<1>2. v4 \in LinkBots /\ v4.step = "next" /\ v4.offset = 0 /\ v4.last = 0
  BY WorkspaceAssumption DEF Telegram!Init, Telegram!Started, LinkBots, Telegram!Steps
<1>3. Telegram!TypeOK
  <2>1. v1 \in [Codes -> Telegram!States] /\ v5 \in [Pair -> Nat] /\ v11 \subseteq Codes
    BY DEF Telegram!Init, Telegram!States
  <2>2. v12 \in [1..LinkUpdates -> SUBSET {"welcome", "refuse"}]
    BY DEF Telegram!Init
  <2>3. v3 \in 0..LinkUpdates /\ v8 \in 0..LinkEdits /\ v9 \in 0..LinkFailures
    BY WorkspaceAssumption DEF Telegram!Init
  <2>4. v6 \in Telegram!Targets /\ v7 \in Telegram!Targets
    BY DEF Telegram!Init, Telegram!Targets
  <2> QED BY <1>1, <1>2, <2>1, <2>2, <2>3, <2>4, WorkspaceAssumption
          DEF Telegram!TypeOK, LinkUpdateSet, LinkBots
<1>4. \A c : Telegram!LinkedBy(c) = {}
  BY <1>1 DEF Telegram!LinkedBy
<1>5. Telegram!BatchIsKept
  BY <1>1, <1>2 DEF Telegram!Init, Telegram!BatchIsKept
<1>6. Telegram!SpentFirst
  BY <1>2, <1>4 DEF Telegram!SpentFirst
<1>7. Telegram!CodeLinksOnce
  BY <1>4 DEF Telegram!CodeLinksOnce, Telegram!Init
<1>8. Telegram!SpentCodeLinked
  BY <1>1 DEF Telegram!SpentCodeLinked, Telegram!Init
<1>9. Telegram!PlaceholderServed /\ v7 # "console"
  BY <1>1 DEF Telegram!PlaceholderServed, Telegram!Init
<1> QED BY <1>3, <1>5, <1>6, <1>7, <1>8, <1>9 DEF Telegram!LinkInv

-----------------------------------------------------------------------------
\* The parts about codes, chats and answers need only what they speak of.
LEMMA CodesKept ==
  ASSUME Telegram!LinkInv, UNCHANGED <<v2, v10, v12>>,
         \A chat \in Pair : v5'[chat] # 0 => v5[chat] # 0,
         v11 \subseteq v11', \A c \in Codes : v1[c] = "used" <=> v1'[c] = "used",
         \/ v4' = v4
         \/ /\ v4'.step = "next"
            /\ v4.step = "link" => Telegram!Now.code \in v11'
         \/ v4.step # "next" /\ v4'.step \in {"welcome", "next"} /\ v4'.offset = v4.offset
            /\ v4.step \in {"repoint", "welcome"}
  PROVE  Telegram!SpentFirst' /\ Telegram!CodeLinksOnce' /\ Telegram!SpentCodeLinked'
<1>1. \A c : Telegram!LinkedBy(c)' = Telegram!LinkedBy(c)
  BY DEF Telegram!LinkedBy
<1>2. v4' = v4 \/ (v4'.step = "welcome" /\ v4'.offset = v4.offset) =>
        Telegram!Now' = Telegram!Now
  BY DEF Telegram!Now, Telegram!At
<1>3. /\ Telegram!TypeOK /\ Telegram!BatchIsKept
      /\ v4.step # "next" => Telegram!Now.code \in Codes
  BY AtWork DEF Telegram!LinkInv
<1>4. Telegram!SpentFirst'
  BY <1>1, <1>2, <1>3 DEF Telegram!LinkInv, Telegram!SpentFirst
<1>5. Telegram!CodeLinksOnce'
  BY <1>1 DEF Telegram!LinkInv, Telegram!CodeLinksOnce
<1>6. Telegram!SpentCodeLinked'
  BY <1>1, <1>2, <1>3 DEF Telegram!LinkInv, Telegram!SpentCodeLinked
<1> QED BY <1>4, <1>5, <1>6

\* The console: codes issued and expired, chats unlinked, the profile edited.
LEMMA TelegramConsole ==
  ASSUME Telegram!LinkInv,
         \/ \E c \in Codes : Telegram!Issue(c) \/ Telegram!Expire(c)
         \/ \E chat \in Pair : Telegram!Unlink(chat)
         \/ Telegram!CreateProfile \/ Telegram!ReadProfile \/ Telegram!WriteProfile
         \/ UNCHANGED Telegram!vars
  PROVE  Telegram!LinkInv'
<1>0. Telegram!TypeOK /\ Telegram!BatchIsKept /\ Telegram!PlaceholderServed /\ v7 # "console"
  BY DEF Telegram!LinkInv
<1>1. UNCHANGED <<v2, v3, v4, v9, v10, v11, v12>>
  BY DEF Telegram!Issue, Telegram!Expire, Telegram!Unlink, Telegram!CreateProfile,
         Telegram!ReadProfile, Telegram!WriteProfile, Telegram!vars
<1>2. v1' \in [Codes -> Telegram!States] /\ \A c \in Codes : v1[c] = "used" <=> v1'[c] = "used"
  BY <1>0 DEF Telegram!Issue, Telegram!Expire, Telegram!Unlink, Telegram!CreateProfile,
         Telegram!ReadProfile, Telegram!WriteProfile, Telegram!vars, Telegram!TypeOK, Telegram!States
<1>3. v5' \in [Pair -> Nat] /\ \A chat \in Pair : v5'[chat] # 0 => v5[chat] # 0
  BY <1>0 DEF Telegram!Issue, Telegram!Expire, Telegram!Unlink, Telegram!CreateProfile,
         Telegram!ReadProfile, Telegram!WriteProfile, Telegram!vars, Telegram!TypeOK
<1>4. \A wanted \in Telegram!Targets : Telegram!Resolved(wanted) \subseteq Telegram!Targets \ {"console"}
  BY WorkspaceAssumption DEF Telegram!Resolved, Telegram!Targets
<1>5. v6' \in Telegram!Targets /\ v7' \in Telegram!Targets /\ v7' # "console"
      /\ (v6' = "console" => v6 = "console")
  <2>1. v6 \in Telegram!Targets /\ v7 \in Telegram!Targets
    BY <1>0 DEF Telegram!TypeOK
  <2>2. {"console", "typed"} \subseteq Telegram!Targets /\ "none" \in Telegram!Targets
    BY DEF Telegram!Targets
  <2>3. CASE Telegram!CreateProfile
    BY <1>0, <1>4, <2>1, <2>2, <2>3 DEF Telegram!CreateProfile
  <2>4. CASE Telegram!ReadProfile
    BY <1>0, <1>4, <2>1, <2>2, <2>4 DEF Telegram!ReadProfile
  <2>5. CASE Telegram!WriteProfile
    BY <1>0, <2>1, <2>2, <2>5 DEF Telegram!WriteProfile
  <2>6. CASE \/ \E c \in Codes : Telegram!Issue(c) \/ Telegram!Expire(c)
             \/ \E chat \in Pair : Telegram!Unlink(chat)
             \/ UNCHANGED Telegram!vars
    BY <1>0, <2>1, <2>6 DEF Telegram!Issue, Telegram!Expire, Telegram!Unlink, Telegram!vars
  <2> QED BY <2>3, <2>4, <2>5, <2>6
<1>6. v8' \in 0..LinkEdits
  BY <1>0, WorkspaceAssumption
     DEF Telegram!Issue, Telegram!Expire, Telegram!Unlink, Telegram!CreateProfile,
         Telegram!ReadProfile, Telegram!WriteProfile, Telegram!vars, Telegram!TypeOK
<1>7. Telegram!TypeOK'
  BY <1>0, <1>1, <1>2, <1>3, <1>5, <1>6 DEF Telegram!TypeOK
<1>8. Telegram!BatchIsKept'
  BY <1>0, <1>1 DEF Telegram!BatchIsKept
<1>9. Telegram!PlaceholderServed'
  BY <1>0, <1>1, <1>5 DEF Telegram!PlaceholderServed
<1>10. Telegram!SpentFirst' /\ Telegram!CodeLinksOnce' /\ Telegram!SpentCodeLinked'
  BY <1>1, <1>2, <1>3, CodesKept
<1> QED BY <1>5, <1>7, <1>8, <1>9, <1>10 DEF Telegram!LinkInv

\* One message more; those before it stay where they are.
LEMMA TelegramPress ==
  ASSUME Telegram!LinkInv, NEW c \in Codes, NEW chat \in Pair, Telegram!Press(c, chat)
  PROVE  Telegram!LinkInv'
<1> DEFINE updates == v2  new == [code |-> c, chat |-> chat]
<1>0. Telegram!TypeOK /\ Telegram!BatchIsKept /\ updates \in Seq(LinkUpdateSet)
  BY DEF Telegram!LinkInv, Telegram!TypeOK, LinkUpdateSet
<1>1. UNCHANGED <<v1, v3, v4, v5, v6, v7, v8, v9, v10, v11, v12>>
      /\ updates' = Append(updates, new) /\ Len(updates) < LinkUpdates
  BY DEF Telegram!Press
<1>2. new \in LinkUpdateSet
  BY DEF LinkUpdateSet
<1> HIDE DEF new
<1>3. /\ updates' \in Seq(LinkUpdateSet) /\ Len(updates') = Len(updates) + 1 /\ Len(updates) \in Nat
      /\ \A i \in DOMAIN updates : updates'[i] = updates[i]
      /\ DOMAIN updates = 1..Len(updates) /\ DOMAIN updates' = 1..(Len(updates) + 1)
  BY <1>0, <1>1, <1>2, AppendProperties
<1>4. Telegram!TypeOK'
  <2>1. Len(updates') <= LinkUpdates
    BY <1>1, <1>3, WorkspaceAssumption
  <2> QED BY <1>0, <1>1, <1>3, <2>1 DEF Telegram!TypeOK, LinkUpdateSet
<1>5. Telegram!BatchIsKept'
  <2>1. v4.last \in Nat /\ v3 \in Nat
    BY <1>0, WorkspaceAssumption DEF Telegram!TypeOK
  <2>2. v4.last <= Len(updates') /\ v3 <= Len(updates')
    BY <1>0, <1>3, <2>1 DEF Telegram!BatchIsKept
  <2>3. \A i \in 1..LinkUpdates : v12[i] # {} => i <= Len(updates')
    <3>1. \A i \in 1..LinkUpdates : i <= Len(updates) => i <= Len(updates')
      BY <1>3
    <3> QED BY <1>0, <3>1 DEF Telegram!BatchIsKept
  <2> QED BY <1>0, <1>1, <2>2, <2>3 DEF Telegram!BatchIsKept
<1>6. v4.step # "next" => Telegram!Now' = Telegram!Now
  <2>1. v4.step # "next" => Telegram!At \in DOMAIN updates
    BY <1>0, AtWork
  <2> QED BY <1>1, <1>3, <2>1 DEF Telegram!Now, Telegram!At
<1>7. \A d : Telegram!LinkedBy(d)' = Telegram!LinkedBy(d)
  BY <1>1 DEF Telegram!LinkedBy
<1>8. Telegram!SpentFirst'
  BY <1>1, <1>6, <1>7 DEF Telegram!LinkInv, Telegram!SpentFirst
<1>9. Telegram!CodeLinksOnce' /\ Telegram!PlaceholderServed'
  BY <1>1, <1>7 DEF Telegram!LinkInv, Telegram!CodeLinksOnce, Telegram!PlaceholderServed
<1>10. Telegram!SpentCodeLinked'
  <2>1. \A d \in Codes \ v11 :
          v1[d] = "used" => Telegram!LinkedBy(d) # {} \/ (v4.step = "link" /\ Telegram!Now'.code = d)
    BY <1>6 DEF Telegram!LinkInv, Telegram!SpentCodeLinked
  <2>2. ASSUME NEW i \in DOMAIN updates', "welcome" \in v12[i]
        PROVE  \E j \in Telegram!LinkedBy(updates'[i].code) : v10[j][2] = updates'[i].chat
    <3>1. i \in 1..LinkUpdates
      BY <1>1, <1>3, WorkspaceAssumption
    <3>2. i \in DOMAIN updates
      BY <1>0, <1>3, <2>2, <3>1 DEF Telegram!BatchIsKept
    <3> QED BY <1>3, <2>2, <3>2 DEF Telegram!LinkInv, Telegram!SpentCodeLinked
  <2> QED BY <1>1, <1>7, <2>1, <2>2 DEF Telegram!SpentCodeLinked
<1> QED BY <1>1, <1>4, <1>5, <1>8, <1>9, <1>10 DEF Telegram!LinkInv

\* Updates are fetched anew; a failure ends the one at work.
LEMMA TelegramPolls ==
  ASSUME Telegram!LinkInv, Telegram!Poll \/ Telegram!StepFails \/ Telegram!Restart
  PROVE  Telegram!LinkInv'
<1> DEFINE updates == v2  bot == v4
<1>0. /\ Telegram!TypeOK /\ Telegram!BatchIsKept /\ updates \in Seq(LinkUpdateSet)
      /\ bot \in LinkBots /\ Len(updates) \in Nat /\ Len(updates) <= LinkUpdates
  BY DEF Telegram!LinkInv, Telegram!TypeOK, LinkUpdateSet, LinkBots
<1>1. bot.offset \in Nat /\ bot.last \in Nat /\ v3 \in Nat /\ LinkUpdates \in Nat
      /\ bot.offset \in 0..(LinkUpdates + 1) /\ bot.last \in 0..LinkUpdates
  BY <1>0, WorkspaceAssumption DEF LinkBots, Telegram!TypeOK
<1>2. UNCHANGED <<v1, v2, v5, v6, v7, v8, v10, v12>>
  BY DEF Telegram!Poll, Telegram!StepFails, Telegram!Restart
<1>3. /\ bot' \in LinkBots /\ bot'.step = "next" /\ bot'.offset <= bot'.last + 1
      /\ bot'.last <= Len(updates) /\ v3' \in 0..LinkUpdates /\ v3' <= Len(updates)
  <2>1. CASE Telegram!Poll
    <3>1. PICK from \in {v3 + 1, bot.offset} :
            /\ from <= Len(updates) /\ v3' = from - 1 /\ from # 0
            /\ bot' = [offset |-> from, last |-> Len(updates), step |-> "next"]
      BY <1>1, <2>1 DEF Telegram!Poll
    <3>2. from \in Nat /\ from >= 1
      BY <1>1, <3>1
    <3>3. from \in 0..(LinkUpdates + 1) /\ Len(updates) \in 0..LinkUpdates /\ v3' \in 0..LinkUpdates
          /\ v3' <= Len(updates) /\ from <= Len(updates) + 1 /\ Len(updates) <= Len(updates)
      BY <1>0, <1>1, <3>1, <3>2
    <3>4. bot'.offset = from /\ bot'.last = Len(updates) /\ bot'.step = "next"
      BY <3>1
    <3>5. bot' \in LinkBots
      BY <3>1, <3>3 DEF LinkBots, Telegram!Steps
    <3> QED BY <3>3, <3>4, <3>5
  <2>2. CASE Telegram!StepFails
    <3> DEFINE o == IF bot.step = "next" THEN bot.offset + 1 ELSE bot.offset
    <3>1. bot' = [bot EXCEPT !.step = "next", !.offset = o] /\ v3' = v3
          /\ (bot.step # "next" \/ bot.offset \in 1..bot.last)
      BY <2>2 DEF Telegram!StepFails
    <3>2. o \in 0..(LinkUpdates + 1) /\ o <= bot.last + 1
      BY <1>0, <1>1, <3>1 DEF Telegram!BatchIsKept
    <3> HIDE DEF o
    <3>3. bot' \in LinkBots /\ bot'.step = "next" /\ bot'.offset = o /\ bot'.last = bot.last
      BY <1>0, <3>1, <3>2 DEF LinkBots, Telegram!Steps
    <3> QED BY <1>0, <3>1, <3>2, <3>3 DEF Telegram!BatchIsKept, Telegram!TypeOK
  <2>3. CASE Telegram!Restart
    <3>1. bot' = Telegram!Started /\ v3' = v3
      BY <2>3 DEF Telegram!Restart
    <3>2. bot' \in LinkBots /\ bot'.step = "next" /\ bot'.offset = 0 /\ bot'.last = 0
      BY <3>1, WorkspaceAssumption DEF Telegram!Started, LinkBots, Telegram!Steps
    <3> QED BY <1>0, <3>1, <3>2 DEF Telegram!BatchIsKept, Telegram!TypeOK
  <2> QED BY <2>1, <2>2, <2>3
<1>4. /\ v11 \subseteq v11' /\ v11' \subseteq Codes /\ v9' \in 0..LinkFailures
      /\ bot.step = "link" => Telegram!Now.code \in v11'
      /\ bot.step = "repoint" => v11' # {}
  <2>1. bot.step # "next" => Telegram!Now.code \in Codes
    BY <1>0, AtWork
  <2>2. v11 \subseteq Codes /\ v9 \in 0..LinkFailures
    BY <1>0 DEF Telegram!TypeOK
  <2>3. CASE Telegram!Poll
    BY <2>2, <2>3 DEF Telegram!Poll
  <2>4. CASE Telegram!StepFails \/ Telegram!Restart
    <3>1. v11' = Telegram!CutShort /\ v9 < LinkFailures /\ v9' = v9 + 1
      BY <2>4 DEF Telegram!StepFails, Telegram!Restart
    <3>2. v9' \in 0..LinkFailures
      BY <2>2, <3>1, WorkspaceAssumption
    <3> QED BY <2>1, <2>2, <3>1, <3>2 DEF Telegram!CutShort
  <2> QED BY <2>3, <2>4
<1>5. Telegram!TypeOK'
  BY <1>0, <1>2, <1>3, <1>4 DEF Telegram!TypeOK, LinkBots
<1>6. Telegram!BatchIsKept'
  BY <1>0, <1>2, <1>3 DEF Telegram!BatchIsKept
<1>7. Telegram!SpentFirst' /\ Telegram!CodeLinksOnce' /\ Telegram!SpentCodeLinked'
  BY <1>2, <1>3, <1>4, CodesKept
<1>8. Telegram!PlaceholderServed'
  BY <1>2, <1>4 DEF Telegram!LinkInv, Telegram!PlaceholderServed
<1> QED BY <1>2, <1>5, <1>6, <1>7, <1>8 DEF Telegram!LinkInv

\* A live code is spent, and the update is the one at work.
LEMMA TelegramRedeems ==
  ASSUME Telegram!LinkInv, Telegram!Redeem PROVE Telegram!LinkInv'
<1> DEFINE code == v1  updates == v2  bot == v4  c == updates[bot.offset].code
           step == IF Telegram!Redeemable(c) THEN "link" ELSE "refuse"
           o == bot.offset + 1
<1>0. /\ Telegram!TypeOK /\ Telegram!BatchIsKept /\ updates \in Seq(LinkUpdateSet)
      /\ bot \in LinkBots /\ Len(updates) \in Nat /\ Len(updates) <= LinkUpdates
      /\ code \in [Codes -> Telegram!States]
  BY DEF Telegram!LinkInv, Telegram!TypeOK, LinkUpdateSet, LinkBots
<1>1. bot.offset \in Nat /\ bot.last \in Nat /\ LinkUpdates \in Nat /\ bot.last \in 0..LinkUpdates
      /\ bot.last <= Len(updates)
  BY <1>0, WorkspaceAssumption DEF LinkBots, Telegram!BatchIsKept
<1>2. /\ UNCHANGED <<v2, v3, v5, v6, v7, v8, v9, v10, v11, v12>>
      /\ bot.step = "next" /\ bot.offset \in 1..bot.last
      /\ bot' = [bot EXCEPT !.offset = o, !.step = step]
      /\ code' = IF Telegram!Redeemable(c) THEN [code EXCEPT ![c] = "used"] ELSE code
  BY DEF Telegram!Redeem
<1>3. bot.offset \in DOMAIN updates /\ c \in Codes
  <2>1. bot.offset \in DOMAIN updates
    BY <1>0, <1>1, <1>2
  <2> QED BY <1>0, <2>1, UpdateIs
<1>4. /\ bot' \in LinkBots /\ bot'.step = step /\ bot'.offset = o /\ bot'.last = bot.last
      /\ step \in {"link", "refuse"}
  <2>1. o \in 0..(LinkUpdates + 1)
    BY <1>1, <1>2
  <2> HIDE DEF o
  <2>2. step \in {"link", "refuse"} /\ step \in Telegram!Steps
    BY DEF Telegram!Steps
  <2> HIDE DEF step
  <2> QED BY <1>0, <1>2, <2>1, <2>2 DEF LinkBots
<1>5. Telegram!Now' = updates[bot.offset]
  <2>1. o - 1 = bot.offset
    BY <1>1
  <2> QED BY <1>2, <1>4, <2>1 DEF Telegram!Now, Telegram!At
<1>6. /\ code' \in [Codes -> Telegram!States] /\ (step = "link" => code[c] = "live" /\ code'[c] = "used")
      /\ step # "link" => code' = code
      /\ \A d \in Codes : code[d] = "used" => code'[d] = "used"
      /\ \A d \in Codes : code'[d] = "used" => code[d] = "used" \/ (d = c /\ step = "link")
  BY <1>0, <1>2, <1>3 DEF Telegram!Redeemable, Telegram!States
<1>7. o >= 2 /\ o <= bot.last + 1
  BY <1>1, <1>2
<1> HIDE DEF step, o, c
<1>8. Telegram!TypeOK'
  BY <1>0, <1>2, <1>4, <1>6 DEF Telegram!TypeOK, LinkBots
<1>9. Telegram!BatchIsKept'
  BY <1>0, <1>2, <1>4, <1>7 DEF Telegram!BatchIsKept
<1>10. \A d : Telegram!LinkedBy(d)' = Telegram!LinkedBy(d)
  BY <1>2 DEF Telegram!LinkedBy
<1>11. Telegram!Now'.code = c
  BY <1>5 DEF c
<1>12. Telegram!SpentFirst'
  <2>1. \A d \in Codes : Telegram!LinkedBy(d) # {} => code[d] = "used"
    BY DEF Telegram!LinkInv, Telegram!SpentFirst
  <2>2. step = "link" => Telegram!LinkedBy(c) = {}
    BY <1>3, <1>6, <2>1
  <2> QED BY <1>4, <1>6, <1>10, <1>11, <2>1, <2>2 DEF Telegram!SpentFirst
<1>13. Telegram!CodeLinksOnce'
  BY <1>2, <1>10 DEF Telegram!LinkInv, Telegram!CodeLinksOnce
<1>14. Telegram!SpentCodeLinked'
  <2>1. \A d \in Codes \ v11 : code[d] = "used" => Telegram!LinkedBy(d) # {}
    BY <1>2 DEF Telegram!LinkInv, Telegram!SpentCodeLinked
  <2>2. \A i \in DOMAIN updates : "welcome" \in v12[i] =>
          \E j \in Telegram!LinkedBy(updates[i].code) : v10[j][2] = updates[i].chat
    BY DEF Telegram!LinkInv, Telegram!SpentCodeLinked
  <2> QED BY <1>2, <1>4, <1>6, <1>10, <1>11, <2>1, <2>2 DEF Telegram!SpentCodeLinked
<1>15. Telegram!PlaceholderServed'
  BY <1>2, <1>4 DEF Telegram!LinkInv, Telegram!PlaceholderServed
<1> QED BY <1>2, <1>8, <1>9, <1>12, <1>13, <1>14, <1>15 DEF Telegram!LinkInv

\* The chat is recorded for the code at work, which had linked none.
LEMMA TelegramLinksChat ==
  ASSUME Telegram!LinkInv, Telegram!Link PROVE Telegram!LinkInv'
<1> DEFINE updates == v2  bot == v4  linked == v10  now == Telegram!Now
           new == <<now.code, now.chat>>
<1>0. /\ Telegram!TypeOK /\ Telegram!BatchIsKept /\ bot \in LinkBots
      /\ linked \in Seq(Codes \X Pair) /\ v5 \in [Pair -> Nat]
  BY DEF Telegram!LinkInv, Telegram!TypeOK, LinkBots
<1>1. /\ UNCHANGED <<v1, v2, v3, v6, v7, v8, v9, v11, v12>> /\ bot.step = "link"
      /\ v5' = [v5 EXCEPT ![now.chat] = Len(linked) + 1]
      /\ linked' = Append(linked, new) /\ bot' = [bot EXCEPT !.step = "repoint"]
  BY DEF Telegram!Link, Telegram!GoTo
<1>2. now.code \in Codes /\ now.chat \in Pair
  BY <1>0, <1>1, AtWork
<1>3. bot' \in LinkBots /\ bot'.step = "repoint" /\ bot'.offset = bot.offset /\ bot'.last = bot.last
  BY <1>0, <1>1 DEF LinkBots, Telegram!Steps
<1>4. Telegram!Now' = now
  BY <1>1, <1>3 DEF Telegram!Now, Telegram!At
<1>5. new \in Codes \X Pair /\ new[1] = now.code /\ new[2] = now.chat
  BY <1>2
<1> HIDE DEF new
<1>6. /\ linked' \in Seq(Codes \X Pair) /\ Len(linked') = Len(linked) + 1 /\ Len(linked) \in Nat
      /\ linked'[Len(linked')] = new /\ \A i \in DOMAIN linked : linked'[i] = linked[i]
      /\ DOMAIN linked = 1..Len(linked) /\ DOMAIN linked' = 1..(Len(linked) + 1)
  BY <1>0, <1>1, <1>5, AppendProperties
<1>7. /\ DOMAIN linked' = DOMAIN linked \cup {Len(linked')} /\ Len(linked') \notin DOMAIN linked
      /\ linked' # <<>>
  BY <1>6
<1>8. v5' \in [Pair -> Nat] /\ \A chat \in Pair : v5'[chat] # 0 => v5[chat] # 0 \/ chat = now.chat
  BY <1>0, <1>1, <1>2, <1>6
<1> HIDE DEF now
<1>9. PICK code \in Codes, chat0 \in Pair : code = now.code /\ chat0 = now.chat
  BY <1>2
<1> DEFINE last == Len(linked')
<1>10. last \in Telegram!LinkedBy(code)' /\ linked'[last][2] = chat0
  <2>1. linked'[last][1] = code /\ linked'[last][2] = chat0 /\ last \in DOMAIN linked'
    BY <1>9, <1>5, <1>6, <1>7
  <2> QED BY <2>1 DEF Telegram!LinkedBy
<1>11. ASSUME NEW d \in Codes, NEW j \in Telegram!LinkedBy(d)
       PROVE  j \in Telegram!LinkedBy(d)' /\ linked'[j] = linked[j]
  <2>1. j \in DOMAIN linked /\ linked[j][1] = d
    BY DEF Telegram!LinkedBy
  <2>2. j \in DOMAIN linked' /\ linked'[j] = linked[j]
    BY <1>6, <1>7, <2>1
  <2> QED BY <2>1, <2>2 DEF Telegram!LinkedBy
<1>12. ASSUME NEW d \in Codes, NEW j \in Telegram!LinkedBy(d)'
       PROVE  j \in Telegram!LinkedBy(d) \/ (j = last /\ d = code)
  <2>1. j \in DOMAIN linked' /\ linked'[j][1] = d
    BY DEF Telegram!LinkedBy
  <2>2. CASE j \in DOMAIN linked
    <3>1. linked[j][1] = d
      BY <1>6, <2>1, <2>2
    <3> QED BY <2>2, <3>1 DEF Telegram!LinkedBy
  <2>3. CASE j = last
    BY <1>9, <1>5, <1>6, <2>1, <2>3
  <2> QED BY <1>7, <2>1, <2>2, <2>3
<1> HIDE DEF last
<1>13. Telegram!LinkedBy(code) = {} /\ v1[code] = "used"
  BY <1>1, <1>9 DEF Telegram!LinkInv, Telegram!SpentFirst, now
<1>14. Telegram!TypeOK'
  BY <1>0, <1>1, <1>3, <1>6, <1>8 DEF Telegram!TypeOK, LinkBots
<1>15. Telegram!BatchIsKept'
  BY <1>0, <1>1, <1>3 DEF Telegram!BatchIsKept
<1>16. Telegram!SpentFirst'
  <2>1. ASSUME NEW d \in Codes, Telegram!LinkedBy(d)' # {} PROVE v1[d] = "used"
    <3>1. Telegram!LinkedBy(d) # {} \/ d = code
      BY <1>12, <2>1
    <3> QED BY <1>13, <3>1 DEF Telegram!LinkInv, Telegram!SpentFirst
  <2>2. \E j \in Telegram!LinkedBy(code)' : linked'[j][2] = chat0
    BY <1>10
  <2> QED BY <1>1, <1>3, <1>4, <1>9, <2>1, <2>2 DEF Telegram!SpentFirst
<1>17. Telegram!CodeLinksOnce'
  <2>1. ASSUME NEW d \in Codes, NEW i \in Telegram!LinkedBy(d)', NEW j \in Telegram!LinkedBy(d)'
        PROVE  i = j
    <3>1. i \in Telegram!LinkedBy(d) \/ (i = last /\ d = code)
      BY <1>12
    <3>2. j \in Telegram!LinkedBy(d) \/ (j = last /\ d = code)
      BY <1>12
    <3>3. CASE d = code
      BY <1>13, <3>1, <3>2, <3>3
    <3>4. CASE d # code
      BY <3>1, <3>2, <3>4 DEF Telegram!LinkInv, Telegram!CodeLinksOnce
    <3> QED BY <3>3, <3>4
  <2>2. ASSUME NEW chat \in Pair, v5'[chat] # 0
        PROVE  \E i \in DOMAIN linked' : linked'[i][2] = chat
    <3>1. CASE v5[chat] # 0
      <4>1. PICK i \in DOMAIN linked : linked[i][2] = chat
        BY <3>1 DEF Telegram!LinkInv, Telegram!CodeLinksOnce
      <4> QED BY <1>6, <1>7, <4>1
    <3>2. CASE chat = chat0
      BY <1>10, <3>2 DEF Telegram!LinkedBy
    <3> QED BY <1>9, <1>8, <2>2, <3>1, <3>2
  <2> QED BY <2>1, <2>2 DEF Telegram!CodeLinksOnce
<1>18. Telegram!SpentCodeLinked'
  <2>1. ASSUME NEW d \in Codes \ v11, v1[d] = "used" PROVE Telegram!LinkedBy(d)' # {}
    <3>1. Telegram!LinkedBy(d) # {} \/ d = code
      BY <1>9, <2>1 DEF Telegram!LinkInv, Telegram!SpentCodeLinked, now
    <3> QED BY <1>10, <1>11, <3>1
  <2>2. ASSUME NEW i \in DOMAIN updates, "welcome" \in v12[i]
        PROVE  \E j \in Telegram!LinkedBy(updates[i].code)' : linked'[j][2] = updates[i].chat
    <3>1. PICK d \in Codes : d = updates[i].code
      BY <1>0, UpdateIs DEF Telegram!TypeOK, LinkUpdateSet
    <3>2. PICK j \in Telegram!LinkedBy(d) : linked[j][2] = updates[i].chat
      BY <2>2, <3>1 DEF Telegram!LinkInv, Telegram!SpentCodeLinked
    <3>3. j \in Telegram!LinkedBy(d)' /\ linked'[j] = linked[j]
      BY <1>11, <3>1, <3>2
    <3> QED BY <1>1, <3>1, <3>2, <3>3
  <2> QED BY <1>1, <2>1, <2>2 DEF Telegram!SpentCodeLinked
<1>19. Telegram!PlaceholderServed'
  BY <1>3 DEF Telegram!PlaceholderServed
<1> QED BY <1>1, <1>14, <1>15, <1>16, <1>17, <1>18, <1>19 DEF Telegram!LinkInv

\* The profile is repointed: no placeholder is left.
LEMMA TelegramRepoints ==
  ASSUME Telegram!LinkInv, Telegram!Repoint PROVE Telegram!LinkInv'
<1> DEFINE bot == v4
<1>0. Telegram!TypeOK /\ Telegram!BatchIsKept /\ bot \in LinkBots /\ v6 \in Telegram!Targets
  BY DEF Telegram!LinkInv, Telegram!TypeOK, LinkBots
<1>1. /\ UNCHANGED <<v1, v2, v3, v5, v7, v8, v9, v10, v11, v12>> /\ bot.step = "repoint"
      /\ v6' = (IF v6 \in {"console", "typed"} THEN Telegram!Now.chat ELSE v6)
      /\ bot' = [bot EXCEPT !.step = "welcome"]
  BY DEF Telegram!Repoint, Telegram!GoTo
<1>2. bot' \in LinkBots /\ bot'.step = "welcome" /\ bot'.offset = bot.offset /\ bot'.last = bot.last
  BY <1>0, <1>1 DEF LinkBots, Telegram!Steps
<1>3. v6' \in Telegram!Targets /\ v6' # "console"
  <2>1. Telegram!Now.chat \in Pair
    BY <1>0, <1>1, AtWork
  <2> QED BY <1>0, <1>1, <2>1, WorkspaceAssumption DEF Telegram!Targets
<1>4. Telegram!TypeOK'
  BY <1>0, <1>1, <1>2, <1>3 DEF Telegram!TypeOK, LinkBots
<1>5. Telegram!BatchIsKept'
  BY <1>0, <1>1, <1>2 DEF Telegram!BatchIsKept
<1>6. Telegram!SpentFirst' /\ Telegram!CodeLinksOnce' /\ Telegram!SpentCodeLinked'
  BY <1>1, <1>2, CodesKept
<1>7. Telegram!PlaceholderServed'
  BY <1>3 DEF Telegram!PlaceholderServed
<1> QED BY <1>1, <1>4, <1>5, <1>6, <1>7 DEF Telegram!LinkInv

\* The answer to the update at work; only one that was linked is welcomed.
LEMMA TelegramAnswers ==
  ASSUME Telegram!LinkInv, Telegram!Answer PROVE Telegram!LinkInv'
<1> DEFINE updates == v2  bot == v4  told == v12  at == Telegram!At
           r == [bot EXCEPT !.step = "next"]
<1>0. /\ Telegram!TypeOK /\ Telegram!BatchIsKept /\ bot \in LinkBots
      /\ told \in [1..LinkUpdates -> SUBSET {"welcome", "refuse"}]
  BY DEF Telegram!LinkInv, Telegram!TypeOK, LinkBots
<1>1. /\ UNCHANGED <<v1, v2, v3, v5, v6, v7, v8, v9, v10, v11>> /\ bot.step \in {"welcome", "refuse"}
      /\ told' = [told EXCEPT ![at] = @ \cup {bot.step}] /\ bot' = r
  BY DEF Telegram!Answer, Telegram!GoTo
<1>2. r \in LinkBots /\ r.step = "next" /\ r.offset = bot.offset /\ r.last = bot.last
  BY <1>0 DEF LinkBots, Telegram!Steps
<1> HIDE DEF r
<1>3. at \in DOMAIN updates /\ at \in 1..LinkUpdates /\ updates \in Seq(LinkUpdateSet)
  BY <1>0, <1>1, AtWork DEF Telegram!TypeOK, LinkUpdateSet
<1>4. Telegram!Now = updates[at]
  BY DEF Telegram!Now
<1> HIDE DEF at
<1>5. /\ told' \in [1..LinkUpdates -> SUBSET {"welcome", "refuse"}]
      /\ told'[at] = told[at] \cup {bot.step} /\ \A i \in 1..LinkUpdates : i # at => told'[i] = told[i]
  BY <1>0, <1>1, <1>3
<1>6. Telegram!TypeOK'
  BY <1>0, <1>1, <1>2, <1>5 DEF Telegram!TypeOK, LinkBots
<1>7. Telegram!BatchIsKept'
  <2>1. at <= Len(updates)
    BY <1>3
  <2> QED BY <1>0, <1>1, <1>2, <1>5, <2>1 DEF Telegram!BatchIsKept
<1>8. \A c : Telegram!LinkedBy(c)' = Telegram!LinkedBy(c)
  BY <1>1 DEF Telegram!LinkedBy
<1>9. Telegram!SpentFirst'
  BY <1>1, <1>2, <1>8 DEF Telegram!LinkInv, Telegram!SpentFirst
<1>10. Telegram!CodeLinksOnce'
  BY <1>1, <1>8 DEF Telegram!LinkInv, Telegram!CodeLinksOnce
<1>11. Telegram!SpentCodeLinked'
  <2>1. ASSUME NEW c \in Codes \ v11, v1[c] = "used" PROVE Telegram!LinkedBy(c) # {}
    BY <1>1, <2>1 DEF Telegram!LinkInv, Telegram!SpentCodeLinked
  <2>2. ASSUME NEW i \in DOMAIN updates, "welcome" \in told'[i]
        PROVE  \E j \in Telegram!LinkedBy(updates[i].code) : v10[j][2] = updates[i].chat
    <3>1. CASE "welcome" \in told[i]
      BY <3>1 DEF Telegram!LinkInv, Telegram!SpentCodeLinked
    <3>2. CASE "welcome" \notin told[i]
      <4>1. i \in 1..LinkUpdates
        BY <1>0, <1>3, WorkspaceAssumption DEF Telegram!TypeOK
      <4>2. i = at /\ bot.step = "welcome"
        BY <1>1, <1>5, <2>2, <3>2, <4>1
      <4> QED BY <1>4, <4>2 DEF Telegram!LinkInv, Telegram!SpentFirst
    <3> QED BY <3>1, <3>2
  <2> QED BY <1>1, <1>8, <2>1, <2>2 DEF Telegram!SpentCodeLinked
<1>12. Telegram!PlaceholderServed'
  BY <1>1 DEF Telegram!LinkInv, Telegram!PlaceholderServed
<1> QED BY <1>1, <1>6, <1>7, <1>9, <1>10, <1>11, <1>12 DEF Telegram!LinkInv

LEMMA TelegramStep ==
  ASSUME Telegram!LinkInv, [Telegram!Next]_(Telegram!vars) PROVE Telegram!LinkInv'
BY TelegramConsole, TelegramPress, TelegramPolls, TelegramRedeems, TelegramLinksChat,
   TelegramRepoints, TelegramAnswers DEF Telegram!Next

-----------------------------------------------------------------------------
(***************************************************************************)
(* The workspace: a step is one of the component that focus names, or      *)
(* leaves that component's variables alone.                                *)
(***************************************************************************)
\* The invariant of the component at work.
WorkspaceInv ==
  /\ focus = "pipeline" => Pipeline!LadderInv
  /\ focus = "scenarios" => Scenarios!HeadInv
  /\ focus = "accuracy" => Accuracy!ScoreInv
  /\ focus = "digest" => Digest!DigestInv
  /\ focus = "deadlines" => Deadlines!DeadlineInv
  /\ focus = "milestones" => Milestones!MilestoneInv
  /\ focus = "desk" => Desk!DeskInv
  /\ focus = "fit" => Fit!FitInv
  /\ focus = "telegram" => Telegram!LinkInv

LEMMA WorkspaceInit == ASSUME Init PROVE WorkspaceInv
<1>1. focus = "pipeline" => Pipeline!LadderInv
  BY LadderInit DEF Init
<1>2. focus = "scenarios" => Scenarios!HeadInv
  BY ScenariosInit DEF Init
<1>3. focus = "accuracy" => Accuracy!ScoreInv
  BY AccuracyInit DEF Init
<1>4. focus = "digest" => Digest!DigestInv
  BY DigestInit DEF Init
<1>5. focus = "deadlines" => Deadlines!DeadlineInv
  BY DeadlineInit DEF Init
<1>6. focus = "milestones" => Milestones!MilestoneInv
  BY MilestoneInit DEF Init
<1>7. focus = "desk" => Desk!DeskInv
  BY DeskInit DEF Init
<1>8. focus = "fit" => Fit!FitInv
  BY FitInit DEF Init
<1>9. focus = "telegram" => Telegram!LinkInv
  BY TelegramInit DEF Init
<1> QED BY <1>1, <1>2, <1>3, <1>4, <1>5, <1>6, <1>7, <1>8, <1>9 DEF WorkspaceInv

LEMMA WorkspaceStep == ASSUME WorkspaceInv, [Next]_vars PROVE WorkspaceInv'
<1>0. focus' = focus
  BY DEF Next, vars
<1>1. ASSUME focus = "pipeline" PROVE Pipeline!LadderInv'
  <2>1. [Pipeline!Next]_(Pipeline!vars)
    BY <1>1 DEF Next, vars, slots, Pipeline!vars
  <2> QED BY <1>1, <2>1, LadderStep DEF WorkspaceInv
<1>2. ASSUME focus = "scenarios" PROVE Scenarios!HeadInv'
  <2>1. [Scenarios!Next]_(Scenarios!vars)
    BY <1>2 DEF Next, vars, slots, Scenarios!vars
  <2> QED BY <1>2, <2>1, ScenariosStep DEF WorkspaceInv
<1>3. ASSUME focus = "accuracy" PROVE Accuracy!ScoreInv'
  <2>1. [Accuracy!Next]_(Accuracy!vars)
    BY <1>3 DEF Next, vars, slots, Accuracy!vars
  <2> QED BY <1>3, <2>1, AccuracyStep DEF WorkspaceInv
<1>4. ASSUME focus = "digest" PROVE Digest!DigestInv'
  <2>1. [Digest!Next]_(Digest!vars)
    BY <1>4 DEF Next, vars, slots, Digest!vars
  <2> QED BY <1>4, <2>1, DigestStep DEF WorkspaceInv
<1>5. ASSUME focus = "deadlines" PROVE Deadlines!DeadlineInv'
  <2>1. [Deadlines!Next]_(Deadlines!vars)
    BY <1>5 DEF Next, vars, slots, Deadlines!vars
  <2> QED BY <1>5, <2>1, DeadlineStep DEF WorkspaceInv
<1>6. ASSUME focus = "milestones" PROVE Milestones!MilestoneInv'
  <2>1. [Milestones!Next]_(Milestones!vars)
    BY <1>6 DEF Next, vars, slots, Milestones!vars
  <2> QED BY <1>6, <2>1, MilestoneStep DEF WorkspaceInv
<1>7. ASSUME focus = "desk" PROVE Desk!DeskInv'
  <2>1. [Desk!Next]_(Desk!vars)
    BY <1>7 DEF Next, vars, slots, Desk!vars
  <2> QED BY <1>7, <2>1, DeskStep DEF WorkspaceInv
<1>8. ASSUME focus = "fit" PROVE Fit!FitInv'
  <2>1. [Fit!Next]_(Fit!vars)
    BY <1>8 DEF Next, vars, slots, Fit!vars
  <2> QED BY <1>8, <2>1, FitStep DEF WorkspaceInv
<1>9. ASSUME focus = "telegram" PROVE Telegram!LinkInv'
  <2>1. [Telegram!Next]_(Telegram!vars)
    BY <1>9 DEF Next, vars, slots, Telegram!vars
  <2> QED BY <1>9, <2>1, TelegramStep DEF WorkspaceInv
<1> QED BY <1>0, <1>1, <1>2, <1>3, <1>4, <1>5, <1>6, <1>7, <1>8, <1>9 DEF WorkspaceInv

\* In every reachable state of the workspace the component at work keeps its invariant, whatever
\* its bounds and however many requests, runs, tenants or codes there are.
THEOREM WorkspaceIsInvariant == Spec => []WorkspaceInv
BY WorkspaceInit, WorkspaceStep, PTL DEF Spec

\* The variables of the component at work keep their types.
THEOREM WorkspaceTypes == Spec => []TypeOK
<1>1. WorkspaceInv => TypeOK
  BY DEF WorkspaceInv, TypeOK, Pipeline!LadderInv, Scenarios!HeadInv, Accuracy!ScoreInv,
     Digest!DigestInv, Deadlines!DeadlineInv, Milestones!MilestoneInv, Desk!DeskInv, Fit!FitInv,
     Telegram!LinkInv
<1> QED BY <1>1, WorkspaceIsInvariant, PTL

\* A capability level is served only when the stages below it delivered and none of those it
\* rests on failed, and a tender is called compliant only on a page that was fetched
\* (orchestrator.py, fit_score.py, eligibility_enrich.py).
THEOREM LevelsAreEarned == Spec => []LadderIsEarned
<1>1. WorkspaceInv => LadderIsEarned
  BY FitHolds DEF WorkspaceInv, LadderIsEarned, Pipeline!LadderInv
<1> QED BY <1>1, WorkspaceIsInvariant, PTL

\* At most one scenario of a tender is current, unless creations overlapped or failed and
\* none has completed since (app.py).
THEOREM HeadIsUnique == Spec => []OneHead
<1>1. WorkspaceInv => OneHead
  BY ScenariosHead DEF WorkspaceInv, OneHead
<1> QED BY <1>1, WorkspaceIsInvariant, PTL

\* What the scorecard counts is older than the first sight of its award, and a tender counts
\* once, whatever moves the opening and whichever runs overlap (prediction_clock.py, 0019).
THEOREM ScorecardIsBlind == Spec => []AccuracyIsBlind
<1>1. WorkspaceInv => AccuracyIsBlind
  BY AccuracyHolds DEF WorkspaceInv, AccuracyIsBlind
<1> QED BY <1>1, WorkspaceIsInvariant, PTL

\* A pursuit has one price baseline and at most one more for each selection that overlapped a
\* seeding of it, and an outcome that measures leaves out no simulation committed before it was
\* reported, however the job, requests, failures and awards interleave (pricing_seed.py, app.py).
THEOREM OutcomesMeasure == Spec => []DeskIsMeasured
<1>1. WorkspaceInv => DeskIsMeasured
  BY DeskHolds DEF WorkspaceInv, DeskIsMeasured
<1> QED BY <1>1, WorkspaceIsInvariant, PTL

\* A digest, a deadline and a milestone reach their reader in one message and are recorded as
\* sent only once they have; a code links one chat, once, and the profile that waits for a chat
\* gets it (digest.py, reminders.py, milestone_reminders.py, telegram.py).
THEOREM RemindersReach == Spec => []RemindersReachOnce
<1>1. WorkspaceInv => RemindersReachOnce
  BY DigestHolds, DeadlineHolds
     DEF WorkspaceInv, RemindersReachOnce, Milestones!MilestoneInv, Telegram!LinkInv
<1> QED BY <1>1, WorkspaceIsInvariant, PTL
=============================================================================
