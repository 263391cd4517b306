----------------------------- MODULE PriceToWin -----------------------------
(***************************************************************************)
(* p2w/orchestrator.py: one call of scenario_simulation, and inside it     *)
(* tender_intelligence: retrieval, market band, field of competitors,      *)
(* explanation, then the scenario row, the win curve, the optimizer and    *)
(* the prediction row.  Every stage may fail; a failure is recorded with a *)
(* ceiling on the capability level and the call goes on.                   *)
(***************************************************************************)
EXTENDS Naturals, FiniteSets, FiniteSetsExt

CONSTANTS
  Competitors    \* vendors that candidate_bidders may return

VARIABLES
  stage,      \* what the call does next
  ask,        \* of the call: is there a bid to test, is the target win rate legal
  caps,       \* degradations: stage and ceiling
  market,     \* "none" yet, "priced", "suppressed"
  field,      \* competitor: is its participation stated, its price and price's tier
  level,      \* capability level, 0 to 4
  row,        \* the scenario row: "none", "written", "lost"
  curve,      \* a win-probability curve exists
  result,     \* the optimizer's: "none", "bid", "infeasible"
  tested,     \* the bid to test: "none", "simulated", "no field"
  answer      \* what the caller gets

vars == <<stage, ask, caps, market, field, level, row, curve, result, tested, answer>>

Stages == {"similarity", "market", "participation", "competitor", "explanation",
           "scenario", "simulation", "optimizer", "persistence", "proposed", "done", "raised"}
Ceilings == 0..4
Asked == [bid : BOOLEAN, target : BOOLEAN]
Candidate == [stated : BOOLEAN, price : {"waiting", "suppressed", "A", "B"}]
NoAnswer == [level |-> 0, prediction |-> "none", why |-> "none"]

Init ==
  /\ stage = "similarity"
  /\ ask \in Asked
  /\ caps = {}
  /\ market = "none"
  /\ field = [c \in {} |-> {}]
  /\ level = 0
  /\ row = "none" /\ curve = FALSE /\ result = "none" /\ tested = "none"
  /\ answer = NoAnswer

Degraded(at, ceiling) == caps' = caps \cup {[stage |-> at, ceiling |-> ceiling]}
Capped == Min({level} \cup {d.ceiling : d \in caps})
Priced == {c \in DOMAIN field : field[c].price \in {"A", "B"}}
\* build_competitor_draws: both a probability and a price, nothing made up.
Drawn == {c \in Priced : field[c].stated}

(***************************************************************************)
(* tender_intelligence.                                                    *)
(***************************************************************************)
FindSimilar(ok) ==
  /\ stage = "similarity"
  /\ stage' = "market"
  /\ IF ok THEN UNCHANGED caps ELSE Degraded("similarity", 0)
  /\ UNCHANGED <<ask, market, field, level, row, curve, result, tested, answer>>

\* Without comparables the market model retrieves them once more itself.
MarketQuantiles(outcome) ==
  /\ stage = "market"
  /\ market' = IF outcome = "failed" THEN "suppressed" ELSE outcome
  /\ IF outcome = "failed" THEN Degraded("market", 0) ELSE UNCHANGED caps
  /\ level' = IF outcome = "priced" THEN 1 ELSE 0
  /\ stage' = IF outcome = "priced" THEN "participation" ELSE "explanation"
  /\ UNCHANGED <<ask, field, row, curve, result, tested, answer>>

\* candidate_bidders: the vendors, some with a probability.
CandidateBidders(found, stated) ==
  /\ stage = "participation"
  /\ stated \subseteq found
  /\ field' = [c \in found |-> [stated |-> c \in stated, price |-> "waiting"]]
  /\ stage' = IF found = {} THEN "explanation" ELSE "competitor"
  /\ UNCHANGED <<ask, caps, market, level, row, curve, result, tested, answer>>

CandidatesFail ==
  /\ stage = "participation"
  /\ Degraded("participation", 1)
  /\ stage' = "explanation"
  /\ UNCHANGED <<ask, market, field, level, row, curve, result, tested, answer>>

\* Mutant: every rung would be one too high.
Earned_OneUp(stated, price) ==
  CASE price \in {"A", "B"} -> 4 [] price = "suppressed" /\ stated -> 3 [] OTHER -> 1

\* _competitor_field: a probability is worth level 2, a price 3, one of tier A 4.
Earned(stated, price) ==
  CASE price = "A" -> 4 [] price = "B" -> 3
    [] price = "suppressed" /\ stated -> 2 [] OTHER -> 1

Waiting == {c \in DOMAIN field : field[c].price = "waiting"}
CompetitorQuantiles(c, outcome) ==
  /\ stage = "competitor"
  /\ c \in Waiting
  /\ LET price == IF outcome = "failed" THEN "suppressed" ELSE outcome IN
     /\ field' = [field EXCEPT ![c].price = price]
     /\ level' = Max({level, Earned(field[c].stated, price)})
  /\ IF outcome = "failed" THEN Degraded("competitor", 2) ELSE UNCHANGED caps
  /\ stage' = IF Waiting = {c} THEN "explanation" ELSE "competitor"
  /\ UNCHANGED <<ask, market, row, curve, result, tested, answer>>

\* The level is capped here; a failed explanation is recorded afterwards.
BuildExplanation(ok) ==
  /\ stage = "explanation"
  /\ level' = Capped
  /\ IF ok THEN UNCHANGED caps ELSE Degraded("explanation", 4)
  /\ stage' = "scenario"
  /\ UNCHANGED <<ask, market, field, row, curve, result, tested, answer>>

(***************************************************************************)
(* scenario_simulation.                                                    *)
(***************************************************************************)
\* persist_scenario, as far as this call sees it.
PersistScenario(ok) ==
  /\ stage = "scenario"
  /\ row' = IF ok THEN "written" ELSE "lost"
  /\ IF ok THEN UNCHANGED caps ELSE Degraded("persistence", 4)
  /\ stage' = IF market = "priced" /\ Drawn # {} THEN "simulation" ELSE "persistence"
  /\ UNCHANGED <<ask, market, field, level, curve, result, tested, answer>>

\* The constraints are built outside every handler: an illegal target raises.
WinProbabilityCurve(ok) ==
  /\ stage = "simulation"
  /\ curve' = ok
  /\ IF ok THEN UNCHANGED caps ELSE Degraded("simulation", 1)
  /\ stage' = IF ~ask.target THEN "raised" ELSE IF ok THEN "optimizer" ELSE "persistence"
  /\ UNCHANGED <<ask, market, field, level, row, result, tested, answer>>

Optimize(outcome) ==
  /\ stage = "optimizer"
  /\ result' = IF outcome = "failed" THEN "none" ELSE outcome
  /\ IF outcome = "failed" THEN Degraded("optimizer", 1) ELSE UNCHANGED caps
  /\ stage' = "persistence"
  /\ UNCHANGED <<ask, market, field, level, row, curve, tested, answer>>

PersistPrediction(ok) ==
  /\ stage = "persistence"
  /\ IF ok THEN UNCHANGED caps ELSE Degraded("persistence", 4)
  /\ stage' = "proposed"
  /\ UNCHANGED <<ask, market, field, level, row, curve, result, tested, answer>>

\* Why nothing is predicted: the first reason in the order of the code.
Why ==
  CASE market # "priced" -> "market"
    [] market = "priced" /\ Drawn = {} -> "INSUFFICIENT_EVIDENCE"
    [] market = "priced" /\ Drawn # {} /\ result = "none" -> "MODEL_UNAVAILABLE"
    [] market = "priced" /\ Drawn # {} /\ result = "infeasible" -> "infeasible"
    [] OTHER -> "none"

\* The proposed bid, the last cap of the level, and the answer.
Answer(ok) ==
  /\ stage = "proposed"
  /\ tested' = IF ~ask.bid THEN "none" ELSE IF Drawn = {} THEN "no field"
               ELSE IF ok THEN "simulated" ELSE "none"
  /\ IF ask.bid /\ Drawn # {} /\ ~ok THEN Degraded("simulation", 4) ELSE UNCHANGED caps
  /\ answer' = [level |-> Capped, why |-> Why,
                prediction |-> IF Why = "none" THEN "numbers" ELSE "suppressed"]
  /\ stage' = "done"
  /\ UNCHANGED <<ask, market, field, level, row, curve, result>>

Next ==
  \/ \E ok \in BOOLEAN : \/ FindSimilar(ok) \/ BuildExplanation(ok) \/ PersistScenario(ok)
                         \/ WinProbabilityCurve(ok) \/ PersistPrediction(ok) \/ Answer(ok)
  \/ \E outcome \in {"priced", "suppressed", "failed"} : MarketQuantiles(outcome)
  \/ \E found, stated \in SUBSET Competitors : CandidateBidders(found, stated)
  \/ CandidatesFail
  \/ \E c \in Competitors, outcome \in {"A", "B", "suppressed", "failed"} :
       CompetitorQuantiles(c, outcome)
  \/ \E outcome \in {"bid", "infeasible", "failed"} : Optimize(outcome)

Spec == Init /\ [][Next]_vars

TypeOK ==
  /\ stage \in Stages /\ ask \in Asked
  /\ caps \subseteq [stage : Stages, ceiling : Ceilings]
  /\ market \in {"none", "priced", "suppressed"}
  /\ DOMAIN field \subseteq Competitors /\ \A c \in DOMAIN field : field[c] \in Candidate
  /\ level \in 0..4 /\ row \in {"none", "written", "lost"} /\ curve \in BOOLEAN
  /\ result \in {"none", "bid", "infeasible"}
  /\ tested \in {"none", "simulated", "no field"}
  /\ answer.level \in 0..4 /\ answer.prediction \in {"none", "numbers", "suppressed"}

(***************************************************************************)
(* Properties.                                                             *)
(***************************************************************************)
Failed(at) == \E d \in caps : d.stage = at

\* The level that is served was earned by what the call computed and by
\* nothing that failed: a market band for 1, a probability or a band of a
\* competitor for 2, a band for 3, a band of tier A for 4, with no failure of
\* the stages each of them rests on.  A level-2 claim need not hold for 3 (a
\* vendor without a stated probability can be priced).
LevelIsEarned ==
  stage = "done" =>
    /\ answer.level >= 1 => market = "priced" /\ ~Failed("similarity") /\ ~Failed("market")
    /\ answer.level >= 2 => /\ \E c \in DOMAIN field : field[c].stated \/ c \in Priced
                            /\ ~Failed("participation") /\ ~Failed("optimizer")
                            /\ Drawn # {} => curve
    /\ answer.level >= 3 => Priced # {} /\ ~Failed("competitor")
    /\ answer.level = 4 => \E c \in Priced : field[c].price = "A"

\* A recommended bid stands on a market band and on a field of competitors
\* that all have a probability and a price; without one the call still answers,
\* with a reason; and it is served at level 0 only when the retrieval failed
\* for the call and worked for the market model.
NumbersHaveAField ==
  stage = "done" =>
    /\ answer.prediction = "numbers" =>
         /\ market = "priced" /\ curve /\ result = "bid" /\ ask.target
         /\ Drawn # {} /\ \A c \in Drawn : field[c].stated /\ field[c].price \in {"A", "B"}
         /\ answer.level = 0 => Failed("similarity")
    /\ answer.prediction = "suppressed" <=> answer.why # "none"
    /\ tested = "simulated" => Drawn # {} /\ ask.bid

(***************************************************************************)
(* The inductive invariant behind both.                                    *)
(***************************************************************************)
\* Each failure caps the level below what its stage is worth.
CapsFit ==
  \A d \in caps :
    /\ d.stage \in {"similarity", "market"} => d.ceiling = 0
    /\ d.stage \in {"participation", "optimizer"} => d.ceiling = 1
    /\ d.stage = "competitor" => d.ceiling = 2
    /\ d.ceiling = 0 => d.stage \in {"similarity", "market"}

\* A level is worth what is in the field behind it.
Worth(claimed) ==
  /\ claimed >= 1 => market = "priced"
  /\ claimed >= 2 => \E c \in DOMAIN field : field[c].stated \/ c \in Priced
  /\ claimed >= 3 => Priced # {}
  /\ claimed = 4 => \E c \in Priced : field[c].price = "A"

\* What each stage finds when the call gets there.
Reached ==
  /\ stage \in {"similarity", "market"} => market = "none" /\ level = 0 /\ ~Failed("market")
  /\ stage \in {"participation", "competitor"} => market = "priced"
  /\ stage = "participation" => level <= 1
  /\ stage = "simulation" => market = "priced" /\ Drawn # {}
  /\ stage = "optimizer" => curve /\ ask.target
  /\ stage \in Stages \ {"persistence", "proposed", "done"} => result = "none"
  /\ result # "none" => curve /\ ask.target

\* A field without a curve is a failure that caps the level at 1; a priced
\* market is worth a level unless the retrieval failed.
NothingUnsaid ==
  /\ stage \in {"persistence", "proposed", "done"} /\ market = "priced" /\ Drawn # {} /\ ~curve =>
       \E d \in caps : d.stage = "simulation" /\ d.ceiling = 1
  /\ market = "priced" => ~Failed("market") /\ (level = 0 => Failed("similarity"))

LadderInv ==
  /\ TypeOK /\ CapsFit /\ Worth(level) /\ Reached /\ NothingUnsaid
  /\ LevelIsEarned /\ NumbersHaveAField
=============================================================================
