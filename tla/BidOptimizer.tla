---------------------------- MODULE BidOptimizer ----------------------------
(***************************************************************************)
(* The price of an operator's own bid (p2w/montecarlo.py, optimizer.py):   *)
(* scenarios of the competitors' behaviour are drawn once, every price of  *)
(* the grid is tried against the same scenarios, and the bid with the best *)
(* expected contribution that meets the operator's constraints is found    *)
(* exactly on the interpolated curve.                                      *)
(*                                                                         *)
(* Win probabilities are counted in credits: a certain win is worth Full.  *)
(* Prices between grid points and the slopes of the curve are fractions.   *)
(***************************************************************************)
EXTENDS Evidence, Functions

CONSTANTS
  Grid,         \* the price grid, a set of positive integers
  Rivals,       \* competitors
  Offers,       \* prices a competitor may draw
  Iterations,   \* scenarios drawn
  Costs, Margins, Floors, Targets, Reserves, Caps   \* the operator's inputs; 0: not given

VARIABLES
  stage,        \* "draw", "simulate", "optimize", "done"
  scenarios,    \* the draws so far
  curve,        \* credits by grid price
  proposed,     \* the simulation of the operator's proposed bid
  asked,        \* constraints of the optimization
  result        \* what it returned

vars == <<stage, scenarios, curve, proposed, asked, result>>

(***************************************************************************)
(* The sampler.  Who takes part, at what price, and who qualifies does not *)
(* depend on the operator's bid.                                           *)
(***************************************************************************)
Shares == FoldSet(LAMBDA k, n : k * n, 1, 1..(Cardinality(Rivals) + 1))
Full == Iterations * Shares

Draw == [bid : Offers, in : {TRUE}, ok : BOOLEAN] \cup [bid : {Max(Offers)}, in : {FALSE}, ok : {TRUE}]
Scenario == [rivals : [Rivals -> Draw], ok : BOOLEAN]
Qualified(s) == {r \in Rivals : s.rivals[r].in /\ s.rivals[r].ok}

\* Mutant: every tied bid would add a credit instead of sharing one.
WinCredit_Multiplied(s, bid) ==
  IF s.ok /\ \A r \in Qualified(s) : s.rivals[r].bid >= bid
  THEN Shares * (1 + Cardinality({r \in Qualified(s) : s.rivals[r].bid = bid}))
  ELSE 0

\* _win_credit: the lowest qualified bid wins, a tie is split evenly.
WinCredit(s, bid) ==
  IF s.ok /\ \A r \in Qualified(s) : s.rivals[r].bid >= bid
  THEN Shares \div (1 + Cardinality({r \in Qualified(s) : s.rivals[r].bid = bid}))
  ELSE 0

\* Mutant: a rival at the operator's price would rank ahead.
Rank_Strict(s, bid) ==
  IF s.ok THEN 1 + Cardinality({r \in Qualified(s) : s.rivals[r].bid <= bid}) ELSE 0

\* _user_rank, 0 when the operator is disqualified.
Rank(s, bid) ==
  IF s.ok THEN 1 + Cardinality({r \in Qualified(s) : s.rivals[r].bid < bid}) ELSE 0

Credits(sample, bid) == MapThenSumSet(LAMBDA i : WinCredit(sample[i], bid), DOMAIN sample)

\* simulate; its undercut shares and median price to beat are left out.
Simulated(sample, bid) ==
  [bid |-> bid,
   credits |-> Credits(sample, bid),
   ranks |-> [k \in 0..(Cardinality(Rivals) + 1) |->
                Cardinality({i \in DOMAIN sample : Rank(sample[i], bid) = k})]]

(***************************************************************************)
(* The curve between grid points, in pieces on which it is linear.         *)
(***************************************************************************)
NextPrice(x) == Min({y \in Grid : y > x})
Segments(pairs) ==
  IF Cardinality(Grid) = 1
  THEN {[lo |-> Q(x), hi |-> Q(x), x0 |-> x, p0 |-> pairs[x], slope |-> Q(0)] : x \in Grid}
  ELSE {[lo |-> Q(x), hi |-> Q(NextPrice(x)), x0 |-> x, p0 |-> pairs[x],
         slope |-> <<pairs[NextPrice(x)] - pairs[x], NextPrice(x) - x>>]
        : x \in Grid \ {Max(Grid)}}

WinAt(g, b) == Plus(Q(g.p0), Times(g.slope, Minus(b, Q(g.x0))))
WinProbabilityAt(pairs, b) ==
  LET g == CHOOSE g \in Segments(pairs) : Leq(g.lo, b) /\ Leq(b, g.hi) IN WinAt(g, b)

\* Mutant: a piece would count whole when either end is at the target.
AtTarget_Whole(g, target) ==
  IF Less(g.hi, g.lo) \/ (Less(WinAt(g, g.lo), target) /\ Less(WinAt(g, g.hi), target)) THEN {} ELSE {g}

\* The part of a piece at or above the target.
AtTarget(g, target) ==
  LET from == Leq(target, WinAt(g, g.lo))
      to == Leq(target, WinAt(g, g.hi))
      crossing == Plus(Q(g.x0), Over(Minus(target, Q(g.p0)), g.slope))
  IN IF Less(g.hi, g.lo) THEN {}
     ELSE CASE from /\ to -> {g}
            [] ~from /\ ~to -> {}
            [] from /\ ~to -> {[g EXCEPT !.hi = crossing]}
            [] OTHER -> {[g EXCEPT !.lo = crossing]}
Clipped(g, lo, hi) == [g EXCEPT !.lo = Higher(g.lo, lo), !.hi = Lower(g.hi, hi)]
Feasible(pieces, lo, hi, target) == UNION {AtTarget(Clipped(g, lo, hi), target) : g \in pieces}

(***************************************************************************)
(* The constraints.                                                        *)
(***************************************************************************)
Constraints == [cost : Costs, margin : Margins, floor : Floors, target : Targets,
                reserve : Reserves, cap : Caps]

\* min_margin_price: cost / (1 - margin), out of reach from 100 % on.
Reachable(c) == c.margin < 100 \/ c.cost = 0
MarginFloor(c) == IF c.cost = 0 THEN Q(0) ELSE Fraction(c.cost * 100, 100 - c.margin)
LowerBound(c) == Greatest({MarginFloor(c), Q(c.floor), Q(Min(Grid))})
UpperBound(c) == IF c.cap = 0 THEN Q(Max(Grid)) ELSE Lower(Q(c.cap), Q(Max(Grid)))
Target(c) == IF c.target = 0 THEN Q(-1) ELSE Fraction(c.target * Full, 100)

\* margin_pct(b) >= min_margin_pct, for a positive b.
MarginHolds(c, b) == Leq(Times(Q(c.margin), b), Times(Q(100), Minus(b, Q(c.cost))))

\* _verify: the constraints once more, from scratch.
Verified(pairs, c, b) ==
  /\ Less(Q(0), b)
  /\ Leq(Q(c.floor), b) /\ Leq(MarginFloor(c), b)
  /\ MarginHolds(c, b)
  /\ c.cap # 0 => Leq(b, Q(c.cap))
  /\ Leq(LowerBound(c), b) /\ Leq(b, UpperBound(c))
  /\ Leq(Target(c), WinProbabilityAt(pairs, b))

Contribution(c, b, win) == Times(win, Minus(b, Q(c.cost + c.reserve)))

\* _segment_optimum: the ends, and the vertex where the curve falls.
Vertex(g, base) ==
  Over(Minus(Times(g.slope, Q(base + g.x0)), Q(g.p0)), Times(Q(2), g.slope))
Candidates_Ends(g, base) == {g.lo, g.hi}      \* Mutant: the ends alone
Candidates(g, base) ==
  {g.lo, g.hi} \cup
  {v \in IF g.slope[1] < 0 THEN {Vertex(g, base)} ELSE {} : Less(g.lo, v) /\ Less(v, g.hi)}

\* The best candidate, the cheaper one of equals.
Preferred(pairs) ==
  (CHOOSE x \in pairs : \A y \in pairs : Less(y[2], x[2]) \/ (Leq(y[2], x[2]) /\ Leq(x[1], y[1])))[1]
BestOf(c, pieces) ==
  Preferred(UNION {{<<b, Contribution(c, b, WinAt(g, b))>> : b \in Candidates(g, c.cost + c.reserve)}
                   : g \in pieces})

(***************************************************************************)
(* The bands around the bid.                                               *)
(***************************************************************************)
Extremes(pieces) == UNION {{WinAt(g, g.lo), WinAt(g, g.hi)} : g \in pieces}

\* _merge and _range_for_threshold: the run of touching pieces with the anchor.
Touching(pieces, x) ==
  LET Grow[k \in 0..Cardinality(pieces)] ==
        IF k = 0 THEN {g \in pieces : Leq(g.lo, x) /\ Leq(x, g.hi)}
        ELSE {g \in pieces : \E h \in Grow[k - 1] : Leq(g.lo, h.hi) /\ Leq(h.lo, g.hi)}
  IN Grow[Cardinality(pieces)]
Span(pieces) == <<Least({g.lo : g \in pieces}), Greatest({g.hi : g \in pieces})>>
NoRange == <<>>
Widest(spans) ==
  LET width(s) == Minus(s[2], s[1])
  IN CHOOSE s \in spans : \A t \in spans :
       Less(width(t), width(s)) \/ (Leq(width(t), width(s)) /\ Leq(s[1], t[1]))
RangeAround(pieces, anchor) ==
  CASE pieces = {} -> NoRange
    [] Touching(pieces, anchor) # {} -> Span(Touching(pieces, anchor))
    [] OTHER -> Widest({Span(Touching(pieces, g.lo)) : g \in pieces})
RangeFor(pieces, threshold, anchor) ==
  RangeAround(Feasible(pieces, Q(0), Q(Max(Grid)), threshold), anchor)

SafeRange(pieces, b) == RangeFor(pieces, <<60 * Full, 100>>, b)
Ends(pieces) == UNION {{<<g.lo, WinAt(g, g.lo)>>, <<g.hi, WinAt(g, g.hi)>>} : g \in pieces}
Likeliest(pieces, best) == Least({e[1] : e \in {e \in Ends(pieces) : Leq(best, e[2])}})
Tenth(worst, best) == Minus(best, Over(Minus(best, worst), Q(10)))
AggressiveRange(pieces) ==
  RangeFor(pieces, Tenth(Least(Extremes(pieces)), Greatest(Extremes(pieces))),
           Likeliest(pieces, Greatest(Extremes(pieces))))

(***************************************************************************)
(* optimize and to_price_prediction.                                       *)
(***************************************************************************)
Infeasible(why) == [bid |-> Q(0), why |-> why]
Answer(b, safe, bold) ==
  [bid |-> b, why |-> "none", safe |-> safe, bold |-> bold,
   p10 |-> Lower(b, bold[1]), p90 |-> IF safe = NoRange THEN b ELSE Higher(b, safe[2])]
Checked(pairs, c, b, pieces) ==
  IF Verified(pairs, c, b) THEN Answer(b, SafeRange(pieces, b), AggressiveRange(pieces))
  ELSE Infeasible("check")
Among(pairs, c, pieces) ==
  IF pieces = {} THEN Infeasible("target") ELSE Checked(pairs, c, BestOf(c, pieces), pieces)
Optimized(pairs, c) ==
  CASE ~Reachable(c) -> Infeasible("margin")
    [] Reachable(c) /\ Less(UpperBound(c), LowerBound(c)) -> Infeasible("price")
    [] OTHER -> Among(pairs, c, Feasible(Segments(pairs), LowerBound(c), UpperBound(c), Target(c)))

(***************************************************************************)
(* The run of a scenario.                                                  *)
(***************************************************************************)
Nothing == <<>>
Init ==
  /\ stage = "draw"
  /\ scenarios = <<>>
  /\ curve = Nothing /\ proposed = Nothing /\ asked = Nothing /\ result = Nothing

DrawScenario(s) ==
  /\ stage = "draw"
  /\ scenarios' = Append(scenarios, s)
  /\ stage' = IF Len(scenarios') = Iterations THEN "simulate" ELSE "draw"
  /\ UNCHANGED <<curve, proposed, asked, result>>

\* win_probability_curve, and simulate for the bid that the operator proposes.
Simulate(bid) ==
  /\ stage = "simulate"
  /\ curve' = [x \in Grid |-> Credits(scenarios, x)]
  /\ proposed' = Simulated(scenarios, bid)
  /\ stage' = "optimize"
  /\ scenarios' = <<>>
  /\ UNCHANGED <<asked, result>>

Optimize(c) ==
  /\ stage = "optimize"
  /\ asked' = c
  /\ result' = Optimized(curve, c)
  /\ stage' = "done"
  /\ proposed' = Nothing
  /\ UNCHANGED <<scenarios, curve>>

Next ==
  \/ \E s \in Scenario : DrawScenario(s)
  \/ \E bid \in Grid : Simulate(bid)
  \/ \E c \in Constraints : Optimize(c)

Spec == Init /\ [][Next]_vars

TypeOK ==
  /\ stage \in {"draw", "simulate", "optimize", "done"}
  /\ scenarios \in Seq(Scenario) /\ Len(scenarios) <= Iterations
  /\ curve = Nothing \/ curve \in [Grid -> 0..Full]
  /\ asked = Nothing \/ asked \in Constraints

(***************************************************************************)
(* Properties.                                                             *)
(***************************************************************************)
\* Prices, on a grid four times as fine, that meet every constraint by its
\* own definition.
Allowed(c) ==
  {b \in {<<n, 4>> : n \in (4 * Min(Grid))..(4 * Max(Grid))} :
     /\ MarginHolds(c, b)
     /\ c.floor # 0 => Leq(Q(c.floor), b)
     /\ c.cap # 0 => Leq(b, Q(c.cap))
     /\ c.target # 0 => Leq(<<c.target * Full, 100>>, WinProbabilityAt(curve, b))}

\* The optimizer's bid violates no constraint and no allowed price, on the grid
\* or between its points, has a better expected contribution; a refusal means
\* that no price is allowed.  Only a margin above 100 %, of a bid without cost,
\* gets as far as the last check before it is refused.
BestFeasibleBid ==
  stage = "done" =>
    IF result.why # "none" THEN Allowed(asked) = {} /\ (result.why = "check" => asked.margin > 100)
    ELSE /\ Verified(curve, asked, result.bid)
         /\ LET won == Contribution(asked, result.bid, WinProbabilityAt(curve, result.bid)) IN
            \A b \in Allowed(asked) :
              Leq(Contribution(asked, b, WinProbabilityAt(curve, b)), won)

\* The bands are ordered around the bid and hold only allowed prices; a safe
\* one wins at 60 % or more.
BandsAreFeasible ==
  stage = "done" /\ result.why = "none" =>
    /\ Leq(result.p10, result.bid) /\ Leq(result.bid, result.p90)
    /\ \A range \in {result.safe, result.bold} \ {NoRange} : \A b \in {range[1], range[2]} :
         Verified(curve, asked, b)
    /\ result.safe # NoRange =>
         \A b \in {result.safe[1], result.safe[2]} :
           Leq(<<60 * Full, 100>>, WinProbabilityAt(curve, b))

\* The scenarios counted at some rank.
Ranked(ranks) == MapThenSumSet(LAMBDA k : ranks[k], DOMAIN ranks)

\* A lower bid never wins less often on the same scenarios, and the curve and
\* the ranks tell the same of the proposed bid: it wins as often as the curve
\* says, and at most as often as it ranks first.
SimulationCoheres ==
  /\ curve # Nothing => \A x, y \in Grid : x <= y => curve[y] <= curve[x]
  /\ proposed # Nothing =>
       /\ proposed.credits = curve[proposed.bid]
       /\ proposed.credits <= Shares * proposed.ranks[1]
       /\ Ranked(proposed.ranks) = Iterations

(***************************************************************************)
(* The inductive invariant.                                                *)
(***************************************************************************)
BidInv ==
  /\ TypeOK
  /\ stage = "draw" => Len(scenarios) < Iterations
  /\ stage = "simulate" => Len(scenarios) = Iterations
  /\ stage \in {"draw", "simulate"} => curve = Nothing /\ proposed = Nothing
  /\ stage \in {"optimize", "done"} => curve \in [Grid -> 0..Full]
  /\ stage = "done" =>
       proposed = Nothing /\ asked \in Constraints /\ result = Optimized(curve, asked)
  /\ SimulationCoheres
=============================================================================
