-------------------------- MODULE PredictionClock --------------------------
(***************************************************************************)
(* prediction_clock.py and migration 0019 for one tender: runs of the      *)
(* clock, possibly at the same time, snapshot a blind market prediction    *)
(* and copy the scorable one into the feedback table; the console stores   *)
(* predictions and feedback of its own; the harvest replaces the awards;   *)
(* the platform moves the opening of offers.                               *)
(***************************************************************************)
EXTENDS Naturals, Sequences, FiniteSetsExt

CONSTANTS
  Runs,          \* runs of the clock
  Ticks,         \* ticks of a day
  Closing,       \* last_offer_date
  Openings,      \* dates the opening may have, 0 for null
  MaxClock,      \* bound: ticks
  MaxChanges,    \* bound: steps of the console, harvests and moves of the opening
  MaxPreds,      \* bound: predictions
  MaxScored      \* bound: rows of the clock

VARIABLES
  clock,
  opening,     \* offers_opening_date, 0 when null
  awards,      \* rows of awards
  firstSeen,   \* tender_award_first_seen, 0 before
  preds,       \* market predictions in the order of ids; day 0 is interactive
  scored,      \* prediction_feedback rows of the clock: the prediction of each
  noted,       \* predictions with a row of the console without a text
  run,         \* by run: phase, its day, the prediction at hand
  known,       \* history: when an award was first public to us, 0 before
  changes,     \* steps counted by MaxChanges
  loose        \* history: the latest blind prediction may have changed after a
               \* scoring, or two scorings overlapped

vars == <<clock, opening, awards, firstSeen, preds, scored, noted, run, known, loose, changes>>

Day(c) == 1 + c \div Ticks
Idle == [phase |-> "idle", day |-> 0, generated |-> 0, suppressed |-> FALSE, target |-> 0]

TypeOK ==
  /\ {clock, opening, firstSeen, known} \subseteq 0..MaxClock
  /\ awards \in 0..2 /\ changes \in 0..MaxChanges
  /\ preds \in Seq([generated : Nat, day : Nat, suppressed : BOOLEAN])
  /\ scored \in Seq(DOMAIN preds) /\ noted \subseteq DOMAIN preds
  /\ run \in [Runs -> [phase : {"idle", "compute", "store", "score", "insert"}, day : Nat,
                       generated : Nat, suppressed : BOOLEAN, target : Nat]]
  /\ loose \in BOOLEAN

Init ==
  /\ clock = 1
  /\ opening \in Openings
  /\ awards = 0
  /\ firstSeen = 0 /\ known = 0
  /\ preds = <<>> /\ scored = <<>> /\ noted = {}
  /\ run = [r \in Runs |-> Idle]
  /\ changes = 0 /\ loose = FALSE

Tick ==
  /\ clock < MaxClock
  /\ clock' = clock + 1
  /\ UNCHANGED <<opening, awards, firstSeen, preds, scored, noted, run, known, loose, changes>>

(***************************************************************************)
(* The snapshot.                                                           *)
(***************************************************************************)
\* _BLIND_OPEN_TENDERS_SQL.
BlindOpen ==
  /\ awards = 0 /\ firstSeen = 0
  /\ (IF opening # 0 THEN opening ELSE Closing) > clock
  /\ ~\E i \in DOMAIN preds : preds[i].day = Day(clock)

Select(r) ==
  /\ run[r] = Idle
  /\ run' = [run EXCEPT ![r] =
       [Idle EXCEPT !.phase = IF BlindOpen THEN "compute" ELSE "score", !.day = Day(clock)]]
  /\ UNCHANGED <<clock, opening, awards, firstSeen, preds, scored, noted, known, loose, changes>>

\* tender_intelligence; generated_at is taken at its end.
Compute(r, suppressed) ==
  /\ run[r].phase = "compute"
  /\ run' = [run EXCEPT ![r].phase = "store", ![r].generated = clock,
                        ![r].suppressed = suppressed]
  /\ UNCHANGED <<clock, opening, awards, firstSeen, preds, scored, noted, known, loose, changes>>

\* One tender that fails does not stop the clock.
ComputeFails(r) ==
  /\ run[r].phase = "compute"
  /\ run' = [run EXCEPT ![r] = [Idle EXCEPT !.phase = "score"]]
  /\ UNCHANGED <<clock, opening, awards, firstSeen, preds, scored, noted, known, loose, changes>>

Stored(p) ==
  /\ Len(preds) < MaxPreds
  /\ preds' = Append(preds, p)
  /\ loose' = (loose \/ (firstSeen # 0 /\ p.generated < firstSeen))

\* persist_prediction: price_predictions_daily_snapshot_uq refuses a second
\* snapshot of the day, and the run counts a failure.
Store(r) ==
  /\ run[r].phase = "store"
  /\ IF \E i \in DOMAIN preds : preds[i].day = run[r].day
     THEN UNCHANGED <<preds, loose>>
     ELSE Stored([generated |-> run[r].generated, day |-> run[r].day,
                  suppressed |-> run[r].suppressed])
  /\ run' = [run EXCEPT ![r] = [Idle EXCEPT !.phase = "score"]]
  /\ UNCHANGED <<clock, opening, awards, firstSeen, scored, noted, known, changes>>

(***************************************************************************)
(* The scorecard.                                                          *)
(***************************************************************************)
\* prediction_scorecard: before the opening, if one is known, and before the
\* award was first seen.
BlindUntil == Min({firstSeen, IF opening # 0 THEN opening ELSE firstSeen})
Blind == {i \in DOMAIN preds : firstSeen # 0 /\ preds[i].generated < BlindUntil}
LatestBlind == CHOOSE i \in Blind : \A j \in Blind :
                 \/ preds[j].generated < preds[i].generated
                 \/ preds[j].generated = preds[i].generated /\ j <= i
Scorable == Blind # {} /\ awards = 1 /\ ~preds[LatestBlind].suppressed
Scored(i) == i \in noted \/ \E k \in DOMAIN scored : scored[k] = i

\* _SCORE_SQL is one statement, but two runs of it do not see each other.
ScoreRead(r) ==
  /\ run[r].phase = "score"
  /\ LET found == Scorable /\ ~Scored(LatestBlind) IN
     run' = [run EXCEPT ![r] = IF found THEN [@ EXCEPT !.phase = "insert", !.target = LatestBlind]
                               ELSE Idle]
  /\ loose' = (loose \/ \E q \in Runs \ {r} : run[q].phase = "insert")
  /\ UNCHANGED <<clock, opening, awards, firstSeen, preds, scored, noted, known, changes>>

ScoreInsert(r) ==
  /\ run[r].phase = "insert"
  /\ Len(scored) < MaxScored
  /\ scored' = Append(scored, run[r].target)
  /\ run' = [run EXCEPT ![r] = Idle]
  /\ UNCHANGED <<clock, opening, awards, firstSeen, preds, noted, known, loose, changes>>

Die(r) ==
  /\ run[r] # Idle
  /\ run' = [run EXCEPT ![r] = Idle]
  /\ UNCHANGED <<clock, opening, awards, firstSeen, preds, scored, noted, known, loose, changes>>

(***************************************************************************)
(* The console, the harvest and the platform.                              *)
(***************************************************************************)
Changed == changes < MaxChanges /\ changes' = changes + 1

\* _persist_prediction.
Interactive(suppressed) ==
  /\ Stored([generated |-> clock, day |-> 0, suppressed |-> suppressed])
  /\ Changed
  /\ UNCHANGED <<clock, opening, awards, firstSeen, scored, noted, run, known>>

\* prediction_feedback, any number of times; with a text the clock ignores it.
ConsoleFeedback(i) ==
  /\ i \in DOMAIN preds
  /\ noted' = noted \cup {i}
  /\ Changed
  /\ UNCHANGED <<clock, opening, awards, firstSeen, preds, scored, run, known, loose>>

\* Mutant: the row would move with every harvest.
FirstSeen_Moved == clock

\* Written once and never moved.
FirstSeen == IF firstSeen = 0 THEN clock ELSE firstSeen

\* store_awarding: the awards are replaced, the first sighting is not.
Harvest(count) ==
  /\ awards' = count
  /\ firstSeen' = IF count > 0 THEN FirstSeen ELSE firstSeen
  /\ known' = IF count > 0 /\ known = 0 THEN clock ELSE known
  /\ Changed
  /\ UNCHANGED <<clock, opening, preds, scored, noted, run, loose>>

MoveOpening(to) ==
  /\ opening' = to
  /\ loose' = (loose \/ scored # <<>> \/ \E r \in Runs : run[r].phase = "insert")
  /\ Changed
  /\ UNCHANGED <<clock, awards, firstSeen, preds, scored, noted, run, known>>

Next ==
  \/ Tick
  \/ \E r \in Runs : \/ Select(r) \/ ComputeFails(r) \/ Store(r)
                     \/ ScoreRead(r) \/ ScoreInsert(r) \/ Die(r)
                     \/ \E suppressed \in BOOLEAN : Compute(r, suppressed)
  \/ \E suppressed \in BOOLEAN : Interactive(suppressed)
  \/ \E i \in DOMAIN preds : ConsoleFeedback(i)
  \/ \E count \in 0..2 : Harvest(count)
  \/ \E to \in Openings \ {opening} : MoveOpening(to)

Spec == Init /\ [][Next]_vars

(***************************************************************************)
(* Properties.                                                             *)
(***************************************************************************)
\* What the clock scores was generated before any award of the tender was
\* public to us and was no refusal, however often the awards are harvested
\* again, whoever stored the prediction and whenever it was stored.
ScoredBlind ==
  \A k \in DOMAIN scored :
    LET p == preds[scored[k]] IN known # 0 /\ p.generated < known /\ ~p.suppressed

\* A tender counts once however many snapshots it has, unless the opening moved
\* after a scoring, a prediction was stored after the award it precedes, or two
\* runs scored at the same time.
CountedOnce == loose \/ Len(scored) <= 1

(***************************************************************************)
(* The inductive invariant behind the two.                                 *)
(***************************************************************************)
\* What is scored, or about to be, was blind when it was read and is so for good.
Inserting == {r \in Runs : run[r].phase = "insert"}
IsBlind(i) == /\ i \in DOMAIN preds /\ firstSeen # 0
              /\ preds[i].generated < firstSeen /\ ~preds[i].suppressed
TargetsAreBlind ==
  /\ known = firstSeen
  /\ \A k \in DOMAIN scored : IsBlind(scored[k])
  /\ \A r \in Inserting : IsBlind(run[r].target)

\* While nothing is loose, it is the latest blind prediction, in one place.
LatestIsHeldOnce ==
  ~loose =>
    /\ Len(scored) <= 1
    /\ \A q, r \in Inserting : q = r
    /\ Inserting # {} => scored = <<>>
    /\ scored # <<>> \/ Inserting # {} => Blind # {}
    /\ \A k \in DOMAIN scored : scored[k] = LatestBlind
    /\ \A r \in Inserting : run[r].target = LatestBlind

ScoreInv == TypeOK /\ TargetsAreBlind /\ LatestIsHeldOnce
=============================================================================
