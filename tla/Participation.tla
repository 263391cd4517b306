--------------------------- MODULE Participation ---------------------------
(***************************************************************************)
(* Who will bid (p2w/participation.py): every vendor seen in the tender's  *)
(* activity or with its agency gets a score from its offers that were      *)
(* knowable at the cutoff, and calibrate replays the same scoring over the *)
(* past.  The joins give an offer once per award row of its tender.        *)
(*                                                                         *)
(* A score is the base rate and the linear part of the log-odds, in tenths:*)
(* the logistic of the two, and its clamps, are monotone.                  *)
(***************************************************************************)
EXTENDS Evidence

CONSTANTS
  Tenders, Vendors,    \* integers: ties go to the lower
  Records,             \* what may be on record of the tenders, [Tenders -> OnRecord]
  MinEvidence,         \* relevant offers before a probability may be stated
  MinTenders,          \* tenders before the base rate is measured
  MinEvents,           \* events before calibration is reported
  Limit,               \* candidates returned
  MaxClock, MaxHarvests    \* bounds: years, visits of the award harvest

VARIABLES
  clock, record,
  at,           \* created_at of each tender's award rows, 0 before the harvest
  harvests,
  served,       \* the last list of candidates
  report        \* the last calibration report

vars == <<clock, record, at, harvests, served, report>>

Nothing == [of |-> 0]
Unknown == 0       \* an activity or agency that is not resolved, an opening without a date
OnRecord == [activity : Nat, agency : Nat, opens : Nat, bidders : SUBSET Vendors, awardees : Nat]

(***************************************************************************)
(* Rows of history, and the features of a vendor.                          *)
(***************************************************************************)
Row == UNION {{t} \X record[t].bidders \X (1..record[t].awardees) : t \in Tenders}
Knowable(rows, t, cutoff) == {r \in rows : r[1] # t /\ at[r[1]] # 0 /\ at[r[1]] < cutoff}

InActivity(r, t) == record[t].activity # Unknown /\ record[r[1]].activity = record[t].activity
WithAgency(r, t) == record[t].agency # Unknown /\ record[r[1]].agency = record[t].agency
Relevant(r, t) == InActivity(r, t) \/ WithAgency(r, t)
Of(rows, v) == {r \in rows : r[2] = v}

Decay(age) == Fraction(1, 2 ^ Max({0, age}))
Weight(rows, cutoff) == FoldSet(LAMBDA r, sum : Plus(sum, Decay(cutoff - at[r[1]])), Q(0), rows)

\* base_rate_from_rows: offers per chance, or the assumed 2 %.
BaseRate(rows, t) ==
  LET scoped == {r \in rows : record[t].activity = Unknown \/ InActivity(r, t)}
      tenders == {r[1] : r \in scoped}
      vendors == {r[2] : r \in scoped}
      rate == Fraction(Cardinality(scoped), Cardinality(tenders) * Cardinality(vendors))
  IN IF Cardinality(tenders) < MinTenders \/ vendors = {} THEN <<2, 100>>
     ELSE Higher(<<2, 1000>>, Lower(<<1, 2>>, rate))

\* build_features and estimate_from_features: 10 for the activity's share of
\* the history, 7 for the agency's, 4 for the last offer's recency.
Estimate(rows, v, t, cutoff, rate) ==
  LET own == Of(rows, v)
      all == Weight(own, cutoff)
      share(S) == Over(Weight(S, cutoff), all)
      last == Min({cutoff - at[r[1]] : r \in own})
      linear == Plus(Times(Q(10), share({r \in own : InActivity(r, t)})),
                Plus(Times(Q(7), share({r \in own : WithAgency(r, t)})), Times(Q(4), Decay(last))))
      n == Cardinality({r \in own : Relevant(r, t)})
  IN [vendor |-> v, n |-> n, stated |-> n >= MinEvidence,
      rate |-> rate, score |-> IF n >= MinEvidence THEN linear ELSE Q(0)]

\* CANDIDATE_HISTORY_SQL: the whole history of vendors with a relevant row.
CandidateHistory(t, cutoff) ==
  LET rows == Knowable(Row, t, cutoff)
  IN {r \in rows : \E s \in Of(rows, r[2]) : Relevant(s, t)}

\* candidate_bidders: the first of the list that is sorted by whether there is a score, by
\* score, then evidence, then vendor.
Ahead(a, b) ==
  CASE a.stated # b.stated -> a.stated
    [] a.stated = b.stated /\ a.score # b.score -> Less(b.score, a.score)
    [] OTHER -> a.n > b.n \/ (a.n = b.n /\ a.vendor < b.vendor)
Estimates(rows, t, cutoff) ==
  {Estimate(rows, v, t, cutoff, BaseRate(rows, t)) : v \in {r[2] : r \in rows}}
FirstOf(estimates) == {e \in estimates : Cardinality({f \in estimates : Ahead(f, e)}) < Limit}
Candidates(t, cutoff) ==
  IF record[t].activity = Unknown /\ record[t].agency = Unknown THEN {}
  ELSE FirstOf(Estimates(CandidateHistory(t, cutoff), t, cutoff))

\* participation_probability: the base rate is that of the vendor's own history.
Probability(v, t, cutoff) ==
  LET rows == Of(Knowable(Row, t, cutoff), v)
  IN IF rows = {} THEN [vendor |-> v, n |-> 0, stated |-> FALSE, rate |-> <<2, 100>>, score |-> Q(0)]
     ELSE Estimate(rows, v, t, cutoff, BaseRate(rows, t))

(***************************************************************************)
(* calibrate: each decided tender at its own cutoff.                       *)
(***************************************************************************)
\* Mutant: the tender's own offers would be part of its history.
Past_Own(t, cutoff) == {r \in Row : at[r[1]] # 0 /\ at[r[1]] <= cutoff}
Past(t, cutoff) == Knowable(Row, t, cutoff)
Scored(t) ==
  LET cutoff == record[t].opens
      history == Past(t, cutoff)
      estimates == {Estimate(history, v, t, cutoff, BaseRate(history, t)) :
                      v \in {r[2] : r \in {r \in history : Relevant(r, t)}}}
  IN {[of |-> t, says |-> e, hit |-> e.vendor \in record[t].bidders] : e \in {e \in estimates : e.stated}}

\* Tenders of the pool: an award and an offer on record, and a decision moment.
Placed(moment) ==
  {t \in Tenders : /\ at[t] # 0 /\ record[t].opens \in 1..(moment - 1)
                   /\ \E r \in Row : r[1] = t
                   /\ record[t].activity # Unknown \/ record[t].agency # Unknown}
Events(moment) == UNION {Scored(t) : t \in Placed(moment)}

(***************************************************************************)
(* Steps.                                                                  *)
(***************************************************************************)
Init ==
  /\ clock = 1 /\ record \in Records
  /\ at = [t \in Tenders |-> 0]
  /\ harvests = 0
  /\ served = Nothing /\ report = Nothing

Quiet == served = Nothing /\ report = Nothing
Tick ==
  /\ Quiet /\ clock < MaxClock
  /\ clock' = clock + 1
  /\ UNCHANGED <<record, at, harvests, served, report>>

\* store_awarding: offers and awards are replaced, created_at is the visit.
Harvest(t) ==
  /\ Quiet /\ harvests < MaxHarvests
  /\ record[t].awardees > 0 /\ record[t].opens <= clock /\ at[t] # clock
  /\ harvests' = harvests + 1
  /\ at' = [at EXCEPT ![t] = clock]
  /\ UNCHANGED <<clock, record, served, report>>

\* resolve_as_of: given, or the opening, or now.
AsOf(t, asked) == IF asked # 0 THEN asked ELSE IF record[t].opens # 0 THEN record[t].opens ELSE clock
Serve(t, asked) ==
  /\ Quiet
  /\ served' = [of |-> t, list |-> Candidates(t, AsOf(t, asked)),
                single |-> {Probability(v, t, AsOf(t, asked)) : v \in Vendors}]
  /\ UNCHANGED <<clock, record, at, harvests, report>>

Calibrate(moment) ==
  /\ Quiet
  /\ LET events == Events(moment) IN
     report' = IF Cardinality(events) < MinEvents THEN [of |-> moment, ok |-> FALSE]
               ELSE [of |-> moment, ok |-> TRUE, events |-> events]
  /\ UNCHANGED <<clock, record, at, harvests, served>>

Next ==
  \/ Tick
  \/ \E t \in Tenders : Harvest(t)
  \/ \E t \in Tenders, asked \in 0..clock : Serve(t, asked)
  \/ \E moment \in 1..clock : Calibrate(moment)

Spec == Init /\ [][Next]_vars

TypeOK ==
  /\ clock \in 1..MaxClock /\ record \in Records /\ harvests \in 0..MaxHarvests
  /\ at \in [Tenders -> 0..MaxClock]
  /\ served.of \in {0} \cup Tenders /\ report.of \in 0..MaxClock

\* A report stands for what was on record, which no step changes after it.
ReportInv ==
  /\ TypeOK
  /\ report # Nothing /\ report.ok => report.events = Events(report.of)

(***************************************************************************)
(* Properties.                                                             *)
(***************************************************************************)
\* The calibration measures the model that is served: for a tender with an
\* activity, each event is what candidate_bidders would have said at the
\* tender's own cutoff, and every stated candidate is an event.
CalibratesWhatIsServed ==
  report # Nothing /\ report.ok =>
    \A t \in Placed(report.of) : record[t].activity # Unknown =>
      LET said == Candidates(t, record[t].opens) IN
      Cardinality(said) < Limit =>
        {e.says : e \in {e \in report.events : e.of = t}} = {e \in said : e.stated}
=============================================================================
