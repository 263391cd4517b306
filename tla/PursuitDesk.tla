----------------------------- MODULE PursuitDesk -----------------------------
(***************************************************************************)
(* The War Room's record of one tender: the pursuits that tenants open,    *)
(* their stages and outcomes, the price simulations kept for them, and how *)
(* the simulations are measured against the award (console app.py,         *)
(* pricing_seed.py).  A statement is a step of its own, and what it writes *)
(* is read by others from the commit on.                                   *)
(***************************************************************************)
EXTENDS Naturals, Sequences, FiniteSets

CONSTANTS
  Tenants,
  Requests,     \* the console's concurrent requests
  Results,      \* what an outcome can say
  Values,       \* values of an award, positive
  MaxSims,      \* bound: simulations
  MaxDeaths     \* bound: seeding jobs that die, requests that fail

VARIABLES
  pursuit,      \* stage by tenant, "none" without a pursuit
  request,      \* what each console request is doing
  worker,       \* the seeding job: phase, pursuits left to seed, row it inserts
  sims,         \* pursuit_simulations: whether committed (kept), and the award value
                \* measured by (0: by none)
  award,        \* value of the tender's award: 0 when none is stored, or none was parsed
  outcome,      \* outcomes by tenant: result, and of history the simulations due (below)
  deaths,
  overlaps      \* history by tenant: selections of its pursuit for seeding while another
                \* seeding of it was under way, or its baseline not yet committed

vars == <<pursuit, request, worker, sims, award, outcome, deaths, overlaps>>

\* A stage stands for those that nothing here tells from it: pricing and writing are as
\* studying, submitted is as the results.
OpenStages == {"studying"}
Stages == OpenStages \cup Results
NoOutcome == [result |-> "none", due |-> {}]
Idle == [doing |-> "nothing"]
WorkerIdle == [phase |-> "idle", todo |-> {}, row |-> 0]
Maybe == {0} \cup Values
SimSet == [tenant : Tenants, basis : {"baseline", "what_if"}, kept : BOOLEAN, measured : Maybe]
Creating == [doing : {"insert"}, tenant : Tenants]
\* log_outcome when it has read the award, and when its transaction has measured.  Due, of
\* history, are the simulations that were committed when an award was read, unless the award
\* is gone when they are to be measured.
Reading == [doing : {"outcome"}, tenant : Tenants, result : Results, award : Maybe,
            due : SUBSET (1..MaxSims)]
Measuring == [doing : {"measured"}, tenant : Tenants, result : Results,
              due : SUBSET (1..MaxSims), seen : SUBSET (1..MaxSims), value : Maybe]
Seeding == [doing : {"seed"}, tenant : Tenants, todo : SUBSET Tenants, row : 0..MaxSims]
Refreshing == [doing : {"refresh"}, seen : SUBSET (1..MaxSims), value : Maybe]

TypeOK ==
  /\ pursuit \in [Tenants -> Stages \cup {"none"}]
  /\ request \in [Requests -> {Idle} \cup Creating \cup Reading \cup Measuring
                              \cup Seeding \cup Refreshing]
  /\ worker \in [phase : {"idle", "seeding"}, todo : SUBSET Tenants, row : 0..MaxSims]
  /\ sims \in Seq(SimSet) /\ Len(sims) <= MaxSims
  /\ award \in Maybe
  /\ outcome \in [Tenants -> [result : Results \cup {"none"}, due : SUBSET (1..MaxSims)]]
  /\ deaths \in 0..MaxDeaths
  /\ overlaps \in [Tenants -> Nat]

Init ==
  /\ pursuit = [t \in Tenants |-> "none"]
  /\ request = [q \in Requests |-> Idle]
  /\ worker = WorkerIdle
  /\ sims = <<>>
  /\ award = 0
  /\ outcome = [t \in Tenants |-> NoOutcome]
  /\ deaths = 0
  /\ overlaps = [t \in Tenants |-> 0]

(***************************************************************************)
(* create_pursuit: the tender is read, and a transaction looks for an      *)
(* existing pursuit, then inserts it with its compliance items, milestones *)
(* and win probability.                                                    *)
(***************************************************************************)
CreateLook(q, t) ==
  /\ request[q] = Idle
  /\ request' = [request EXCEPT ![q] =
       IF pursuit[t] = "none" THEN [doing |-> "insert", tenant |-> t] ELSE Idle]
  /\ UNCHANGED <<pursuit, worker, sims, award, outcome, deaths, overlaps>>

\* The INSERT and the rest.  A request that looked before the other committed
\* fails on the unique key and leaves nothing.
CreateInsert(q) ==
  /\ request[q].doing = "insert"
  /\ request' = [request EXCEPT ![q] = Idle]
  /\ LET t == request[q].tenant IN
     pursuit' = IF pursuit[t] = "none" THEN [pursuit EXCEPT ![t] = "studying"] ELSE pursuit
  /\ UNCHANGED <<worker, sims, award, outcome, deaths, overlaps>>

PatchStage(t, stage) ==
  /\ pursuit[t] # "none"
  /\ pursuit' = [pursuit EXCEPT ![t] = stage]
  /\ UNCHANGED <<request, worker, sims, award, outcome, deaths, overlaps>>

(***************************************************************************)
(* Simulations and their measurement.                                      *)
(***************************************************************************)
\* The INSERT of a simulation begins, and others do not see the row before it commits.
RecordSim(t, basis) ==
  /\ Len(sims) < MaxSims
  /\ sims' = Append(sims, [tenant |-> t, basis |-> basis, kept |-> FALSE, measured |-> 0])

\* It commits, whatever has become of the one who sent it.
SimCommits(i) ==
  /\ i \in DOMAIN sims /\ ~sims[i].kept
  /\ sims' = [sims EXCEPT ![i].kept = TRUE]
  /\ UNCHANGED <<pursuit, request, worker, award, outcome, deaths, overlaps>>

\* One who inserts waits for its row: 0 is none.
Settled(row) == row # 0 => sims[row].kept

\* simulate_price keeps every price that a user tries.
SimulatePrice(t) ==
  /\ pursuit[t] # "none"
  /\ RecordSim(t, "what_if")
  /\ UNCHANGED <<pursuit, request, worker, award, outcome, deaths, overlaps>>

\* What a measuring statement finds when it begins: the simulations of the tenant, and the
\* award, to which they are joined where it has a value.
Visible(t) == {i \in DOMAIN sims : sims[i].tenant = t /\ sims[i].kept}
Measurable(t) == IF award # 0 THEN Visible(t) ELSE {}

\* Every simulation it found gets the value it found, measured before or not.
Measured(seen, value) ==
  [i \in DOMAIN sims |-> IF i \in seen THEN [sims[i] EXCEPT !.measured = value] ELSE sims[i]]

\* _measure_all_pricing_predictions begins and, below, commits.
Refresh(t) == [doing |-> "refresh", seen |-> Measurable(t), value |-> award]

\* pricing_accuracy refreshes the measurements before it reads them.
PricingAccuracy(q, t) ==
  /\ request[q] = Idle
  /\ request' = [request EXCEPT ![q] = Refresh(t)]
  /\ UNCHANGED <<pursuit, worker, sims, award, outcome, deaths, overlaps>>

Refreshed(q) ==
  /\ request[q].doing = "refresh"
  /\ sims' = Measured(request[q].seen, request[q].value)
  /\ request' = [request EXCEPT ![q] = Idle]
  /\ UNCHANGED <<pursuit, worker, award, outcome, deaths, overlaps>>

(***************************************************************************)
(* Seeding: one SELECT of the active pursuits without a simulation, then   *)
(* one INSERT for each.  The job does it for all tenants, the console for  *)
(* the tenant who asks.                                                    *)
(***************************************************************************)
Unseeded_Any(t) == pursuit[t] \in OpenStages   \* Mutant: no look for simulations
Unseeded(t) == pursuit[t] \in OpenStages /\ Visible(t) = {}

Baselines(t) == {i \in DOMAIN sims : sims[i].tenant = t /\ sims[i].basis = "baseline"}
Seedings(t) == {q \in Requests : request[q].doing = "seed" /\ t \in request[q].todo}
             \cup {q \in {"worker"} : t \in worker.todo}
Overlapping(t) == Seedings(t) # {} \/ \E i \in Baselines(t) : ~sims[i].kept
Overlapped(todo) ==
  [t \in Tenants |-> IF t \in todo /\ Overlapping(t) THEN overlaps[t] + 1 ELSE overlaps[t]]

SeedSelect ==
  /\ worker.phase = "idle"
  /\ LET todo == {t \in Tenants : Unseeded(t)} IN
     /\ worker' = [phase |-> "seeding", todo |-> todo, row |-> 0]
     /\ overlaps' = Overlapped(todo)
  /\ UNCHANGED <<pursuit, request, sims, award, outcome, deaths>>

SeedInsert(t) ==
  /\ worker.phase = "seeding" /\ t \in worker.todo /\ Settled(worker.row)
  /\ RecordSim(t, "baseline")
  /\ worker' = [worker EXCEPT !.todo = @ \ {t}, !.row = Len(sims) + 1]
  /\ UNCHANGED <<pursuit, request, award, outcome, deaths, overlaps>>

SeedDone ==
  /\ worker.phase = "seeding" /\ worker.todo = {} /\ Settled(worker.row)
  /\ worker' = WorkerIdle
  /\ UNCHANGED <<pursuit, request, sims, award, outcome, deaths, overlaps>>

\* Rows inserted before the job died stay: each INSERT is a transaction, the last of which
\* may still commit.
SeedDies ==
  /\ worker.phase = "seeding" /\ deaths < MaxDeaths
  /\ worker' = WorkerIdle
  /\ deaths' = deaths + 1
  /\ UNCHANGED <<pursuit, request, sims, award, outcome, overlaps>>

ConsoleSeedSelect(q, t) ==
  /\ request[q] = Idle
  /\ LET todo == {u \in {t} : Unseeded(u)} IN
     /\ request' = [request EXCEPT ![q] =
          [doing |-> "seed", tenant |-> t, todo |-> todo, row |-> 0]]
     /\ overlaps' = Overlapped(todo)
  /\ UNCHANGED <<pursuit, worker, sims, award, outcome, deaths>>

ConsoleSeedInsert(q) ==
  /\ request[q].doing = "seed" /\ Settled(request[q].row)
  /\ \E t \in request[q].todo :
       /\ RecordSim(t, "baseline")
       /\ request' = [request EXCEPT ![q].todo = @ \ {t}, ![q].row = Len(sims) + 1]
  /\ UNCHANGED <<pursuit, worker, award, outcome, deaths, overlaps>>

\* The last INSERT is followed by a refresh.
ConsoleSeedDone(q) ==
  /\ request[q].doing = "seed" /\ request[q].todo = {} /\ Settled(request[q].row)
  /\ request' = [request EXCEPT ![q] = Refresh(@.tenant)]
  /\ UNCHANGED <<pursuit, worker, sims, award, outcome, deaths, overlaps>>

(***************************************************************************)
(* log_outcome: the award is read first; one transaction writes the        *)
(* outcome, measures the simulations if an award value was read, and moves *)
(* the stage.  From its first statement to the commit the transaction      *)
(* holds the outcome's row, at which another of the same pursuit waits.    *)
(***************************************************************************)
OutcomeRead(q, t, result) ==
  /\ request[q] = Idle
  /\ pursuit[t] # "none"
  /\ request' = [request EXCEPT ![q] = [doing |-> "outcome", tenant |-> t, result |-> result,
                                        award |-> award, due |-> Measurable(t)]]
  /\ UNCHANGED <<pursuit, worker, sims, award, outcome, deaths, overlaps>>

OutcomeMeasure(q) ==
  /\ request[q].doing = "outcome"
  /\ \A p \in Requests : request[p].doing = "measured" => request[p].tenant # request[q].tenant
  /\ LET r == request[q] IN
     request' = [request EXCEPT ![q] =
       [doing |-> "measured", tenant |-> r.tenant, result |-> r.result,
        due |-> IF award # 0 THEN r.due ELSE {},
        seen |-> IF r.award # 0 THEN Measurable(r.tenant) ELSE {},
        value |-> IF r.award # 0 THEN award ELSE 0]]
  /\ UNCHANGED <<pursuit, worker, sims, award, outcome, deaths, overlaps>>

OutcomeCommit(q) ==
  /\ request[q].doing = "measured"
  /\ LET r == request[q] IN
     /\ outcome' = [outcome EXCEPT ![r.tenant] = [result |-> r.result, due |-> r.due]]
     /\ sims' = Measured(r.seen, r.value)
     /\ pursuit' = [pursuit EXCEPT ![r.tenant] = r.result]
  /\ request' = [request EXCEPT ![q] = Idle]
  /\ UNCHANGED <<worker, award, deaths, overlaps>>

\* A request fails (a lost connection, a deadlock): its open transaction leaves nothing.
RequestFails(q) ==
  /\ request[q] # Idle /\ deaths < MaxDeaths
  /\ request' = [request EXCEPT ![q] = Idle]
  /\ deaths' = deaths + 1
  /\ UNCHANGED <<pursuit, worker, sims, award, outcome, overlaps>>

\* store_awarding, at every visit: awards of a value, of none that was parsed, or no awards.
StoreAward(value) ==
  /\ award' = value
  /\ UNCHANGED <<pursuit, request, worker, sims, outcome, deaths, overlaps>>

Next ==
  \/ \E q \in Requests, t \in Tenants :
       CreateLook(q, t) \/ ConsoleSeedSelect(q, t) \/ PricingAccuracy(q, t)
  \/ \E q \in Requests :
       \/ CreateInsert(q)
       \/ ConsoleSeedInsert(q) \/ ConsoleSeedDone(q) \/ Refreshed(q)
       \/ OutcomeMeasure(q) \/ OutcomeCommit(q) \/ RequestFails(q)
  \/ \E q \in Requests, t \in Tenants, result \in Results : OutcomeRead(q, t, result)
  \/ \E t \in Tenants, stage \in Stages : PatchStage(t, stage)
  \/ \E t \in Tenants : SimulatePrice(t) \/ SeedInsert(t)
  \/ \E i \in DOMAIN sims : SimCommits(i)
  \/ SeedSelect \/ SeedDone \/ SeedDies
  \/ \E value \in Maybe : StoreAward(value)

Spec == Init /\ [][Next]_vars

(***************************************************************************)
(* Properties.                                                             *)
(***************************************************************************)
\* A pursuit gets one baseline hypothesis and, as NOT EXISTS and INSERT are two statements
\* and no key forbids a second one, one more for each selection that overlapped another
\* seeding of it: never one that a selection could have seen.
BaselinesAreCounted == \A t \in Tenants : Cardinality(Baselines(t)) <= 1 + overlaps[t]

\* A simulation that was committed when an outcome was reported with an award is measured
\* once the outcome is logged, and stays so, whatever the awards and other measurements do.
OutcomesAreMeasured ==
  \A t \in Tenants : \A i \in outcome[t].due : sims[i].measured # 0

(***************************************************************************)
(* The inductive invariant behind both.                                    *)
(***************************************************************************)
\* A seeding under way is a baseline to come.
SeedersAreCounted ==
  \A t \in Tenants :
    /\ IsFiniteSet(Seedings(t))
    /\ Cardinality(Baselines(t)) + Cardinality(Seedings(t)) <= 1 + overlaps[t]

\* What a request is about to write is a value, and what is due stays within what it measures.
MeasureHolds(r) ==
  /\ r.doing = "outcome" => r.due \subseteq Visible(r.tenant) /\ (r.award = 0 => r.due = {})
  /\ r.doing = "measured" => r.due \subseteq r.seen
  /\ r.doing \in {"measured", "refresh"} =>
       r.seen \subseteq DOMAIN sims /\ (r.seen # {} => r.value # 0)
MeasuresHold == \A q \in Requests : MeasureHolds(request[q])
DuesExist == \A t \in Tenants : outcome[t].due \subseteq DOMAIN sims

DeskInv == TypeOK /\ SeedersAreCounted /\ MeasuresHold /\ DuesExist /\ OutcomesAreMeasured
=============================================================================
