-------------------------- MODULE ScenarioVersions --------------------------
(***************************************************************************)
(* The saved scenarios of one tenant for one tender (user_bid_scenarios):  *)
(* versions are appended and each points its elders to itself.  The        *)
(* console's create_scenario does it in one READ COMMITTED transaction,    *)
(* the engine's persist_scenario in three statements that commit one by    *)
(* one and may fail one by one.                                            *)
(***************************************************************************)
EXTENDS Naturals, Sequences, FiniteSets, FiniteSetsExt

CONSTANTS
  Requests,      \* console requests
  Engines,       \* calls of persist_scenario
  MaxRows        \* bound: scenarios

VARIABLES
  rows,       \* committed rows in the order of their ids: version, pursued, superseded
  pursued,    \* the tenant has a pursuit of the tender: rows of it have unique versions
  request,    \* a console transaction: phase, version, pursuit as read
  engine,     \* a call of the engine: phase, previous row, version
  alone,      \* history: console transactions that nothing overlapped so far
  troubled,   \* history: creations overlapped, or a statement or a process failed
  healed      \* history: the newest row is that of a console transaction alone

vars == <<rows, pursued, request, engine, alone, troubled, healed>>

Idle == [phase |-> "idle", version |-> 0, pursued |-> FALSE]
Resting == [phase |-> "idle", version |-> 0, previous |-> 0]
Highest == Max({0} \cup {rows[i].version : i \in DOMAIN rows})
Heads == {i \in DOMAIN rows : ~rows[i].superseded}
Busy == {q \in Requests : request[q] # Idle} \cup {e \in Engines : engine[e] # Resting}

Init ==
  /\ rows = <<>>
  /\ pursued \in BOOLEAN
  /\ request = [q \in Requests |-> Idle]
  /\ engine = [e \in Engines |-> Resting]
  /\ alone = {} /\ troubled = FALSE /\ healed = FALSE

\* A creation begins: it, and what is under way, now overlap.
Begin(who) ==
  /\ alone' = IF Busy = {} THEN {who} ELSE {}
  /\ troubled' = (troubled \/ Busy # {})

Append1(version, ofPursuit) ==
  Append(rows, [version |-> version, pursued |-> ofPursuit, superseded |-> FALSE])
Supersede(s, S) == [i \in DOMAIN s |-> IF i \in S THEN [s[i] EXCEPT !.superseded = TRUE] ELSE s[i]]

CreatePursuit ==
  /\ ~pursued
  /\ pursued' = TRUE
  /\ UNCHANGED <<rows, request, engine, alone, troubled, healed>>

(***************************************************************************)
(* create_scenario.                                                        *)
(***************************************************************************)
ReadVersion(q) ==
  /\ request[q] = Idle /\ Len(rows) < MaxRows
  /\ request' = [request EXCEPT ![q] =
       [phase |-> "insert", version |-> Highest + 1, pursued |-> pursued]]
  /\ Begin(q)
  /\ UNCHANGED <<rows, pursued, engine, healed>>

\* user_bid_scenarios_version_uq: a committed row fails the INSERT, the row of
\* a transaction under way makes it wait.
Clash(q, other) == /\ request[q].pursued /\ other.pursued
                   /\ other.version = request[q].version
Insert(q) ==
  /\ request[q].phase = "insert"
  /\ \A p \in Requests \ {q} : ~(request[p].phase = "supersede" /\ Clash(q, request[p]))
  /\ ~\E i \in DOMAIN rows : Clash(q, rows[i])
  /\ request' = [request EXCEPT ![q].phase = "supersede"]
  /\ UNCHANGED <<rows, pursued, engine, alone, troubled, healed>>

InsertFails(q) ==
  /\ request[q].phase = "insert"
  /\ \E i \in DOMAIN rows : Clash(q, rows[i])
  /\ request' = [request EXCEPT ![q] = Idle]
  /\ alone' = alone \ {q}
  /\ UNCHANGED <<rows, pursued, engine, troubled, healed>>

\* Mutant: only the version before.
Elders_Last(v) == {i \in Heads : rows[i].version + 1 = v}
Elders(v) == {i \in Heads : rows[i].version < v}

\* The UPDATE of all older heads, and the commit.
Commit(q) ==
  /\ request[q].phase = "supersede"
  /\ LET r == request[q] IN rows' = Supersede(Append1(r.version, r.pursued), Elders(r.version))
  /\ request' = [request EXCEPT ![q] = Idle]
  /\ healed' = (q \in alone)
  /\ alone' = alone \ {q}
  /\ UNCHANGED <<pursued, engine, troubled>>

Abort(q) ==
  /\ request[q] # Idle
  /\ request' = [request EXCEPT ![q] = Idle]
  /\ alone' = alone \ {q}
  /\ UNCHANGED <<rows, pursued, engine, troubled, healed>>

(***************************************************************************)
(* persist_scenario: no pursuit, no transaction, no exception.             *)
(***************************************************************************)
Latest == Max({0} \cup {i \in DOMAIN rows : rows[i].version = Highest})
Lookup(e, ok) ==
  /\ engine[e] = Resting /\ Len(rows) < MaxRows
  /\ engine' = [engine EXCEPT ![e] =
       IF ok THEN [phase |-> "insert", version |-> Highest + 1, previous |-> Latest]
       ELSE [phase |-> "insert", version |-> 1, previous |-> 0]]
  /\ alone' = IF Busy = {} THEN {e} ELSE {}
  /\ troubled' = (troubled \/ Busy # {} \/ ~ok)
  /\ UNCHANGED <<rows, pursued, request, healed>>

InsertScenario(e, ok) ==
  /\ engine[e].phase = "insert"
  /\ IF ok THEN rows' = Append1(engine[e].version, FALSE) /\ healed' = FALSE
     ELSE UNCHANGED <<rows, healed>>
  /\ engine' = [engine EXCEPT ![e] =
       IF ok /\ @.previous # 0 THEN [@ EXCEPT !.phase = "supersede"] ELSE Resting]
  /\ UNCHANGED <<pursued, request, alone, troubled>>

SupersedeScenario(e, ok) ==
  /\ engine[e].phase = "supersede"
  /\ IF ok THEN rows' = Supersede(rows, {engine[e].previous}) ELSE UNCHANGED rows
  /\ troubled' = (troubled \/ ~ok)
  /\ engine' = [engine EXCEPT ![e] = Resting]
  /\ UNCHANGED <<pursued, request, alone, healed>>

Die(e) ==
  /\ engine[e] # Resting
  /\ engine' = [engine EXCEPT ![e] = Resting]
  /\ troubled' = TRUE
  /\ UNCHANGED <<rows, pursued, request, alone, healed>>

Next ==
  \/ CreatePursuit
  \/ \E q \in Requests : \/ ReadVersion(q) \/ Insert(q) \/ InsertFails(q)
                         \/ Commit(q) \/ Abort(q)
  \/ \E e \in Engines, ok \in BOOLEAN : \/ Lookup(e, ok) \/ InsertScenario(e, ok)
                                        \/ SupersedeScenario(e, ok)
  \/ \E e \in Engines : Die(e)

Spec == Init /\ [][Next]_vars

TypeOK ==
  /\ rows \in Seq([version : Nat, pursued : BOOLEAN, superseded : BOOLEAN])
  /\ pursued \in BOOLEAN /\ troubled \in BOOLEAN /\ healed \in BOOLEAN
  /\ request \in [Requests -> [phase : {"idle", "insert", "supersede"}, version : Nat,
                               pursued : BOOLEAN]]
  /\ engine \in [Engines -> [phase : {"idle", "insert", "supersede"}, version : Nat,
                             previous : Nat]]
  /\ alone \subseteq Requests \cup Engines

(***************************************************************************)
(* Properties.                                                             *)
(***************************************************************************)
\* One version of a scenario is current, the newest: while no creations
\* overlapped and nothing failed, except between an engine's last two
\* statements; and again, whatever happened, once a console creation ran alone.
OneHead ==
  /\ healed => Heads = {Len(rows)}
  /\ ~troubled /\ (\A e \in Engines : engine[e].phase # "supersede") /\ rows # <<>>
       => Heads = {Len(rows)} /\ rows[Len(rows)].version = Highest

(***************************************************************************)
(* The inductive invariant behind OneHead.                                 *)
(***************************************************************************)
\* There are no more versions than rows, so there is a highest one; an engine's previous
\* row is a row, and not the one that the engine itself has inserted.
VersionsAreBounded ==
  /\ \A i \in DOMAIN rows : rows[i].version <= Len(rows)
  /\ \A q \in Requests : request[q].version <= Len(rows) + 1
  /\ \A e \in Engines :
       /\ engine[e].version <= Len(rows) + 1
       /\ engine[e].previous <= Len(rows)
       /\ engine[e].phase = "supersede" => engine[e].previous \in 1..(Len(rows) - 1)

\* Who is alone, or creates while nothing is troubled, knows the newest row.
AloneIsInformed ==
  /\ \A x \in alone : Busy \subseteq {x}
  /\ ~troubled => \A x, y \in Busy : x = y
  /\ \A q \in Requests :
       request[q] # Idle /\ (~troubled \/ q \in alone) => request[q].version = Highest + 1
  /\ \A e \in Engines :
       engine[e].phase = "insert" /\ ~troubled =>
         engine[e].version = Highest + 1 /\ engine[e].previous = Len(rows)

\* The current rows: the newest one, and what an engine has still to supersede.
Superseding == {e \in Engines : engine[e].phase = "supersede"}
HeadsAreKnown ==
  /\ healed => Heads = {Len(rows)}
  /\ ~troubled /\ rows # <<>> =>
       /\ rows[Len(rows)].version = Highest
       /\ Heads = {Len(rows)} \cup {engine[e].previous : e \in Superseding}

HeadInv == TypeOK /\ VersionsAreBounded /\ AloneIsInformed /\ HeadsAreKnown
=============================================================================
