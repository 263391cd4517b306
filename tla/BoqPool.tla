------------------------------ MODULE BoqPool ------------------------------
(***************************************************************************)
(* The BoQ workbench: upload, parsing and suggested matches (app.py,       *)
(* boq.py, catalogue_match.py), confirmation, consent, and the pooled item *)
(* benchmarks (item_benchmarks.py) that runs of the job read from all      *)
(* tenants' lines and write item by item.                                  *)
(***************************************************************************)
EXTENDS Naturals, Sequences, FiniteSets, FiniteSetsExt

CONSTANTS
  Tenants, Documents,
  Items,             \* catalogue items
  Sheets,            \* contents of a workbook: sequences of Row
  Runs,              \* runs of the benchmark job
  HeaderScan,        \* _MAX_HEADER_SCAN
  EmptyStop,         \* _EMPTY_STREAK_STOP
  MinContributors,   \* MIN_CONTRIBUTORS
  Lookback,          \* LOOKBACK_DAYS
  MaxClock           \* bound: days

VARIABLES
  clock,
  catalogue,   \* items created so far
  docs,        \* uploaded: tenant, day, consent, withdrawal, lines
  bench,       \* item_benchmarks: item, period_end, contributing lines
  run,         \* by run: phase, its now, the groups it has still to write
  gone         \* history: day of withdrawal by document

vars == <<clock, catalogue, docs, bench, run, gone>>

None == "none"
\* A row has a description ("line") or none ("blank"), is a header, or is a
\* line whose description holds a column's label.  "close" is the item its
\* text is near enough to, "fits" whether its unit is that of the items.
Row == [kind : {"header", "line", "label", "blank"}, close : Items \cup {None},
        fits : BOOLEAN, priced : BOOLEAN]
Line == [item : Items \cup {None}, by : {"user", None}, priced : BOOLEAN]
Consents == {"none", "active", "withdrawn"}
Idle == [phase |-> "idle", now |-> 0, groups |-> {}]

IsUpload(e) ==
  /\ e = [tenant |-> e.tenant, day |-> e.day, lines |-> e.lines, consent |-> e.consent]
  /\ e.tenant \in Tenants /\ e.day \in 1..clock /\ e.consent \in Consents
  /\ e.lines \in [DOMAIN e.lines -> Line]
IsRun(e) ==
  /\ e = [phase |-> e.phase, now |-> e.now, groups |-> e.groups]
  /\ e.phase \in {"idle", "read", "write"}
  /\ e.now \in IF e.phase = "idle" THEN {0} ELSE 1..clock
  /\ \A g \in e.groups : g.item \in Items

TypeOK ==
  /\ clock \in 1..MaxClock
  /\ catalogue \subseteq Items
  /\ DOMAIN docs \subseteq Documents /\ \A d \in DOMAIN docs : IsUpload(docs[d])
  /\ \A b \in bench : b.item \in Items /\ b.day \in 1..clock
  /\ DOMAIN run = Runs /\ \A r \in Runs : IsRun(run[r])
  /\ gone \in [Documents -> 0..MaxClock]

Init ==
  /\ clock = 1
  /\ catalogue \in {{}, Items}
  /\ docs = [d \in {} |-> None]
  /\ bench = {}
  /\ run = [r \in Runs |-> Idle]
  /\ gone = [d \in Documents |-> 0]

Tick ==
  /\ clock < MaxClock
  /\ clock' = clock + 1
  /\ UNCHANGED <<catalogue, docs, bench, run, gone>>

(***************************************************************************)
(* Upload.                                                                 *)
(***************************************************************************)
\* The header is sought in the first rows only.
HeaderRows(sheet) == {i \in 1..HeaderScan : i \in DOMAIN sheet /\ sheet[i].kind = "header"}
\* Rows that end a streak of EmptyStop blank ones, and the last row read.
Stops(sheet, from) ==
  {i \in DOMAIN sheet : /\ i - EmptyStop >= from
                        /\ \A j \in (i - EmptyStop + 1)..i : sheet[j].kind = "blank"}
\* The rows that become lines; a line is known by its row.
Parsed(sheet) ==
  IF HeaderRows(sheet) = {} THEN {}
  ELSE LET head == Min(HeaderRows(sheet))
           last == Min(Stops(sheet, head) \cup {Len(sheet)}) IN
       {i \in (head + 1)..last : sheet[i].kind = "line"}

\* suggest_match: two candidates or no suggestion at all; the nearer one is
\* stored as the line's item, unconfirmed.
Suggested(row) ==
  IF row.fits /\ Cardinality(catalogue) >= 2 /\ row.close \in catalogue
  THEN row.close ELSE None

\* A file without lines is refused before anything is stored.
Upload(d, t, sheet, consent) ==
  /\ d \notin DOMAIN docs /\ gone[d] = 0
  /\ Parsed(sheet) # {}
  /\ LET lines == [i \in Parsed(sheet) |->
                     [item |-> Suggested(sheet[i]), by |-> None, priced |-> sheet[i].priced]]
         doc == [tenant |-> t, day |-> clock, lines |-> lines,
                 consent |-> IF consent THEN "active" ELSE "none"] IN
     docs' = [e \in DOMAIN docs \cup {d} |-> IF e = d THEN doc ELSE docs[e]]
  /\ UNCHANGED <<clock, catalogue, bench, run, gone>>

CreateCatalogueItem(i) ==
  /\ i \notin catalogue
  /\ catalogue' = catalogue \cup {i}
  /\ UNCHANGED <<clock, docs, bench, run, gone>>

\* patch_line_match: confirmed by the user of the session; a service token has
\* no user, and a cleared match no confirmation.
PatchLineMatch(d, n, item, who) ==
  /\ item \in catalogue \cup {None}
  /\ docs' = [docs EXCEPT ![d].lines[n].item = item,
                          ![d].lines[n].by = IF item = None THEN None ELSE who]
  /\ UNCHANGED <<clock, catalogue, bench, run, gone>>

\* The consent row is closed; the flag on the document stays.
WithdrawConsent(d) ==
  /\ d \in DOMAIN docs /\ docs[d].consent = "active"
  /\ docs' = [docs EXCEPT ![d].consent = "withdrawn"]
  /\ gone' = [gone EXCEPT ![d] = clock]
  /\ UNCHANGED <<clock, catalogue, bench, run>>

\* Lines, findings and consents go with it, published benchmarks do not.
DeleteDocument(d) ==
  /\ d \in DOMAIN docs
  /\ docs' = [e \in DOMAIN docs \ {d} |-> docs[e]]
  /\ gone' = [gone EXCEPT ![d] = IF @ = 0 THEN clock ELSE @]
  /\ UNCHANGED <<clock, catalogue, bench, run>>

(***************************************************************************)
(* The benchmarks.                                                         *)
(***************************************************************************)
\* Mutant: by the flag that the upload set.
Pooled_ByFlag(d) == docs[d].consent \in {"active", "withdrawn"}
Pooled(d) == docs[d].consent = "active"

\* MATERIALIZE_SQL for one item and a run's own now.
Contributing(item, now) ==
  UNION {{[doc |-> d, tenant |-> docs[d].tenant, line |-> n] :
            n \in {n \in DOMAIN docs[d].lines : LET l == docs[d].lines[n] IN
                     l.item = item /\ l.by # None /\ l.priced}} :
         d \in {d \in DOMAIN docs : Pooled(d) /\ docs[d].day + Lookback >= now}}
Tenancy(lines) == {l.tenant : l \in lines}

Start(r) ==
  /\ run[r] = Idle
  /\ run' = [run EXCEPT ![r] = [Idle EXCEPT !.phase = "read", !.now = clock]]
  /\ UNCHANGED <<clock, catalogue, docs, bench, gone>>

Materialize(r) ==
  /\ run[r].phase = "read"
  /\ LET groups == {g \in {[item |-> i, lines |-> Contributing(i, run[r].now)] : i \in Items} :
                      Cardinality(Tenancy(g.lines)) >= MinContributors} IN
     run' = [run EXCEPT ![r] = IF groups = {} THEN Idle
                               ELSE [@ EXCEPT !.phase = "write", !.groups = groups]]
  /\ UNCHANGED <<clock, catalogue, docs, bench, gone>>

\* UPSERT_SQL: one row by item and day, each in a transaction of its own.
Upsert(r, g) ==
  /\ run[r].phase = "write" /\ g \in run[r].groups
  /\ bench' = {b \in bench : b.item # g.item \/ b.day # run[r].now}
                \cup {[item |-> g.item, day |-> run[r].now, lines |-> g.lines]}
  /\ run' = [run EXCEPT ![r] = IF run[r].groups = {g} THEN Idle
                               ELSE [run[r] EXCEPT !.groups = run[r].groups \ {g}]]
  /\ UNCHANGED <<clock, catalogue, docs, gone>>

Die(r) ==
  /\ run[r] # Idle
  /\ run' = [run EXCEPT ![r] = Idle]
  /\ UNCHANGED <<clock, catalogue, docs, bench, gone>>

\* get_item_benchmark: the latest period, however old it is.
Served(item) == {b \in bench : b.item = item /\ \A c \in bench : c.item = item => c.day <= b.day}

Next ==
  \/ Tick
  \/ \E d \in Documents : \/ WithdrawConsent(d) \/ DeleteDocument(d)
                          \/ \E t \in Tenants, sheet \in Sheets, consent \in BOOLEAN :
                               Upload(d, t, sheet, consent)
  \/ \E d \in DOMAIN docs : \E n \in DOMAIN docs[d].lines :
       \E item \in Items \cup {None}, who \in {"user", None} : PatchLineMatch(d, n, item, who)
  \/ \E i \in Items : CreateCatalogueItem(i)
  \/ \E r \in Runs : \/ Start(r) \/ Materialize(r) \/ Die(r)
                     \/ \E g \in run[r].groups : Upsert(r, g)

Spec == Init /\ [][Next]_vars

(***************************************************************************)
(* Properties.                                                             *)
(***************************************************************************)
\* A price range is never shown on fewer than MinContributors tenants, and a
\* document whose consent was withdrawn, or that was deleted, feeds no benchmark
\* of a later day, however late a run writes.
WithdrawalHolds ==
  \A i \in Items : \A b \in Served(i) :
    /\ Cardinality(Tenancy(b.lines)) >= MinContributors
    /\ \A l \in b.lines : gone[l.doc] = 0 \/ b.day <= gone[l.doc]
-----------------------------------------------------------------------------
\* Lines that wait for a withdrawal to stop them: of a day not after it.
LinesHold(lines, day) ==
  \A l \in lines : l.doc \in Documents /\ (gone[l.doc] = 0 \/ day <= gone[l.doc])
Published(lines, day) == Cardinality(Tenancy(lines)) >= MinContributors /\ LinesHold(lines, day)

\* What a run has in hand and what it wrote rest on enough tenants, and on no
\* document withdrawn before the run's day; what is consented to is not gone.
PoolInv ==
  /\ TypeOK
  /\ \A d \in DOMAIN docs : docs[d].consent = "active" => gone[d] = 0
  /\ \A r \in Runs : \A g \in run[r].groups : Published(g.lines, run[r].now)
  /\ \A b \in bench : Published(b.lines, b.day)
=============================================================================
