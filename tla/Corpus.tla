------------------------------- MODULE Corpus -------------------------------
(***************************************************************************)
(* The jobs that keep the corpus in order, and the pool that its tenants   *)
(* share: the search index, the schema migrations, the pulls of a second   *)
(* source, the merging of names, the checks of what was captured, and the  *)
(* BoQ lines behind the benchmarks.  And the models that draw prices from  *)
(* it: the bid optimizer, the market and competitor bands, participation,  *)
(* the explanation of a price, and the review of a sheet.  They take no    *)
(* step together either: focus and v1 .. v12 are those of Workspace.       *)
(***************************************************************************)
EXTENDS Workspace, Sequences, FiniteSets

CONSTANTS
  IndexedRows, IndexBatch, IndexVersions, IndexDeaths,     \* of SearchIndex
  SchemaFiles, SchemaRuns,                                 \* of SchemaMigrations
  ForsahBids, ForsahChanges,                               \* of ForsahPull
  VendorTenders, VendorKey, VendorRows, VendorStores,      \* of VendorMerge
  AgencyTenders, AgencyKey, AgencyRuns,                    \* of AgencyLinks
  CheckPage, CheckHead, CheckSample, CheckDrawn,           \* of CaptureChecks: pages, sizes,
  CheckGap, CheckPass,                                     \* its per cents
  CheckTenders, CheckGone, CheckRuns,                      \* and bounds
  BoqDocuments, BoqItems, BoqSheets, BoqRuns,              \* of BoqPool
  BoqHeader, BoqStop, BoqContributors, BoqLookback, BoqClock

\* Files have an order; names and spellings are numbered, and so are the keys that they are
\* compared by; no tender is the 0 that stands for none; a page has rows; a pass rate is a
\* per cent; an item is not the "none" of a line without a match.
ASSUME CorpusAssumption ==
  /\ IndexedRows \in Nat /\ IndexBatch \in Nat \ {0}
  /\ IndexVersions \in Nat /\ IndexDeaths \in Nat
  /\ SchemaFiles \subseteq Nat /\ SchemaRuns \in Nat
  /\ ForsahBids \in Nat /\ ForsahChanges \in Nat
  /\ 0 \notin VendorTenders /\ VendorKey \in Seq(Nat)
  /\ VendorRows \in Nat /\ VendorStores \in Nat
  /\ AgencyKey \in Seq(Nat) /\ AgencyRuns \in Nat
  /\ CheckPage \in Nat \ {0} /\ CheckHead \in Nat \ {0}
  /\ CheckSample \in Nat /\ CheckDrawn \in Nat /\ CheckGap \in Nat /\ CheckPass \in 0..100
  /\ CheckTenders \in Nat /\ CheckGone \in Nat /\ CheckRuns \in Nat
  /\ "none" \notin BoqItems /\ BoqClock \in Nat \ {0}

-----------------------------------------------------------------------------
Search == INSTANCE SearchIndex WITH
  LastId <- IndexedRows, Batch <- IndexBatch, MaxVersion <- IndexVersions,
  MaxDeaths <- IndexDeaths,
  row <- v1, stream <- v2, group <- v3, index <- v4, follower <- v5, bulk <- v6,
  deaths <- v7, missed <- v8, raced <- v9

Schema == INSTANCE SchemaMigrations WITH
  Runners <- Pair, Files <- SchemaFiles, MaxRuns <- SchemaRuns,
  directory <- v1, executed <- v2, recorded <- v3, runner <- v4, runs <- v5,
  baselined <- v6, together <- v7, late <- v8

Forsah == INSTANCE ForsahPull WITH
  Pulls <- Pair, MaxBids <- ForsahBids, MaxChanges <- ForsahChanges,
  source <- v1, row <- v2, pursued <- v3, events <- v4, pull <- v5, changes <- v6,
  overlapped <- v7, masked <- v8

Merging == INSTANCE VendorMerge WITH
  Tenders <- VendorTenders, Key <- VendorKey, MaxVendors <- VendorRows,
  MaxStores <- VendorStores,
  vendors <- v1, lastId <- v2, offers <- v3, store <- v4, stores <- v5, merge <- v6,
  settled <- v7

Agencies == INSTANCE AgencyLinks WITH
  Tenders <- AgencyTenders, Key <- AgencyKey, MaxRuns <- AgencyRuns,
  tender <- v1, agencies <- v2, run <- v3, runs <- v4, linkedBy <- v5, linkedAs <- v6

Capture == INSTANCE CaptureChecks WITH
  PageSize <- CheckPage, HeadPages <- CheckHead, SampleSize <- CheckSample,
  AuditPages <- CheckDrawn, GapPercent <- CheckGap, PassPercent <- CheckPass,
  MaxTenders <- CheckTenders, MaxGone <- CheckGone, MaxRuns <- CheckRuns,
  listing <- v1, published <- v2, corpus <- v3, walk <- v4, gaps <- v5, audit <- v6,
  verdict <- v7, runs <- v8, gone <- v9, head <- v10, ownHeal <- v11, shifted <- v12

Boq == INSTANCE BoqPool WITH
  Tenants <- Pair, Documents <- BoqDocuments, Items <- BoqItems, Sheets <- BoqSheets,
  Runs <- BoqRuns, HeaderScan <- BoqHeader, EmptyStop <- BoqStop,
  MinContributors <- BoqContributors, Lookback <- BoqLookback, MaxClock <- BoqClock,
  clock <- v1, catalogue <- v2, docs <- v3, bench <- v4, run <- v5, gone <- v6

\* A workbook is a list of rows, and the header is sought in rows that it has numbers for.
ASSUME SheetAssumption == BoqSheets \subseteq Seq(Boq!Row) /\ BoqHeader \in Nat /\ BoqStop \in Nat

-----------------------------------------------------------------------------
CorpusInit ==
  \/ focus = "search" /\ Search!Init /\ After9
  \/ focus = "schema" /\ Schema!Init /\ After8
  \/ focus = "forsah" /\ Forsah!Init /\ After8
  \/ focus = "vendors" /\ Merging!Init /\ After7
  \/ focus = "agencies" /\ Agencies!Init /\ After6
  \/ focus = "capture" /\ Capture!Init
  \/ focus = "boq" /\ Boq!Init /\ After6

CorpusNext ==
  \/ focus = "search" /\ Search!Next /\ UNCHANGED <<focus, v10, v11, v12>>
  \/ focus = "schema" /\ Schema!Next /\ UNCHANGED <<focus, v9, v10, v11, v12>>
  \/ focus = "forsah" /\ Forsah!Next /\ UNCHANGED <<focus, v9, v10, v11, v12>>
  \/ focus = "vendors" /\ Merging!Next /\ UNCHANGED <<focus, v8, v9, v10, v11, v12>>
  \/ focus = "agencies" /\ Agencies!Next /\ UNCHANGED <<focus, v7, v8, v9, v10, v11, v12>>
  \/ focus = "capture" /\ Capture!Next /\ UNCHANGED <<focus>>
  \/ focus = "boq" /\ Boq!Next /\ UNCHANGED <<focus, v7, v8, v9, v10, v11, v12>>

CorpusSpec == CorpusInit /\ [][CorpusNext]_vars

-----------------------------------------------------------------------------
\* Of the components' variables.
CorpusTypeOK ==
  /\ focus = "search" => Search!TypeOK
  /\ focus = "schema" => Schema!TypeOK
  /\ focus = "forsah" => Forsah!TypeOK
  /\ focus = "vendors" => Merging!TypeOK
  /\ focus = "agencies" => Agencies!TypeOK
  /\ focus = "capture" => Capture!TypeOK
  /\ focus = "boq" => Boq!TypeOK

\* What the jobs around the corpus promise, whoever overlaps them: the index follows the
\* rows (indexer.py), a file is recorded with its statements and executed in its turn
\* (migrate.py), an opportunity's events tell its changes (forsah.py), merging vendors takes
\* no offer from its own and agencies unite the spellings that tenders were linked by
\* (resolution.py); the checks of what was captured heal and count what they claim to
\* (reconcile.py, audit.py); and a benchmark computed after a withdrawal holds no line of
\* the document (item_benchmarks.py).
CorpusIsKept ==
  /\ focus = "search" => Search!IndexIsCurrent
  /\ focus = "schema" => Schema!RecordedIffCommitted /\ Schema!ExecutedOnceInOrder
  /\ focus = "forsah" => Forsah!CreatedFirst /\ Forsah!AwardIsAnnounced /\ Forsah!RisesAddUp
  /\ focus = "vendors" => Merging!OffersKeepTheirVendor /\ Merging!OneVendorPerKey
  /\ focus = "agencies" => Agencies!SpellingsUnite
  /\ focus = "capture" =>
       Capture!HeadIsCaptured /\ Capture!HealedOnce /\ Capture!AuditIsHonest
  /\ focus = "boq" => Boq!WithdrawalHolds

=============================================================================
