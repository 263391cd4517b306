\* The market alone: three comparables of the subject, and a prediction that may be asked
\* for a year in the past.
CONSTANT Pair = {p1, p2}
CONSTANTS Engines = {"engine"} MaxRows = 4
CONSTANTS Ticks = 2 Closing = 3 Openings = {0, 2} MaxPreds = 2 MaxScored = 2
CONSTANTS AccuracyClock = 3 AccuracyChanges = 2
CONSTANTS Tenants = {"tenant"} DeskResults = {"won"} Values = {1} MaxSims = 2
CONSTANTS MaxDeaths = 1
CONSTANTS Notes = {"n1", "n2"} DigestDay = 2 DigestClock = 4 DigestEdits = 1
CONSTANTS Thresholds = {2, 6} DeadlineClock = 8 DeadlineMoves = 2
CONSTANTS MilestoneClock = 4 MilestoneEdits = 1
CONSTANTS Codes = {"c1", "c2"} LinkUpdates = 2 LinkFailures = 1 LinkEdits = 1
CONSTANTS Activities = {1, 2} FitGrades = {"g"} Places = {"north"} FitChanges = 1
CONSTANTS IndexedRows = 2 IndexBatch = 2 IndexVersions = 2 IndexDeaths = 1
CONSTANTS SchemaFiles = {1, 2, 3} SchemaRuns = 3 ForsahBids = 2 ForsahChanges = 2
CONSTANTS VendorTenders = {1, 2} VendorKey <- TwoOfThree VendorRows = 4 VendorStores = 4
CONSTANTS AgencyTenders = {1, 2, 3} AgencyKey <- TwoOfThree AgencyRuns = 2
CONSTANTS CheckPage = 1 CheckHead = 2 CheckSample = 2 CheckDrawn = 2 CheckGap = 2
CONSTANTS CheckPass = 99 CheckTenders = 3 CheckGone = 1 CheckRuns = 2
CONSTANTS BoqDocuments = {"d1", "d2"} BoqItems = {"i1", "i2"} BoqSheets <- Sheets
CONSTANTS BoqRuns = {"job"} BoqHeader = 2 BoqStop = 2 BoqContributors = 2 BoqLookback = 1
CONSTANTS BoqClock = 2
CONSTANTS BidGrid = {4, 6, 9} BidRivals = {p1, p2} BidOffers = {4, 5, 7} BidIterations = 2 BidCosts = {0, 3}
CONSTANTS BidMargins = {20, 50} BidFloors = {0, 5} BidTargets = {0, 50} BidReserves = {0, 2}
CONSTANTS BidCaps = {0, 7}
CONSTANTS MarketMinimum <- MarketTiers MarketEffective <- MarketRecent
CONSTANTS MarketSubjects <- Subjects MarketIds = {1, 2, 3} MarketValues = {2, 6}
CONSTANTS MarketLevels <- IndexLevels MarketGrowth <- YearlyGrowth MarketLimit = 3
CONSTANTS MarketClock = 3 MarketVisits = 3
CONSTANTS RivalMinimum <- RivalTiers RivalEffective <- RivalRecent RivalOffers = {1, 2, 3, 4}
CONSTANTS RivalCorpora <- Corpora RivalBackgrounds <- Backgrounds RivalK = 1 RivalPrior = 2
CONSTANTS RivalVariance <- LeastVariance RivalClock = 3 RivalVisits = 5
CONSTANTS PastTenders = {1, 2, 3, 4} PastVendors = {1, 2} PastRecords <- Records
CONSTANTS PastEvidence = 2 PastMinTenders = 2 PastMinEvents = 2 PastLimit = 4 PastClock = 4
CONSTANTS PastVisits = 5
CONSTANTS ShownTenders = {1, 2} ShownVendors = {"v"} ShownValues = {1, 2} ShownThin = 2
CONSTANTS ShownVisits = 2
CONSTANTS ReviewSheets <- ThreeLines ReviewTop = 1 ReviewShare = 100 ReviewTolerance = 1
CONSTANT Markets <- OldMarkets
SPECIFICATION MarketSpec
INVARIANT SampleWasKnowable
CHECK_DEADLOCK FALSE
