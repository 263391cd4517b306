----------------------------- MODULE Workspace -----------------------------
(***************************************************************************)
(* The bidder's workspace: a price-to-win call and the fit of a tender,    *)
(* scenarios, the pursuit desk, the clock that scores predictions, and the *)
(* jobs that notify.  The components share tables but take no step         *)
(* together, so one behaviour follows one of them: `focus` names it, and   *)
(* v1 .. v12 hold its variables, in the order of its declaration.          *)
(***************************************************************************)
EXTENDS Integers, FiniteSets

CONSTANTS
  Pair,            \* two interchangeable actors: requests, runs, tenants or vendors
  Engines, MaxRows,                                          \* of ScenarioVersions
  Ticks, Closing, Openings, MaxPreds, MaxScored,             \* of PredictionClock,
  AccuracyClock, AccuracyChanges,                            \* its MaxClock and MaxChanges
  Tenants, DeskResults, Values, MaxSims, MaxDeaths,          \* of PursuitDesk
  Notes, DigestDay, DigestClock, DigestEdits,                \* of DigestQueue
  Thresholds, DeadlineClock, DeadlineMoves,                  \* of DeadlineReminders
  MilestoneClock, MilestoneEdits,                            \* of MilestoneReminders
  Codes, LinkUpdates, LinkFailures, LinkEdits,               \* of TelegramLinks
  Activities, FitGrades, Places, FitChanges                  \* of EligibilityFit

\* The names of the actors are their own; an opening has a date or none; an award's value
\* is positive; what a page leaves out is no activity, grade or place.
ASSUME WorkspaceAssumption ==
  /\ Pair \cap Engines = {}
  /\ Ticks \in Nat \ {0} /\ Openings \subseteq 0..AccuracyClock
  /\ AccuracyClock \in Nat \ {0} /\ AccuracyChanges \in Nat
  /\ "worker" \notin Pair /\ Values \subseteq Nat \ {0}
  /\ MaxSims \in Nat /\ MaxDeaths \in Nat
  /\ Notes # {} /\ DigestDay \in Nat \ {0} /\ DigestClock \in Nat /\ DigestEdits \in Nat
  /\ IsFiniteSet(Thresholds) /\ Thresholds \subseteq Nat \ {0}
  /\ DeadlineClock \in Nat \ {0} /\ DeadlineMoves \in Nat
  /\ MilestoneClock \in Nat \ {0} /\ MilestoneEdits \in Nat
  /\ Pair \cap {"none", "console", "typed"} = {}
  /\ LinkUpdates \in Nat /\ LinkFailures \in Nat /\ LinkEdits \in Nat
  /\ 0 \notin Activities /\ FitGrades \cap {"absent", "none"} = {} /\ "absent" \notin Places
  /\ FitChanges \in Nat

VARIABLES focus, v1, v2, v3, v4, v5, v6, v7, v8, v9, v10, v11, v12

slots == <<v1, v2, v3, v4, v5, v6, v7, v8, v9, v10, v11, v12>>
vars == <<focus, slots>>

-----------------------------------------------------------------------------
Pipeline == INSTANCE PriceToWin WITH
  Competitors <- Pair,
  stage <- v1, ask <- v2, caps <- v3, market <- v4, field <- v5, level <- v6, row <- v7,
  curve <- v8, result <- v9, tested <- v10, answer <- v11

Scenarios == INSTANCE ScenarioVersions WITH
  Requests <- Pair, Engines <- Engines, MaxRows <- MaxRows,
  rows <- v1, pursued <- v2, request <- v3, engine <- v4, alone <- v5, troubled <- v6,
  healed <- v7

Accuracy == INSTANCE PredictionClock WITH
  Runs <- Pair, Ticks <- Ticks, Closing <- Closing, Openings <- Openings,
  MaxClock <- AccuracyClock, MaxChanges <- AccuracyChanges, MaxPreds <- MaxPreds,
  MaxScored <- MaxScored,
  clock <- v1, opening <- v2, awards <- v3, firstSeen <- v4, preds <- v5, scored <- v6,
  noted <- v7, run <- v8, known <- v9, loose <- v10, changes <- v11

Digest == INSTANCE DigestQueue WITH
  Notes <- Notes, Day <- DigestDay, MaxClock <- DigestClock, MaxEdits <- DigestEdits,
  clock <- v1, profile <- v2, row <- v3, engine <- v4, digest <- v5, digestRow <- v6,
  edits <- v7, told <- v8, overlapped <- v9, cutOff <- v10

Deadlines == INSTANCE DeadlineReminders WITH
  Thresholds <- Thresholds, MaxClock <- DeadlineClock, MaxMoves <- DeadlineMoves,
  clock <- v1, closing <- v2, open <- v3, emitted <- v4, job <- v5, doneAt <- v6,
  moves <- v7, steadySince <- v8

Milestones == INSTANCE MilestoneReminders WITH
  Jobs <- Pair, MaxClock <- MilestoneClock, MaxEdits <- MilestoneEdits,
  clock <- v1, due <- v2, completed <- v3, linked <- v4, notif <- v5, job <- v6,
  edits <- v7, messages <- v8

Desk == INSTANCE PursuitDesk WITH
  Tenants <- Tenants, Requests <- Pair, Results <- DeskResults, Values <- Values,
  MaxSims <- MaxSims, MaxDeaths <- MaxDeaths,
  pursuit <- v1, request <- v2, worker <- v3, sims <- v4, award <- v5, outcome <- v6,
  deaths <- v7, overlaps <- v8

Fit == INSTANCE EligibilityFit WITH
  Batches <- Pair, Activities <- Activities, Grades <- FitGrades, Places <- Places,
  MaxChanges <- FitChanges,
  activity <- v1, published <- v2, open <- v3, details <- v4, profile <- v5, batch <- v6,
  request <- v7, answer <- v8, changes <- v9, stored <- v10, stores <- v11, overlapped <- v12

Telegram == INSTANCE TelegramLinks WITH
  Chats <- Pair, Codes <- Codes, MaxUpdates <- LinkUpdates, MaxFailures <- LinkFailures,
  MaxEdits <- LinkEdits,
  code <- v1, updates <- v2, kept <- v3, bot <- v4, active <- v5, target <- v6, edit <- v7,
  edits <- v8, failures <- v9, linked <- v10, failed <- v11, told <- v12

-----------------------------------------------------------------------------
\* The slots after the first so many hold nothing.
After11 == v12 = 0
After10 == v11 = 0 /\ After11
After9 == v10 = 0 /\ After10
After8 == v9 = 0 /\ After9
After7 == v8 = 0 /\ After8
After6 == v7 = 0 /\ After7
After2 == v3 = 0 /\ v4 = 0 /\ v5 = 0 /\ v6 = 0 /\ After6

Init ==
  \/ focus = "pipeline" /\ Pipeline!Init /\ After11
  \/ focus = "scenarios" /\ Scenarios!Init /\ After7
  \/ focus = "accuracy" /\ Accuracy!Init /\ After11
  \/ focus = "digest" /\ Digest!Init /\ After10
  \/ focus = "deadlines" /\ Deadlines!Init /\ After8
  \/ focus = "milestones" /\ Milestones!Init /\ After8
  \/ focus = "desk" /\ Desk!Init /\ After8
  \/ focus = "fit" /\ Fit!Init
  \/ focus = "telegram" /\ Telegram!Init

Next ==
  \/ focus = "pipeline" /\ Pipeline!Next /\ UNCHANGED <<focus, v12>>
  \/ focus = "scenarios" /\ Scenarios!Next /\ UNCHANGED <<focus, v8, v9, v10, v11, v12>>
  \/ focus = "accuracy" /\ Accuracy!Next /\ UNCHANGED <<focus, v12>>
  \/ focus = "digest" /\ Digest!Next /\ UNCHANGED <<focus, v11, v12>>
  \/ focus = "deadlines" /\ Deadlines!Next /\ UNCHANGED <<focus, v9, v10, v11, v12>>
  \/ focus = "milestones" /\ Milestones!Next /\ UNCHANGED <<focus, v9, v10, v11, v12>>
  \/ focus = "desk" /\ Desk!Next /\ UNCHANGED <<focus, v9, v10, v11, v12>>
  \/ focus = "fit" /\ Fit!Next /\ UNCHANGED <<focus>>
  \/ focus = "telegram" /\ Telegram!Next /\ UNCHANGED <<focus>>

Spec == Init /\ [][Next]_vars

-----------------------------------------------------------------------------
\* Of the components' variables.
TypeOK ==
  /\ focus = "pipeline" => Pipeline!TypeOK
  /\ focus = "scenarios" => Scenarios!TypeOK
  /\ focus = "accuracy" => Accuracy!TypeOK
  /\ focus = "digest" => Digest!TypeOK
  /\ focus = "deadlines" => Deadlines!TypeOK
  /\ focus = "milestones" => Milestones!TypeOK
  /\ focus = "desk" => Desk!TypeOK
  /\ focus = "fit" => Fit!TypeOK
  /\ focus = "telegram" => Telegram!TypeOK

\* A capability level is claimed only when the stages below it delivered, and a curve or a
\* bid only with competitors behind it (orchestrator.py); a tender is called compliant only
\* on a page that was fetched, and a page fetched stays (fit_score.py, eligibility_enrich.py).
LadderIsEarned ==
  /\ focus = "pipeline" => Pipeline!LevelIsEarned /\ Pipeline!NumbersHaveAField
  /\ focus = "fit" => Fit!FitIsGrounded /\ Fit!FetchedOnce

\* At most one scenario of a tender is current, unless creations overlapped or failed and
\* none has completed since (app.py).
OneHead == focus = "scenarios" => Scenarios!OneHead

\* The scorecard counts a tender once, and only predictions older than the first sight of
\* its award (prediction_clock.py, 0019).
AccuracyIsBlind == focus = "accuracy" => Accuracy!ScoredBlind /\ Accuracy!CountedOnce

\* A notification reaches its reader in one message, and is called sent only once it has:
\* digests (digest.py), deadlines (reminders.py), milestones (milestone_reminders.py).  A
\* code links one chat, once, and the profile that waits for a chat gets it (telegram.py).
RemindersReachOnce ==
  /\ focus = "digest" => Digest!ToldOnce /\ Digest!SentWasTold
  /\ focus = "deadlines" => Deadlines!RemindedOnce /\ Deadlines!WarnedInTime
  /\ focus = "milestones" => Milestones!MilestoneToldOnce
  /\ focus = "telegram" =>
       Telegram!CodeLinksOnce /\ Telegram!SpentCodeLinked /\ Telegram!PlaceholderServed

\* A pursuit has one price baseline, and one more for each seeding that overlapped another of
\* it; an outcome that measured leaves no simulation committed before it without a
\* measurement (pricing_seed.py, app.py).
DeskIsMeasured == focus = "desk" => Desk!BaselinesAreCounted /\ Desk!OutcomesAreMeasured
=============================================================================
