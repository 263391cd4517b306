-------------------------- MODULE DeadlineReminders --------------------------
(***************************************************************************)
(* reminders.py: an hourly job that emits one tender.deadline event for    *)
(* each threshold before the closing of a pursued tender.  The tender's    *)
(* closing date moves under it and the pursuit's stage changes.            *)
(*                                                                         *)
(* Time is in ticks much longer than an hour; Thresholds are in ticks.     *)
(***************************************************************************)
EXTENDS Naturals, FiniteSets

CONSTANTS
  Thresholds,   \* 72 h and 24 h
  MaxClock,     \* bound: ticks that pass
  MaxMoves      \* bound: changes of the date or of the stage

VARIABLES
  clock,
  closing,      \* last_offer_date
  open,         \* the pursuit's stage is not submitted, won or lost
  emitted,      \* tender.deadline events by threshold
  job,          \* the job: threshold at hand, rows found, the tick it began in
  doneAt,       \* the tick in which the last complete run began
  moves,
  steadySince   \* history: tick of the last change of the date or the stage

vars == <<clock, closing, open, emitted, job, doneAt, moves, steadySince>>

None == 0       \* neither a threshold nor a tick of a run
Idle == [phase |-> "idle", left |-> {}, threshold |-> None, began |-> 0]
Largest(S) == CHOOSE x \in S : \A y \in S : y <= x

TypeOK ==
  /\ clock \in 1..MaxClock
  /\ closing \in 1..(MaxClock + 1)
  /\ open \in BOOLEAN
  /\ emitted \in [Thresholds -> Nat]
  /\ job \in [phase : {"idle", "find", "check", "insert"}, left : SUBSET Thresholds,
              threshold : Thresholds \cup {None}, began : 0..MaxClock]
  /\ doneAt \in 0..MaxClock
  /\ moves \in 0..MaxMoves
  /\ steadySince \in 1..MaxClock

Init ==
  /\ clock = 1
  /\ closing \in 1..(MaxClock + 1)
  /\ open = TRUE
  /\ emitted = [th \in Thresholds |-> 0]
  /\ job = Idle
  /\ doneAt = None
  /\ moves = 0
  /\ steadySince = 1

\* Cron is punctual: a run that began in a tick ends in it, or a later run does.
Tick ==
  /\ clock < MaxClock
  /\ doneAt = clock
  /\ clock' = clock + 1
  /\ UNCHANGED <<closing, open, emitted, job, doneAt, moves, steadySince>>

Start ==
  /\ job.phase = "idle"
  /\ job' = [phase |-> "find", left |-> Thresholds, threshold |-> None, began |-> clock]
  /\ UNCHANGED <<clock, closing, open, emitted, doneAt, moves, steadySince>>

Due_Hours(th) == open /\ clock < closing /\ closing = clock + th   \* Mutant: on the threshold only
\* FIND_SQL; the ends of the interval are excluded.
Due(th) == open /\ clock < closing /\ closing < clock + th

Find ==
  /\ job.phase = "find"
  /\ IF job.left = {}
     THEN /\ job' = Idle
          /\ doneAt' = job.began
     ELSE LET th == Largest(job.left) IN
          /\ job' = [job EXCEPT !.left = @ \ {th}, !.threshold = th,
                                !.phase = IF Due(th) THEN "check" ELSE "find"]
          /\ UNCHANGED doneAt
  /\ UNCHANGED <<clock, closing, open, emitted, moves, steadySince>>

Already_Never(th) == FALSE   \* Mutant
\* ALREADY_SQL looks for an event of this threshold, whatever date it was for.
Already(th) == emitted[th] > 0

Check ==
  /\ job.phase = "check"
  /\ job' = [job EXCEPT !.phase = IF Already(job.threshold) THEN "find" ELSE "insert"]
  /\ UNCHANGED <<clock, closing, open, emitted, doneAt, moves, steadySince>>

Insert ==
  /\ job.phase = "insert"
  /\ emitted' = [emitted EXCEPT ![job.threshold] = @ + 1]
  /\ job' = [job EXCEPT !.phase = "find"]
  /\ UNCHANGED <<clock, closing, open, doneAt, moves, steadySince>>

Die ==
  /\ job.phase # "idle"
  /\ job' = Idle
  /\ UNCHANGED <<clock, closing, open, emitted, doneAt, moves, steadySince>>

\* A harvest that sees another closing date.
MoveDate(d) ==
  /\ moves < MaxMoves /\ d # closing
  /\ closing' = d
  /\ moves' = moves + 1
  /\ steadySince' = clock
  /\ UNCHANGED <<clock, open, emitted, job, doneAt>>

PatchStage ==
  /\ moves < MaxMoves
  /\ open' = ~open
  /\ moves' = moves + 1
  /\ steadySince' = clock
  /\ UNCHANGED <<clock, closing, emitted, job, doneAt>>

Next ==
  \/ Tick \/ Start \/ Find \/ Check \/ Insert \/ Die
  \/ \E d \in 1..(MaxClock + 1) : MoveDate(d)
  \/ PatchStage

Spec == Init /\ [][Next]_vars

(***************************************************************************)
(* Properties.                                                             *)
(***************************************************************************)
\* One event per threshold, however often the job runs or dies: the check and
\* the INSERT are two statements of a job that never runs twice at once.
RemindedOnce == \A th \in Thresholds : emitted[th] <= 1

\* A pursuit that was open, and whose date stood, for a whole tick before the
\* closing within a threshold has been reminded by the time it closes, if only
\* by the event of an earlier date (ALREADY_SQL does not tell them apart).
WarnedInTime ==
  \A th \in Thresholds :
    /\ clock >= closing
    /\ open
    /\ \E c \in (steadySince + 1)..(closing - 1) : closing < c + th
    => emitted[th] > 0

(***************************************************************************)
(* The inductive invariant behind both.                                    *)
(***************************************************************************)
\* No time runs ahead; a threshold about to be emitted has not been.
InOrder ==
  /\ doneAt <= clock /\ job.began <= clock /\ steadySince <= clock
  /\ job.phase \in {"check", "insert"} => job.threshold # None
  /\ job.phase = "insert" => emitted[job.threshold] = 0

\* The thresholds that the run is through with.
Passed == {th \in Thresholds \ job.left : job.phase = "find" \/ th # job.threshold}

\* What is due has been emitted: where the run of a steady tick has been, when it
\* is complete, and so, for each tick gone by, what was due in it.
Reminding ==
  /\ steadySince < clock /\ job.began = clock =>
       \A th \in Passed : Due(th) => emitted[th] > 0
  /\ steadySince < clock /\ doneAt = clock =>
       \A th \in Thresholds : Due(th) => emitted[th] > 0
  /\ \A c \in (steadySince + 1)..(clock - 1), th \in Thresholds :
       open /\ c < closing /\ closing < c + th => emitted[th] > 0

DeadlineInv == TypeOK /\ RemindedOnce /\ InOrder /\ Reminding
=============================================================================
