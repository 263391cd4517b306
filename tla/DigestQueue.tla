----------------------------- MODULE DigestQueue -----------------------------
(***************************************************************************)
(* One alert profile and the notifications queued for it: the alert engine *)
(* inserts a row, perhaps sends it, and records the result (alerts.handle);*)
(* the daily digest (digest.main, started by cron) sums up the pending     *)
(* rows of the last day, sends the summary and marks rows as sent; the     *)
(* owner edits and switches the profile (console).  Every statement is a   *)
(* transaction of its own and evaluates its own now().                     *)
(*                                                                         *)
(* Time is in ticks, Day of them from one run of the digest to the next.   *)
(***************************************************************************)
EXTENDS Naturals, FiniteSets

CONSTANTS
  Notes,       \* events that concern the profile
  Day,         \* ticks between digests, and the window of a digest
  MaxClock,    \* bound: ticks that pass
  MaxEdits     \* bound: edits of the profile by its owner

VARIABLES
  clock,       \* now()
  profile,     \* the row of alert_profiles: active, digest_interval
  row,         \* notifications: status and created_at by event
  engine,      \* the alert engine: phase, event in hand, interval it has read
  digest,      \* the digest job: phase, groups summed up, the day it ran for
  digestRow,   \* status of the newest digest.daily row, "none" before
  edits,
  told,        \* history: messages that carried the notification
  overlapped,  \* history: rows in the engine's hands while a digest ran
  cutOff       \* history: rows of a summary sent by a job that did not mark them

vars == <<clock, profile, row, engine, digest, digestRow, edits, told, overlapped, cutOff>>

Intervals == {"instant", "hourly", "daily"}
Results == {"sent", "failed", "pending"}   \* what Sender.send returns
NoRow == [status |-> "none", created |-> 0]
EngineIdle == [phase |-> "idle", note |-> CHOOSE n \in Notes : TRUE,
               interval |-> "instant", result |-> "pending"]
DigestIdle(day) == [phase |-> "idle", groups |-> {}, result |-> "pending", day |-> day]

TypeOK ==
  /\ clock \in 0..MaxClock
  /\ profile \in [active : BOOLEAN, interval : Intervals]
  /\ row \in [Notes -> [status : Results \cup {"none"}, created : 0..MaxClock]]
  /\ engine \in [phase : {"idle", "read", "claimed", "sent"}, note : Notes,
                 interval : Intervals, result : Results]
  /\ digest \in [phase : {"idle", "started", "summed", "sent", "logged"},
                 groups : SUBSET Notes, result : Results, day : 0..(MaxClock \div Day + 1)]
  /\ digestRow \in Results \cup {"none"}
  /\ edits \in 0..MaxEdits
  /\ told \in [Notes -> Nat]
  /\ overlapped \subseteq Notes
  /\ cutOff \subseteq Notes

Init ==
  /\ clock = 0
  /\ profile \in [active : {TRUE}, interval : Intervals]
  /\ row = [n \in Notes |-> NoRow]
  /\ engine = EngineIdle
  /\ digest = DigestIdle(1)
  /\ digestRow = "none"
  /\ edits = 0
  /\ told = [n \in Notes |-> 0]
  /\ overlapped = {}
  /\ cutOff = {}

DigestRuns == digest.phase # "idle"
InHand == IF engine.phase \in {"claimed", "sent"} THEN {engine.note} ELSE {}

Tick ==
  /\ clock < MaxClock
  /\ clock' = clock + 1
  /\ UNCHANGED <<profile, row, engine, digest, digestRow, edits, told, overlapped, cutOff>>

(***************************************************************************)
(* The alert engine.                                                       *)
(***************************************************************************)
\* SELECT * FROM alert_profiles WHERE active: what handle knows of the profile.
EngineRead(n) ==
  /\ engine.phase = "idle"
  /\ row[n] = NoRow
  /\ profile.active
  /\ engine' = [phase |-> "read", note |-> n, interval |-> profile.interval,
                result |-> "pending"]
  /\ UNCHANGED <<clock, profile, row, digest, digestRow, edits, told, overlapped, cutOff>>

\* The INSERT; the column's default status is pending.
EngineClaim ==
  /\ engine.phase = "read"
  /\ row' = [row EXCEPT ![engine.note] = [status |-> "pending", created |-> clock]]
  /\ engine' = [engine EXCEPT !.phase = "claimed"]
  /\ overlapped' = overlapped \cup IF DigestRuns THEN {engine.note} ELSE {}
  /\ UNCHANGED <<clock, profile, digest, digestRow, edits, told, cutOff>>

\* An instant profile is sent to; for another the row stays queued.
EngineSend(result) ==
  /\ engine.phase = "claimed"
  /\ engine.interval # "instant" => result = "pending"
  /\ engine' = [engine EXCEPT !.phase = "sent", !.result = result]
  /\ told' = [told EXCEPT ![engine.note] = @ + IF result = "sent" THEN 1 ELSE 0]
  /\ UNCHANGED <<clock, profile, row, digest, digestRow, edits, overlapped, cutOff>>

\* UPDATE notifications SET status, whatever the status has become meanwhile.
EngineRecord ==
  /\ engine.phase = "sent"
  /\ row' = [row EXCEPT ![engine.note].status = engine.result]
  /\ engine' = EngineIdle
  /\ UNCHANGED <<clock, profile, digest, digestRow, edits, told, overlapped, cutOff>>

\* The engine dies with an event in hand; its row stays pending.
EngineDies ==
  /\ engine.phase \in {"claimed", "sent"}
  /\ engine' = EngineIdle
  /\ cutOff' = cutOff \cup IF engine.phase = "sent" /\ engine.result = "sent"
                           THEN {engine.note} ELSE {}
  /\ UNCHANGED <<clock, profile, row, digest, digestRow, edits, told, overlapped>>

(***************************************************************************)
(* The daily digest.  cron starts it once a day, perhaps late.             *)
(***************************************************************************)
\* SELECT .. WHERE active AND digest_interval='daily'.
DigestStart ==
  /\ ~DigestRuns
  /\ clock >= digest.day * Day
  /\ IF profile.active /\ profile.interval = "daily"
     THEN /\ digest' = [digest EXCEPT !.phase = "started"]
          /\ overlapped' = overlapped \cup InHand
     ELSE /\ digest' = DigestIdle(digest.day + 1)
          /\ UNCHANGED overlapped
  /\ UNCHANGED <<clock, profile, row, engine, digestRow, edits, told, cutOff>>

\* Pending rows of the last Day ticks, at the statement's own now().
InWindow == {n \in Notes : row[n].status = "pending" /\ row[n].created + Day > clock}

\* SUMMARY_SQL; no groups, no message.
DigestSum ==
  /\ digest.phase = "started"
  /\ digest' = IF InWindow = {} THEN DigestIdle(digest.day + 1)
               ELSE [digest EXCEPT !.phase = "summed", !.groups = InWindow]
  /\ UNCHANGED <<clock, profile, row, engine, digestRow, edits, told, overlapped, cutOff>>

DigestSend(result) ==
  /\ digest.phase = "summed"
  /\ digest' = [digest EXCEPT !.phase = "sent", !.result = result]
  /\ told' = [n \in Notes |->
                told[n] + IF result = "sent" /\ n \in digest.groups THEN 1 ELSE 0]
  /\ UNCHANGED <<clock, profile, row, engine, digestRow, edits, overlapped, cutOff>>

\* The INSERT of the digest's own row.
DigestLog ==
  /\ digest.phase = "sent"
  /\ digestRow' = digest.result
  /\ digest' = IF digest.result = "sent" THEN [digest EXCEPT !.phase = "logged"]
               ELSE DigestIdle(digest.day + 1)
  /\ UNCHANGED <<clock, profile, row, engine, edits, told, overlapped, cutOff>>

\* Mutant: the UPDATE would forget the window and the status.
DigestMark_Everything ==
  /\ digest.phase = "logged"
  /\ row' = [n \in Notes |-> IF row[n] # NoRow THEN [row[n] EXCEPT !.status = "sent"] ELSE row[n]]
  /\ digest' = DigestIdle(digest.day + 1)
  /\ UNCHANGED <<clock, profile, engine, digestRow, edits, told, overlapped, cutOff>>

\* Mutant: the rows of the summary would stay pending.
DigestMark_Nothing ==
  /\ digest.phase = "logged"
  /\ digest' = DigestIdle(digest.day + 1)
  /\ UNCHANGED <<clock, profile, row, engine, digestRow, edits, told, overlapped, cutOff>>

\* The UPDATE marks what is pending in the window now, not what was summed up.
DigestMark ==
  /\ digest.phase = "logged"
  /\ row' = [n \in Notes |-> IF n \in InWindow THEN [row[n] EXCEPT !.status = "sent"] ELSE row[n]]
  /\ digest' = DigestIdle(digest.day + 1)
  /\ UNCHANGED <<clock, profile, engine, digestRow, edits, told, overlapped, cutOff>>

\* An exception, a signal: the job ends and the next one is tomorrow's.
DigestDies ==
  /\ DigestRuns
  /\ digest' = DigestIdle(digest.day + 1)
  /\ cutOff' = cutOff \cup IF digest.phase \in {"sent", "logged"} /\ digest.result = "sent"
                           THEN digest.groups ELSE {}
  /\ UNCHANGED <<clock, profile, row, engine, digestRow, edits, told, overlapped>>

(***************************************************************************)
(* The owner of the profile.                                               *)
(***************************************************************************)
UpdateProfile(interval) ==
  /\ edits < MaxEdits
  /\ profile' = [profile EXCEPT !.interval = interval]
  /\ edits' = edits + 1
  /\ UNCHANGED <<clock, row, engine, digest, digestRow, told, overlapped, cutOff>>

ToggleProfile ==
  /\ edits < MaxEdits
  /\ profile' = [profile EXCEPT !.active = ~@]
  /\ edits' = edits + 1
  /\ UNCHANGED <<clock, row, engine, digest, digestRow, told, overlapped, cutOff>>

Next ==
  \/ Tick
  \/ \E n \in Notes : EngineRead(n)
  \/ EngineClaim \/ EngineRecord \/ EngineDies
  \/ DigestStart \/ DigestSum \/ DigestLog \/ DigestMark \/ DigestDies
  \/ \E result \in Results : EngineSend(result) \/ DigestSend(result)
  \/ \E interval \in Intervals : UpdateProfile(interval)
  \/ ToggleProfile

Spec == Init /\ [][Next]_vars

(***************************************************************************)
(* Properties.                                                             *)
(***************************************************************************)
\* A notification reaches its reader in one message only, unless a sender
\* died after its message and before its mark, or the engine still held the
\* row while a digest ran (its UPDATE and the digest's do not look at each
\* other, and a profile switched to daily is still sent to at once).
ToldOnce == \A n \in Notes : told[n] > 1 => n \in overlapped \cup cutOff

\* A row marked as sent has been in a message, unless it came into being
\* while a digest was between its summary and its UPDATE.
SentWasTold == \A n \in Notes : row[n].status = "sent" => told[n] > 0 \/ n \in overlapped

(***************************************************************************)
(* The inductive invariant behind both.                                    *)
(***************************************************************************)
\* Each sender runs through its phases; what the engine holds while a digest
\* runs is known to overlap, and what either has sent is told.
InPhase ==
  /\ engine.phase = "read" => row[engine.note] = NoRow
  /\ InHand # {} => row[engine.note].status # "none"
  /\ DigestRuns => InHand \subseteq overlapped
  /\ digest.phase = "logged" => digest.result = "sent"
  /\ DigestRuns => digest.day * Day <= clock
  /\ digest.phase = "summed" => \A n \in digest.groups : row[n].status # "none"
  /\ \A n \in Notes : row[n].status = "none" => row[n] = NoRow
SentIsTold ==
  /\ engine.phase = "sent" /\ engine.result = "sent" => told[engine.note] > 0
  /\ digest.phase \in {"sent", "logged"} /\ digest.result = "sent" =>
       \A n \in digest.groups : told[n] > 0
  /\ \A n \in cutOff : told[n] > 0

\* The rows whose message is out and whose mark is not: of the engine's event,
\* of the digest's groups.
Out == {n \in InHand : engine.phase = "sent" /\ engine.result = "sent"}
       \cup {n \in digest.groups : digest.phase \in {"sent", "logged"} /\ digest.result = "sent"}

\* Of a row that no two senders ever held: what is not told is in no message; a
\* pending row that is told is out, or past every window to come; a pending row
\* that a digest may still mark is one that it summed up.
Alone(n) ==
  /\ told[n] <= 1
  /\ row[n].status = "none" => told[n] = 0
  /\ row[n].status = "pending" /\ told[n] = 1 => n \in Out \/ row[n].created + Day <= clock
  /\ n \in InHand => row[n].status = "pending" /\ (told[n] = 1 => n \in Out)
  /\ digest.phase = "summed" /\ n \in digest.groups => told[n] = 0
  /\ digest.phase \in {"summed", "sent", "logged"} /\ n \in InWindow => n \in digest.groups
OneSender == \A n \in Notes \ (overlapped \cup cutOff) : Alone(n)

DigestInv == TypeOK /\ InPhase /\ SentIsTold /\ OneSender /\ SentWasTold
=============================================================================
