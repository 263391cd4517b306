------------------------- MODULE MilestoneReminders -------------------------
(***************************************************************************)
(* milestone_reminders.py: runs of the job, possibly at the same time, look*)
(* for an incomplete milestone that is due within three days, claim its    *)
(* T-3 or T-1 reminder by an INSERT under a unique index, send it to the   *)
(* first linked chat and record the result; a team edits the milestone and *)
(* links or unlinks its chat meanwhile (console).  Time is in days.        *)
(***************************************************************************)
EXTENDS Naturals

CONSTANTS
  Jobs,         \* runs of the job
  MaxClock,     \* bound: days that pass
  MaxEdits      \* bound: edits by the team

VARIABLES
  clock,
  due,          \* due_at of the milestone, NoDue when null
  completed,
  linked,       \* the tenant has an active Telegram chat
  notif,        \* status of the reminder row by offset, "none" before
  job,          \* by run: phase, its own now, the offset and result at hand
  edits,
  messages      \* history: messages sent by offset

vars == <<clock, due, completed, linked, notif, job, edits, messages>>

Offsets == {"T-3", "T-1"}
Results == {"sent", "failed", "pending"}
NoDue == 0
Idle == [phase |-> "idle", now |-> 0, offset |-> "none", result |-> "pending"]

TypeOK ==
  /\ clock \in 1..MaxClock
  /\ due \in 0..(MaxClock + 3)
  /\ completed \in BOOLEAN /\ linked \in BOOLEAN
  /\ notif \in [Offsets -> Results \cup {"none"}]
  /\ job \in [Jobs -> [phase : {"idle", "fetch", "chat", "claim", "claimed", "sent"},
                       now : 0..MaxClock, offset : Offsets \cup {"none"}, result : Results]]
  /\ edits \in 0..MaxEdits
  /\ messages \in [Offsets -> Nat]

Init ==
  /\ clock = 1
  /\ due \in 0..(MaxClock + 3)
  /\ completed = FALSE
  /\ linked = TRUE
  /\ notif = [o \in Offsets |-> "none"]
  /\ job = [j \in Jobs |-> Idle]
  /\ edits = 0
  /\ messages = [o \in Offsets |-> 0]

Tick ==
  /\ clock < MaxClock
  /\ clock' = clock + 1
  /\ UNCHANGED <<due, completed, linked, notif, job, edits, messages>>

\* The run takes its own now before the database is asked.
Start(j) ==
  /\ job[j] = Idle
  /\ job' = [job EXCEPT ![j] = [Idle EXCEPT !.phase = "fetch", !.now = clock]]
  /\ UNCHANGED <<clock, due, completed, linked, notif, edits, messages>>

OffsetFor(d, now) == CASE d <= now + 1 -> "T-1"
                       [] d > now + 1 /\ d <= now + 3 -> "T-3"
                       [] OTHER -> "none"

\* DUE_SQL by the database's now(), the offset by the run's: a run that waits
\* past a day's end may find a milestone that is out of its offsets.
Fetch(j) ==
  /\ job[j].phase = "fetch"
  /\ LET found == ~completed /\ due # NoDue /\ clock < due /\ due <= clock + 3
         offset == IF found THEN OffsetFor(due, job[j].now) ELSE "none" IN
     job' = [job EXCEPT ![j] = IF offset = "none" THEN Idle
                               ELSE [@ EXCEPT !.phase = "chat", !.offset = offset]]
  /\ UNCHANGED <<clock, due, completed, linked, notif, edits, messages>>

FetchChat(j) ==
  /\ job[j].phase = "chat"
  /\ job' = [job EXCEPT ![j] = IF linked THEN [@ EXCEPT !.phase = "claim"] ELSE Idle]
  /\ UNCHANGED <<clock, due, completed, linked, notif, edits, messages>>

\* Mutant: without the unique index.
Claim_Always(j) ==
  /\ job[j].phase = "claim"
  /\ notif' = [notif EXCEPT ![job[j].offset] = "pending"]
  /\ job' = [job EXCEPT ![j].phase = "claimed"]
  /\ UNCHANGED <<clock, due, completed, linked, edits, messages>>

\* INSERT .. ON CONFLICT DO NOTHING: the offset is taken for good.
Claim(j) ==
  /\ job[j].phase = "claim"
  /\ LET o == job[j].offset IN
     IF notif[o] = "none"
     THEN /\ notif' = [notif EXCEPT ![o] = "pending"]
          /\ job' = [job EXCEPT ![j].phase = "claimed"]
     ELSE /\ job' = [job EXCEPT ![j] = Idle]
          /\ UNCHANGED notif
  /\ UNCHANGED <<clock, due, completed, linked, edits, messages>>

Send(j, result) ==
  /\ job[j].phase = "claimed"
  /\ job' = [job EXCEPT ![j].phase = "sent", ![j].result = result]
  /\ messages' = [messages EXCEPT ![job[j].offset] = @ + IF result = "sent" THEN 1 ELSE 0]
  /\ UNCHANGED <<clock, due, completed, linked, notif, edits>>

Record(j) ==
  /\ job[j].phase = "sent"
  /\ notif' = [notif EXCEPT ![job[j].offset] = job[j].result]
  /\ job' = [job EXCEPT ![j] = Idle]
  /\ UNCHANGED <<clock, due, completed, linked, edits, messages>>

Die(j) ==
  /\ job[j] # Idle
  /\ job' = [job EXCEPT ![j] = Idle]
  /\ UNCHANGED <<clock, due, completed, linked, notif, edits, messages>>

\* patch_milestone: any due date, completed or not.
PatchMilestone(d, done) ==
  /\ edits < MaxEdits
  /\ due' = d
  /\ completed' = done
  /\ edits' = edits + 1
  /\ UNCHANGED <<clock, linked, notif, job, messages>>

\* The team links or unlinks its chat.
LinkChat ==
  /\ edits < MaxEdits
  /\ linked' = ~linked
  /\ edits' = edits + 1
  /\ UNCHANGED <<clock, due, completed, notif, job, messages>>

Next ==
  \/ Tick
  \/ \E j \in Jobs : \/ Start(j) \/ Fetch(j) \/ FetchChat(j) \/ Claim(j)
                     \/ Record(j) \/ Die(j)
  \/ \E j \in Jobs, result \in Results : Send(j, result)
  \/ \E d \in 0..(MaxClock + 3), done \in BOOLEAN : PatchMilestone(d, done)
  \/ LinkChat

Spec == Init /\ [][Next]_vars

(***************************************************************************)
(* Properties.                                                             *)
(***************************************************************************)
\* Runs that overlap, die and start again send each of the two reminders of a
\* milestone at most once, and a row that says sent has been sent.
MilestoneToldOnce ==
  \A o \in Offsets : /\ messages[o] <= 1
                     /\ notif[o] = "sent" => messages[o] = 1

\* The inductive invariant: whoever claimed an offset is alone with it, and the
\* messages sent under it are those its claim accounts for.
Holders(o) == {j \in Jobs : job[j].phase \in {"claimed", "sent"} /\ job[j].offset = o}
Claiming ==
  /\ \A j \in Jobs : job[j].phase \in {"chat", "claim", "claimed", "sent"} =>
       job[j].offset # "none"
  /\ \A o \in Offsets :
       /\ notif[o] = "none" => messages[o] = 0 /\ Holders(o) = {}
       /\ \A j, k \in Holders(o) : j = k
       /\ \A j \in Holders(o) :
            messages[o] = IF job[j].phase = "sent" /\ job[j].result = "sent" THEN 1 ELSE 0

MilestoneInv == TypeOK /\ Claiming /\ MilestoneToldOnce
=============================================================================
