---------------------------- MODULE AlertEngine -----------------------------
(***************************************************************************)
(* alerts.py: the consumer of thaqip.events that turns events into         *)
(* notifications, and the console's deletion of a profile, which touches   *)
(* the same tables.                                                        *)
(*                                                                         *)
(* Worker "worker-1" of group "alerts" reads entries that were never       *)
(* delivered (">") and handles them one by one: for each profile that      *)
(* wants the event it INSERTs the notification (unique per profile and     *)
(* event), sends it, and UPDATEs its status; then it XACKs the entry.  An  *)
(* exception leaves the entry unacknowledged and goes on with the next; a  *)
(* crash restarts the process with empty hands.                            *)
(***************************************************************************)
EXTENDS Naturals, Sequences, FiniteSets

CONSTANTS
  Profiles,          \* rows of alert_profiles, all active
  Events,            \* ids of outbox events
  Wanted,            \* Wanted[e]: the profiles event e is for, whether by their
                     \* filters or by broadcast; {} for a historical event
  Digested,          \* profiles whose digest_interval is hourly or daily
  ReadCount,         \* entries per XREADGROUP (BATCH, 100 in the code)
  MaxInterruptions,  \* bound: exceptions and crashes of the consumer
  MaxDeletes         \* bound: profile deletions asked for

AlertAssumption ==
  /\ Wanted \in [Events -> SUBSET Profiles]
  /\ Digested \subseteq Profiles
  /\ ReadCount \in Nat \ {0}
  /\ MaxInterruptions \in Nat
  /\ MaxDeletes \in Nat

VARIABLES
  stream,     \* event ids of the stream's entries; an event may occur again
  cursor,     \* last entry delivered to the group
  pending,    \* delivered entries not acknowledged (the PEL)
  inbox,      \* entries of the last read still to be handled
  step,       \* where handle stands
  entry,      \* the entry being handled
  targets,    \* profiles it has still to serve
  current,    \* the profile it is serving
  outcome,    \* what send returned for it
  rows,       \* the alert_profiles table
  notif,      \* notif[p][e]: status of the notification row
  sends,      \* sends[p][e]: messages that reached the profile's channel
  asked,      \* profiles whose deletion was asked for
  interruptions

consumerVars == <<cursor, pending, inbox, step, entry, targets, current, outcome>>
tableVars == <<rows, notif, sends, asked>>
alertVars == <<consumerVars, tableVars, interruptions>>
vars == <<stream, cursor, pending, inbox, step, entry, targets, current, outcome,
          rows, notif, sends, asked, interruptions>>

\* "claimed" is the row as the INSERT leaves it (status pending, no error);
\* "queued" waits for a digest; "parked" has no token or no worker yet.
Status == {"none", "claimed", "queued", "sent", "failed", "parked"}
Outcomes == {"queued", "sent", "failed", "parked"}

TypeOK ==
  /\ stream \in Seq(Events)
  /\ cursor \in 0..Len(stream)
  /\ pending \subseteq 1..cursor
  /\ inbox \subseteq pending
  /\ step \in {"read", "handle", "claim", "send", "record"}
  /\ entry \in 0..Len(stream)
  /\ step \in {"claim", "send", "record"} => entry \in inbox
  /\ targets \subseteq Profiles
  /\ current \in Profiles
  /\ outcome \in Outcomes
  /\ rows \subseteq Profiles
  /\ notif \in [Profiles -> [Events -> Status]]
  /\ sends \in [Profiles -> [Events -> Nat]]
  /\ asked \subseteq Profiles
  /\ interruptions \in Nat

AlertInit ==
  /\ cursor = 0
  /\ pending = {}
  /\ inbox = {}
  /\ step = "read"
  /\ entry = 0
  /\ targets = {}
  /\ current \in Profiles
  /\ outcome = "queued"
  /\ rows = Profiles
  /\ notif = [p \in Profiles |-> [e \in Events |-> "none"]]
  /\ sends = [p \in Profiles |-> [e \in Events |-> 0]]
  /\ asked = {}
  /\ interruptions = 0

Init == stream = <<>> /\ AlertInit

Event == stream[entry]

-----------------------------------------------------------------------------
(* The main loop. *)

\* Mutant: a read that waits until COUNT entries are there.
Reads_FullOnly ==
  {last \in (cursor + 1)..Len(stream) : last = cursor + ReadCount}

\* The last entry of a read: COUNT entries on, or the end of the stream.
Reads ==
  {last \in (cursor + 1)..Len(stream) :
     \/ last = cursor + ReadCount
     \/ last = Len(stream) /\ last < cursor + ReadCount}

\* Mutant: the consumer reads with NOACK, or acknowledges as it reads.
ReadGroup_AutoAck ==
  /\ step = "read"
  /\ \E last \in Reads :
       /\ cursor' = last
       /\ inbox' = (cursor + 1)..last
  /\ step' = "handle"
  /\ UNCHANGED <<stream, pending, entry, targets, current, outcome, tableVars, interruptions>>

\* XREADGROUP ... ">" delivers what no consumer of the group was given yet.
ReadGroup ==
  /\ step = "read"
  /\ \E last \in Reads :
       /\ cursor' = last
       /\ pending' = pending \cup (cursor + 1)..last
       /\ inbox' = (cursor + 1)..last
  /\ step' = "handle"
  /\ UNCHANGED <<stream, entry, targets, current, outcome, tableVars, interruptions>>

\* The reply is lost (TimeoutError, ConnectionError): Redis has delivered the
\* entries, the loop sleeps and reads on after them.
LostRead ==
  /\ step = "read"
  /\ interruptions < MaxInterruptions
  /\ interruptions' = interruptions + 1
  /\ \E last \in Reads :
       /\ cursor' = last
       /\ pending' = pending \cup (cursor + 1)..last
  /\ UNCHANGED <<stream, inbox, step, entry, targets, current, outcome, tableVars>>

\* The head of handle: filters, and the SELECT of the active profiles.
StartEntry ==
  /\ step = "handle"
  /\ \E k \in inbox :
       /\ \A l \in inbox : k <= l
       /\ entry' = k
       /\ targets' = Wanted[stream[k]] \cap rows
  /\ step' = "claim"
  /\ UNCHANGED <<stream, cursor, pending, inbox, current, outcome, tableVars, interruptions>>

\* The row returned no id: this event was already claimed for the profile.
SkipClaimed(p) ==
  /\ step = "claim"
  /\ p \in targets
  /\ notif[p][Event] # "none"
  /\ targets' = targets \ {p}
  /\ UNCHANGED <<stream, cursor, pending, inbox, step, entry, current, outcome,
                 tableVars, interruptions>>

\* Mutant: no unique key, so that a redelivered event is claimed again.
IsUnclaimed_NoUniqueKey(p) == TRUE

\* INSERT ... ON CONFLICT (profile_id, event_id) DO NOTHING RETURNING id.
IsUnclaimed(p) == notif[p][Event] = "none"

\* Mutant: one INSERT claims the event for all the profiles, then they are served.
Claim_AllFirst(p) ==
  /\ step = "claim"
  /\ p \in targets
  /\ targets \subseteq rows
  /\ IsUnclaimed(p)
  /\ notif' = [q \in Profiles |->
                 IF q \in targets THEN [notif[q] EXCEPT ![Event] = "claimed"] ELSE notif[q]]
  /\ targets' = targets \ {p}
  /\ current' = p
  /\ outcome' = "queued"
  /\ step' = IF p \in Digested THEN "record" ELSE "send"
  /\ UNCHANGED <<stream, cursor, pending, inbox, entry, rows, sends, asked, interruptions>>

\* The INSERT creates the row; its foreign key needs the profile to exist.
\* A digest profile's row is only queued, the others go on to send.
Claim(p) ==
  /\ step = "claim"
  /\ p \in targets
  /\ p \in rows
  /\ IsUnclaimed(p)
  /\ notif' = [notif EXCEPT ![p][Event] = "claimed"]
  /\ targets' = targets \ {p}
  /\ current' = p
  /\ outcome' = "queued"
  /\ step' = IF p \in Digested THEN "record" ELSE "send"
  /\ UNCHANGED <<stream, cursor, pending, inbox, entry, rows, sends, asked, interruptions>>

\* Sender.send returns: delivered, refused by the Bot API, or not attempted.
Send ==
  /\ step = "send"
  /\ outcome' \in {"sent", "failed", "parked"}
  /\ sends' = IF outcome' = "sent" THEN [sends EXCEPT ![current][Event] = @ + 1] ELSE sends
  /\ step' = "record"
  /\ UNCHANGED <<stream, cursor, pending, inbox, entry, targets, current, rows,
                 notif, asked, interruptions>>

\* UPDATE notifications SET status ... WHERE id: nothing if the row is gone.
Record ==
  /\ step = "record"
  /\ notif' = IF notif[current][Event] = "none" THEN notif
              ELSE [notif EXCEPT ![current][Event] = outcome]
  /\ step' = "claim"
  /\ UNCHANGED <<stream, cursor, pending, inbox, entry, targets, current, outcome,
                 rows, sends, asked, interruptions>>

\* Mutant: the loop takes the acknowledged entry again.
Ack_Again ==
  /\ step = "claim"
  /\ targets = {}
  /\ pending' = pending \ {entry}
  /\ step' = "handle"
  /\ UNCHANGED <<stream, cursor, inbox, entry, targets, current, outcome, tableVars,
                 interruptions>>

\* handle returned: XACK.
Ack ==
  /\ step = "claim"
  /\ targets = {}
  /\ pending' = pending \ {entry}
  /\ inbox' = inbox \ {entry}
  /\ step' = IF inbox = {entry} THEN "read" ELSE "handle"
  /\ UNCHANGED <<stream, cursor, entry, targets, current, outcome, tableVars, interruptions>>

\* What an exception in handle or XACK leaves behind: the entry stays in the
\* PEL ("left unacked for retry") and the loop takes the next one.
AbandonEntry ==
  /\ interruptions' = interruptions + 1
  /\ inbox' = inbox \ {entry}
  /\ targets' = {}
  /\ step' = IF inbox = {entry} THEN "read" ELSE "handle"
  /\ UNCHANGED <<stream, cursor, pending, entry, current, outcome, rows, notif, asked>>

\* A statement or the XACK fails, or the Telegram call raises: the request may
\* have timed out after the message went out.
Raise ==
  /\ step \in {"claim", "send", "record"}
  /\ interruptions < MaxInterruptions
  /\ \/ UNCHANGED sends
     \/ step = "send" /\ sends' = [sends EXCEPT ![current][Event] = @ + 1]
  /\ AbandonEntry

\* The profile was deleted after the SELECT: the INSERT violates the foreign
\* key, once for a deletion (the next SELECT does not return the profile).
ForeignKeyError(p) ==
  /\ step = "claim"
  /\ p \in targets
  /\ p \notin rows
  /\ UNCHANGED sends
  /\ AbandonEntry

\* docker restarts the process, which reads on with ">".
Crash ==
  /\ step # "read"
  /\ interruptions < MaxInterruptions
  /\ interruptions' = interruptions + 1
  /\ inbox' = {}
  /\ targets' = {}
  /\ step' = "read"
  /\ UNCHANGED <<stream, cursor, pending, entry, current, outcome, tableVars>>

-----------------------------------------------------------------------------
(* The console: DELETE /api/profiles/{pid}, two statements. *)

DeleteNotifications(p) ==
  /\ p \in rows \ asked
  /\ Cardinality(asked) < MaxDeletes
  /\ asked' = asked \cup {p}
  /\ notif' = [notif EXCEPT ![p] = [e \in Events |-> "none"]]
  /\ UNCHANGED <<stream, consumerVars, rows, sends, interruptions>>

\* A notification inserted in between keeps the profile (foreign key, 500).
DeleteProfile(p) ==
  /\ p \in asked \cap rows
  /\ \A e \in Events : notif[p][e] = "none"
  /\ rows' = rows \ {p}
  /\ UNCHANGED <<stream, consumerVars, notif, sends, asked, interruptions>>

Consume ==
  \/ ReadGroup \/ StartEntry \/ Send \/ Record \/ Ack
  \/ \E p \in Profiles : SkipClaimed(p) \/ Claim(p) \/ ForeignKeyError(p)

Trouble == LostRead \/ Raise \/ Crash

Console == \E p \in Profiles : DeleteNotifications(p) \/ DeleteProfile(p)

AlertNext == Consume \/ Trouble \/ Console

\* An event is XADDed; nothing is assumed of the order or of repetitions.
Arrive ==
  /\ \E e \in Events : stream' = Append(stream, e)
  /\ UNCHANGED alertVars

Next == AlertNext \/ Arrive

Spec == Init /\ [][Next]_vars

-----------------------------------------------------------------------------
(* Properties. *)

\* alerts.py: "redelivered stream entries can't double-notify".  A profile has
\* at most one message about an event, whatever is redelivered, interrupted or
\* timed out, because the row is claimed before the message is sent; and a row
\* says "sent" only of a message that went out.
SendOnce ==
  \A p \in Profiles \ asked, e \in Events :
    /\ sends[p][e] <= 1
    /\ notif[p][e] = "sent" => sends[p][e] = 1

\* alerts.py: "XACK only after the notification row is durably written".  An
\* entry that left the PEL has a notification for each profile it is for.
AckedIsRecorded ==
  \A k \in (1..cursor) \ pending : \A p \in Wanted[stream[k]] \ asked :
    notif[p][stream[k]] # "none"

\* A notification that was claimed but neither sent nor queued is the one in
\* hand, or the trace of one interruption: an interruption strands at most one.
Stranded ==
  {pe \in (Profiles \ asked) \X Events :
     /\ notif[pe[1]][pe[2]] = "claimed"
     /\ ~(step \in {"send", "record"} /\ current = pe[1] /\ Event = pe[2])}

StrandsAreInterruptions == Cardinality(Stranded) <= interruptions
=============================================================================
