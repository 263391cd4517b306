--------------------------- MODULE EventPipeline ----------------------------
(***************************************************************************)
(* The outbox, the relay and the alert engine together: EventRelay and     *)
(* AlertEngine share the stream and nothing else.  The composition         *)
(* implements NotifyOnce.                                                  *)
(***************************************************************************)
EXTENDS Naturals, Sequences, FiniteSets

CONSTANTS
  Batch, MaxEvents, MaxCrashes,
  Profiles, Wanted, Digested, ReadCount, MaxInterruptions, MaxDeletes

VARIABLES
  nextId, open, committed, seen, relayed, stream, batch, todo, phase, crashes,
  cursor, pending, inbox, step, entry, targets, current, outcome,
  rows, notif, sends, asked, interruptions

Events == 1..MaxEvents

Relay == INSTANCE EventRelay
Alerts == INSTANCE AlertEngine

relayOnly == <<nextId, open, committed, seen, relayed, batch, todo, phase, crashes>>
alertsOnly == <<cursor, pending, inbox, step, entry, targets, current, outcome,
                rows, notif, sends, asked, interruptions>>
vars == <<relayOnly, stream, alertsOnly>>

ASSUME PipelineAssumption == Relay!RelayAssumption /\ Alerts!AlertAssumption

Init == Relay!Init /\ Alerts!AlertInit

RelaySteps == Relay!Next /\ UNCHANGED alertsOnly
AlertSteps == Alerts!AlertNext /\ UNCHANGED relayOnly

Next == RelaySteps \/ AlertSteps

\* Both services are restarted when they die (docker, restart: unless-stopped) and poll
\* for ever.  The writers, the console, crashes and errors are not obliged to
\* happen.
Fairness ==
  /\ WF_vars(Relay!Relay /\ UNCHANGED alertsOnly)
  /\ WF_vars(Alerts!Consume /\ UNCHANGED relayOnly)

Spec == Init /\ [][Next]_vars
FairSpec == Spec /\ Fairness

-----------------------------------------------------------------------------
(* Properties of the whole. *)

TypeOK == Relay!TypeOK /\ Alerts!TypeOK

AtLeastOnce == Relay!AtLeastOnce
CausalOrder == Relay!CausalOrder
DuplicatesNeedCrashes == Relay!DuplicatesNeedCrashes
SendOnce == Alerts!SendOnce
AckedIsRecorded == Alerts!AckedIsRecorded
StrandsAreInterruptions == Alerts!StrandsAreInterruptions

\* The pipeline implements its contract: messages are about events that were
\* committed, and a profile is told of an event at most once.
Contract ==
  INSTANCE NotifyOnce WITH
    known <- committed,
    gone <- asked,
    told <- [p \in Profiles |-> [e \in Events |-> IF p \in asked THEN 0 ELSE sends[p][e]]]

ImplementsNotifyOnce == Contract!NotifySpec

\* Every committed event reaches the stream, and every entry of the stream is
\* taken up by the consumer and put down again (handled or abandoned).
CommittedIsPublished ==
  \A e \in Events : e \in committed ~> \E k \in DOMAIN stream : stream[k] = e

EntriesAreTaken ==
  \A k \in 1..(MaxEvents * (1 + MaxCrashes)) :
    k \in DOMAIN stream ~> k <= cursor /\ k \notin inbox

\* alerts.py: the consumer "never loses an event"; a failed one is "left
\* unacked for retry".  Every committed event is acknowledged in the end.
NoEventIsLost ==
  \A e \in Events : e \in committed ~>
    \E k \in DOMAIN stream : stream[k] = e /\ k <= cursor /\ k \notin pending
=============================================================================
