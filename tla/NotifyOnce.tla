----------------------------- MODULE NotifyOnce -----------------------------
(***************************************************************************)
(* What the notification pipeline promises, without outbox, relay, stream  *)
(* or consumer: an event becomes known when its transaction commits, and   *)
(* from then on every profile may be told of it, once.  A profile whose    *)
(* owner asks for its deletion is out of the contract.                     *)
(***************************************************************************)
EXTENDS Naturals

CONSTANTS Profiles, Events

VARIABLES
  known,   \* events that have happened
  gone,    \* profiles out of the contract
  told     \* told[p][e]: messages profile p has had about event e

notifyVars == <<known, gone, told>>

NotifyInit ==
  /\ known = {}
  /\ gone = {}
  /\ told = [p \in Profiles |-> [e \in Events |-> 0]]

Happen(e) ==
  /\ known' = known \cup {e}
  /\ UNCHANGED <<gone, told>>

Tell(p, e) ==
  /\ e \in known
  /\ p \notin gone
  /\ told[p][e] = 0
  /\ told' = [told EXCEPT ![p][e] = 1]
  /\ UNCHANGED <<known, gone>>

Leave(p) ==
  /\ gone' = gone \cup {p}
  /\ told' = [told EXCEPT ![p] = [e \in Events |-> 0]]
  /\ UNCHANGED known

NotifyNext ==
  \/ \E e \in Events : Happen(e)
  \/ \E p \in Profiles, e \in Events : Tell(p, e)
  \/ \E p \in Profiles : Leave(p)

NotifySpec == NotifyInit /\ [][NotifyNext]_notifyVars
=============================================================================
