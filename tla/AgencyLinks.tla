----------------------------- MODULE AgencyLinks -----------------------------
(***************************************************************************)
(* Spellings of an agency's name are united and tenders linked to it       *)
(* (resolve_agencies in resolution.py) while tenders arrive and the        *)
(* upserts of later listings rewrite their spellings (db.py).  A run       *)
(* groups the spellings that have no link yet by their normalization key   *)
(* and names the agency after the longest; it does not look for an agency  *)
(* that an earlier run made of other spellings, nor again at a tender that *)
(* has its link: one rewritten later keeps the agency of the spelling it   *)
(* was linked by.                                                          *)
(*                                                                         *)
(* Spellings are numbers that grow with their length.  An agency is its    *)
(* canonical_name, which is unique.                                        *)
(***************************************************************************)
EXTENDS Naturals, FiniteSetsExt

CONSTANTS
  Tenders,
  Key,         \* normalize_ar of each spelling
  MaxRuns      \* bound: runs that are started

VARIABLES
  tender,      \* agency_name_raw and agency of each, 0 for none
  agencies,    \* name_variants by canonical_name
  run,         \* spellings left to do, by group; FALSE when none is at work
  runs,
  linkedBy,    \* history: the run that linked the tender,
  linkedAs     \* history: and the spelling that it had then

vars == <<tender, agencies, run, runs, linkedBy, linkedAs>>

Spellings == DOMAIN Key
Idle == [on |-> FALSE, todo |-> {}]

TypeOK ==
  /\ tender \in [Tenders -> [raw : Spellings \cup {0}, agency : Spellings \cup {0}]]
  /\ agencies \in [Spellings -> SUBSET Spellings]
  /\ run \in [on : BOOLEAN, todo : SUBSET SUBSET Spellings]
  /\ runs \in 0..MaxRuns /\ linkedBy \in [Tenders -> 0..MaxRuns]
  /\ linkedAs \in [Tenders -> Spellings \cup {0}]

Init ==
  /\ tender = [t \in Tenders |-> [raw |-> 0, agency |-> 0]]
  /\ agencies = [s \in Spellings |-> {}]
  /\ run = Idle /\ runs = 0
  /\ linkedBy = [t \in Tenders |-> 0] /\ linkedAs = [t \in Tenders |-> 0]

\* A lane inserts a tender, or rewrites one from a listing that spells the
\* name otherwise or leaves it out; it never touches the link.
Arrive(t, raw) ==
  /\ tender[t].raw # raw
  /\ tender' = [tender EXCEPT ![t].raw = raw]
  /\ UNCHANGED <<agencies, run, runs, linkedBy, linkedAs>>

Unlinked == {t \in Tenders : tender[t].raw # 0 /\ tender[t].agency = 0}
Raw == {tender[t].raw : t \in Unlinked}

\* SELECT DISTINCT agency_name_raw .. WHERE agency_id IS NULL, by key.
Start ==
  /\ ~run.on /\ runs < MaxRuns
  /\ run' = [on |-> TRUE, todo |-> {{s \in Raw : Key[s] = Key[r]} : r \in Raw}]
  /\ runs' = runs + 1
  /\ UNCHANGED <<tender, agencies, linkedBy, linkedAs>>

\* Mutant: every spelling would be an agency of its own.
Display_Own(variants, raw) == raw

\* The richest spelling.
Display(variants, raw) == Max(variants)

\* One transaction: the agency, and the tenders of its spellings that still
\* have no link, those that arrived or were rewritten meanwhile included.
Link(variants) ==
  /\ run.on /\ variants \in run.todo
  /\ LET linked == {t \in Unlinked : tender[t].raw \in variants}
     IN /\ tender' = [t \in Tenders |->
                        IF t \in linked
                        THEN [tender[t] EXCEPT !.agency = Display(variants, tender[t].raw)]
                        ELSE tender[t]]
        /\ linkedBy' = [t \in Tenders |-> IF t \in linked THEN runs ELSE linkedBy[t]]
        /\ linkedAs' = [t \in Tenders |-> IF t \in linked THEN tender[t].raw ELSE linkedAs[t]]
  /\ agencies' = [agencies EXCEPT ![Max(variants)] = @ \cup variants]
  /\ run' = [run EXCEPT !.todo = @ \ {variants}]
  /\ UNCHANGED runs

\* The groups are done, or the run dies; what is committed stays.
End ==
  /\ run.on
  /\ run' = Idle
  /\ UNCHANGED <<tender, agencies, runs, linkedBy, linkedAs>>

Next ==
  \/ \E t \in Tenders, raw \in Spellings \cup {0} : Arrive(t, raw)
  \/ Start \/ End
  \/ \E variants \in run.todo : Link(variants)

Spec == Init /\ [][Next]_vars

-----------------------------------------------------------------------------
\* Tenders that one run linked share an agency exactly when the spellings they
\* were linked by share a key, whatever was rewritten during the run or since;
\* an agency lists every spelling that led to it.  Across runs one body may
\* have several agencies, never one agency several bodies.
SpellingsUnite ==
  \A t, u \in Tenders :
    /\ linkedBy[t] # 0 => linkedAs[t] \in agencies[tender[t].agency]
    /\ linkedBy[t] # 0 /\ linkedBy[u] # 0 =>
         /\ tender[t].agency = tender[u].agency => Key[linkedAs[t]] = Key[linkedAs[u]]
         /\ linkedBy[t] = linkedBy[u] /\ Key[linkedAs[t]] = Key[linkedAs[u]] =>
              tender[t].agency = tender[u].agency
-----------------------------------------------------------------------------
\* A run has groups of one key each, and none of a key that it has linked.
GroupsInv ==
  /\ IF run.on THEN runs > 0 ELSE run.todo = {}
  /\ \A g \in run.todo :
       /\ g # {} /\ g \subseteq Spellings
       /\ \A r, s \in g : Key[r] = Key[s]
       /\ \A h \in run.todo : g = h \/ \A r \in g, s \in h : Key[r] # Key[s]
       /\ \A t \in Tenders : linkedBy[t] = runs => \A s \in g : Key[s] # Key[linkedAs[t]]

\* A tender is linked by a run, to an agency of the key that it had then.
LinksInv ==
  \A t \in Tenders :
    /\ linkedBy[t] <= runs
    /\ IF linkedBy[t] = 0 THEN tender[t].agency = 0
       ELSE /\ linkedAs[t] \in Spellings /\ tender[t].agency \in Spellings
            /\ Key[tender[t].agency] = Key[linkedAs[t]]

AgencyInv == TypeOK /\ GroupsInv /\ LinksInv /\ SpellingsUnite
=============================================================================
