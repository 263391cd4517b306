-------------------------- MODULE SchemaMigrations --------------------------
(***************************************************************************)
(* The forward-only migration runner (migrate.run_migrations): each runner *)
(* lists the files, reads what is recorded, and works through the rest in  *)
(* order.  Nothing keeps two runners apart.  What the database image        *)
(* executed by itself when its volume was created is recorded nowhere and  *)
(* plays no part.  Files are their place in lexical order.                 *)
(***************************************************************************)
EXTENDS Naturals, Sequences, FiniteSets, Functions

CONSTANTS
  Runners,
  Files,       \* a set of numbers
  MaxRuns      \* bound: runs that are started

VARIABLES
  directory,   \* files that the deployed tree holds
  executed,    \* files whose statements committed, in the order they did
  recorded,    \* schema_migrations
  runner,      \* what a run has in hand: mode and files still to do
  runs,
  baselined,   \* history: files recorded without being executed
  together,    \* history: whether two runs were at work at once
  late         \* history: files that came after a later one was in a list

vars == <<directory, executed, recorded, runner, runs, baselined, together, late>>

Modes == {"off", "apply", "baseline"}
Off == [mode |-> "off", todo |-> {}]

TypeOK ==
  /\ directory \subseteq Files /\ recorded \subseteq Files
  /\ executed \in Seq(Files)
  /\ runner \in [Runners -> [mode : Modes, todo : SUBSET Files]]
  /\ runs \in 0..MaxRuns /\ together \in BOOLEAN
  /\ baselined \subseteq Files /\ late \subseteq Files

Init ==
  /\ directory \in SUBSET Files
  /\ executed = << >> /\ recorded = {}
  /\ runner = [r \in Runners |-> Off] /\ runs = 0
  /\ baselined = {} /\ together = FALSE /\ late = {}

First(todo) == CHOOSE file \in todo : \A other \in todo : file <= other
Running == {r \in Runners : runner[r].mode # "off"}

\* A deployment adds a file, not always the last in order.
Deploy(file) ==
  /\ file \notin directory
  /\ directory' = directory \cup {file}
  /\ late' = late \cup IF \E other \in recorded \cup UNION {runner[r].todo : r \in Runners} :
                            other > file
                       THEN {file} ELSE {}
  /\ UNCHANGED <<executed, recorded, runner, runs, baselined, together>>

\* Mutant: what is recorded would not be looked at.
Pending_All == directory

Pending == directory \ recorded

\* discover_migrations, fetch_applied; a dry run goes no further.
Start(r, mode) ==
  /\ runner[r].mode = "off" /\ runs < MaxRuns
  /\ runner' = [runner EXCEPT ![r] = [mode |-> mode, todo |-> Pending]]
  /\ runs' = runs + 1
  /\ together' = (together \/ Running # {})
  /\ UNCHANGED <<directory, executed, recorded, baselined, late>>

Done(r, file) == [runner EXCEPT ![r].todo = @ \ {file}]

\* One transaction: the statements of the file and its row; a row that is
\* there already is left alone.
Apply(r) ==
  /\ runner[r].mode = "apply" /\ runner[r].todo # {}
  /\ LET file == First(runner[r].todo)
     IN /\ executed' = Append(executed, file)
        /\ recorded' = recorded \cup {file}
        /\ runner' = Done(r, file)
  /\ UNCHANGED <<directory, runs, baselined, together, late>>

\* --baseline records the file without executing it.
Baseline(r) ==
  /\ runner[r].mode = "baseline" /\ runner[r].todo # {}
  /\ LET file == First(runner[r].todo)
     IN /\ recorded' = recorded \cup {file}
        /\ baselined' = baselined \cup {file}
        /\ runner' = Done(r, file)
  /\ UNCHANGED <<directory, executed, runs, together, late>>

\* The list is done; or a statement fails, its transaction is undone and the
\* run ends with MigrationError; or the process dies.
End(r) ==
  /\ runner[r].mode # "off"
  /\ runner' = [runner EXCEPT ![r] = Off]
  /\ UNCHANGED <<directory, executed, recorded, runs, baselined, together, late>>

Next ==
  \/ \E file \in Files : Deploy(file)
  \/ \E r \in Runners : Apply(r) \/ Baseline(r) \/ End(r)
  \/ \E r \in Runners, mode \in {"apply", "baseline"} : Start(r, mode)

Spec == Init /\ [][Next]_vars

-----------------------------------------------------------------------------
\* A file is recorded iff its statements committed or it was baselined.
RecordedIffCommitted == recorded = Range(executed) \cup baselined

\* The runner executes a file once, and files in their order, unless two runs
\* were at work at once or the file was deployed after a later one.
ExecutedOnceInOrder ==
  \A i, j \in DOMAIN executed :
    i < j => executed[i] < executed[j] \/ together \/ executed[j] \in late
-----------------------------------------------------------------------------
\* A run takes its files from those deployed; what is recorded is deployed.
Listed ==
  /\ recorded \subseteq directory
  /\ \A r \in Runners : runner[r].todo \subseteq directory

\* A run alone has in hand what is not recorded yet; what is recorded precedes
\* what is not, and what a run has in hand precedes what it did not list.
InTurn ==
  ~together =>
    /\ \A r, s \in Running : r = s
    /\ \A f \in recorded, g \in directory \ recorded : f < g \/ g \in late
    /\ \A r \in Running :
         /\ runner[r].todo \cap recorded = {}
         /\ \A f \in runner[r].todo, g \in directory \ (recorded \cup runner[r].todo) :
              f < g \/ g \in late

SchemaInv == TypeOK /\ Listed /\ InTurn /\ RecordedIffCommitted /\ ExecutedOnceInOrder
=============================================================================
