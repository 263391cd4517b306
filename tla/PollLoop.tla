------------------------------ MODULE PollLoop ------------------------------
(***************************************************************************)
(* The poller (main.py): passes over the newest pages of the listing, its  *)
(* watchdog and its record of each pass, with the client it reads through  *)
(* (etimad/client.py) and the client's circuit breaker                     *)
(* (circuit_breaker.py).                                                   *)
(*                                                                         *)
(* Time is counted in ticks of half a minute, the scale of the waits that  *)
(* matter: the watchdog's 240 s, the breaker's 300 s, the loop's 300 s and *)
(* 600 s, the 90 s steps of a cool-off.  What takes seconds (the request   *)
(* spacing, the exponential delay between retries, an upsert) takes none.  *)
(* A process that dies is started again by docker, with a new client.      *)
(***************************************************************************)
EXTENDS Naturals, TLAPS

CONSTANTS
  MaxPages,          \* --pages
  ListedPages,       \* pages of the source's listing (totalCount / page size)
  MaxRetries,        \* attempts at one page (5)
  FailureThreshold,  \* failures that trip the breaker (4)
  RecoveryTimeout,   \* ticks an open breaker stays open (10)
  PassTimeout,       \* ticks until the watchdog cancels a pass (8)
  Every,             \* ticks between passes (10)
  ChallengePause     \* further ticks after a challenge (20)

ASSUME PollAssumption ==
  /\ MaxPages \in Nat \ {0}
  /\ ListedPages \in Nat \ {0}
  /\ MaxRetries \in Nat \ {0}
  /\ FailureThreshold \in Nat \ {0}
  /\ RecoveryTimeout \in Nat
  /\ PassTimeout \in Nat
  /\ Every \in Nat
  /\ ChallengePause \in Nat

VARIABLES
  pc,          \* where the process stands
  breaker,     \* the client's breaker: state, failure_count, ticks since opened_at
  page,        \* page of iter_newest
  attempt,     \* attempt at that page
  wait,        \* ticks left to sleep
  elapsed,     \* ticks since the pass started
  raised,      \* what the pass raised, "none" if nothing
  lastRun,     \* the newest ingest_runs row of etimad.listing
  unrecorded,  \* history: ticks since a run was recorded or the process began
  quiet,       \* history: ticks since this process last met a challenge
  killSwitch,  \* THAQIP_KILL_SWITCH in the container's environment
  calm         \* from now on the source answers and nobody interferes

vars == <<pc, breaker, page, attempt, wait, elapsed, raised, lastRun,
          unrecorded, quiet, killSwitch, calm>>

\* A pass that takes longest, then the longest sleep.
LongestCycle == PassTimeout + ChallengePause + Every

\* 429 and 400 are met with a wait, the other retryable answers without one;
\* "garbage" is a body that does not parse, "failed" any other HTTP error.
Answers == {"data", "garbage", "failed", "limited", "coolOff", "challenge"}

Exceptions == {"none", "http", "challenge", "open", "killed", "database", "timeout"}

TypeOK ==
  /\ pc \in {"idle", "before", "request", "wait", "rows", "record", "sleep", "down"}
  /\ breaker \in [state : {"closed", "open", "half_open"},
                  failures : 0..FailureThreshold, age : 0..RecoveryTimeout]
  /\ page \in 1..(MaxPages + 1)
  /\ attempt \in 1..MaxRetries
  /\ wait \in Nat
  /\ elapsed \in 0..PassTimeout
  /\ raised \in Exceptions
  /\ lastRun \in {"never", "ok", "failed"}
  /\ unrecorded \in Nat
  /\ quiet \in 0..ChallengePause
  /\ killSwitch \in BOOLEAN
  /\ calm \in BOOLEAN

\* RouteCircuitBreaker.__init__.
NewBreaker == [state |-> "closed", failures |-> 0, age |-> 0]

Init ==
  /\ pc = "idle"
  /\ breaker = NewBreaker
  /\ page = 1
  /\ attempt = 1
  /\ wait = 0
  /\ elapsed = 0
  /\ raised = "none"
  /\ lastRun = "never"
  /\ unrecorded = 0
  /\ quiet = ChallengePause
  /\ killSwitch \in BOOLEAN
  /\ calm = FALSE

-----------------------------------------------------------------------------
(* The circuit breaker. *)

\* Mutant: a success in the closed state leaves the count alone.
Success_KeepsCount(b) ==
  IF b.state = "closed" THEN b ELSE [NewBreaker EXCEPT !.failures = b.failures]

\* record_success.
Success(b) == NewBreaker

\* record_failure.  The count is compared with the threshold only, so it is
\* kept no further than that.
Failure(b) ==
  LET n == IF b.failures < FailureThreshold THEN b.failures + 1 ELSE b.failures
  IN  IF n = FailureThreshold \/ b.state = "half_open"
      THEN [state |-> "open", failures |-> n, age |-> 0]
      ELSE [b EXCEPT !.failures = n]

StillOpen(b) == b.state = "open" /\ b.age < RecoveryTimeout

\* before_request: what it raises, and the state in which it lets pass.
Refusal(b) ==
  IF killSwitch THEN "killed" ELSE IF StillOpen(b) THEN "open" ELSE "none"

Admitted(b) == IF b.state = "open" THEN [b EXCEPT !.state = "half_open"] ELSE b

-----------------------------------------------------------------------------
(* A pass: run_pass_db over iter_newest over fetch_listing_page. *)

\* Mutant: the page counter of the last pass goes on.
StartPass_SamePage ==
  /\ pc = "idle"
  /\ pc' = "before"
  /\ elapsed' = 0
  /\ raised' = "none"
  /\ UNCHANGED <<breaker, page, attempt, wait, lastRun, unrecorded, quiet, killSwitch, calm>>

StartPass ==
  /\ pc = "idle"
  /\ pc' = "before"
  /\ page' = 1
  /\ elapsed' = 0
  /\ raised' = "none"
  /\ UNCHANGED <<breaker, attempt, wait, lastRun, unrecorded, quiet, killSwitch, calm>>

RaiseAs(e) == pc' = "record" /\ raised' = e

BeforeRequest ==
  /\ pc = "before"
  /\ attempt' = 1
  /\ raised' = Refusal(breaker)
  /\ IF Refusal(breaker) = "none"
     THEN pc' = "request" /\ breaker' = Admitted(breaker)
     ELSE pc' = "record" /\ UNCHANGED breaker
  /\ UNCHANGED <<page, wait, elapsed, lastRun, unrecorded, quiet, killSwitch, calm>>

\* except (httpx.HTTPError, ValueError), with the breaker b so far.
FailAttempt(b) ==
  IF attempt = MaxRetries
  THEN RaiseAs("http") /\ breaker' = Failure(b) /\ UNCHANGED attempt
  ELSE pc' = "request" /\ attempt' = attempt + 1 /\ breaker' = b /\ UNCHANGED raised

\* A page of data: the breaker hears of a success, the rows go on.
Data ==
  /\ breaker' = Success(breaker)
  /\ pc' = "rows"
  /\ UNCHANGED <<attempt, wait, raised, quiet>>

\* The success is recorded before the body is parsed.
Garbage == FailAttempt(Success(breaker)) /\ UNCHANGED <<wait, quiet>>

\* 502 to 504, any other status that raise_for_status rejects, no connection.
HttpError == FailAttempt(breaker) /\ UNCHANGED <<wait, quiet>>

\* The wait for a 429 (Retry-After, 60 s unless given, and 30 s per attempt)
\* and for a 400 (90 s per attempt, 600 s at most).
BackOff(answer) ==
  CASE answer = "limited" -> 2 + attempt
    [] answer = "coolOff" -> IF attempt > 5 /\ 3 * attempt > 20 THEN 20 ELSE 3 * attempt

ToldToWait(answer) ==
  /\ pc' = "wait"
  /\ wait' = BackOff(answer)
  /\ UNCHANGED <<breaker, attempt, raised, quiet>>

\* Recorded where it is detected and again where it is caught.
Challenge ==
  /\ breaker' = Failure(Failure(breaker))
  /\ quiet' = 0
  /\ RaiseAs("challenge")
  /\ UNCHANGED <<attempt, wait>>

Answer ==
  /\ pc = "request"
  /\ \E a \in IF calm THEN {"data"} ELSE Answers :
       CASE a = "data" -> Data
         [] a = "garbage" -> Garbage
         [] a = "failed" -> HttpError
         [] a = "challenge" -> Challenge
         [] a \in {"limited", "coolOff"} -> ToldToWait(a)
  /\ UNCHANGED <<page, elapsed, lastRun, unrecorded, killSwitch, calm>>

\* The wait is over and HTTPStatusError is raised.
EndWait ==
  /\ pc = "wait"
  /\ wait = 0
  /\ FailAttempt(breaker)
  /\ UNCHANGED <<page, wait, elapsed, lastRun, unrecorded, quiet, killSwitch, calm>>

\* Mutant: iter_newest stops one page early.
LastPage_Early == page + 1 >= MaxPages \/ page >= ListedPages

\* iter_newest has no further page.
LastPage == page = MaxPages \/ page >= ListedPages

\* Every row of the page goes through upsert_tender.
StoreRows ==
  /\ pc = "rows"
  /\ IF LastPage THEN pc' = "record" ELSE pc' = "before"
  /\ page' = page + 1
  /\ UNCHANGED <<breaker, attempt, wait, elapsed, raised, lastRun,
                 unrecorded, quiet, killSwitch, calm>>

\* The database refuses a row.
StoreFails ==
  /\ pc = "rows"
  /\ ~calm
  /\ RaiseAs("database")
  /\ UNCHANGED <<breaker, page, attempt, wait, elapsed, lastRun,
                 unrecorded, quiet, killSwitch, calm>>

\* Mutant: no wait_for: a pass that hangs is left alone.
TimedOut_Never == FALSE

\* The timeout of asyncio.wait_for.
TimedOut == pc \in {"request", "wait"} /\ elapsed = PassTimeout

\* It cancels the pass where it waits.
Watchdog ==
  /\ TimedOut
  /\ RaiseAs("timeout")
  /\ UNCHANGED <<breaker, page, attempt, wait, elapsed, lastRun,
                 unrecorded, quiet, killSwitch, calm>>

\* CancelledError is no Exception: error stays None, the run is recorded ok.
Recorded == IF raised \in {"none", "timeout"} THEN "ok" ELSE "failed"

\* Mutant: the handler of ChallengeDetected does not sleep.
PauseAfter_Impatient(e) == Every

\* The sleeps of main before the next pass.
PauseAfter(e) == IF e = "challenge" THEN ChallengePause + Every ELSE Every

\* The finally clause of run_pass_db, then main: it handles TimeoutError (with a
\* new client) and ChallengeDetected; anything else ends the process.
RecordRun ==
  /\ pc = "record"
  /\ lastRun' = Recorded
  /\ unrecorded' = 0
  /\ breaker' = IF raised = "timeout" THEN NewBreaker ELSE breaker
  /\ IF raised \in {"none", "timeout", "challenge"}
     THEN pc' = "sleep" /\ wait' = PauseAfter(raised)
     ELSE pc' = "down" /\ UNCHANGED wait
  /\ UNCHANGED <<page, attempt, elapsed, raised, quiet, killSwitch, calm>>

\* The database refuses the record, and main does not handle that.
RecordFails ==
  /\ pc = "record"
  /\ ~calm
  /\ pc' = "down"
  /\ UNCHANGED <<breaker, page, attempt, wait, elapsed, raised, lastRun,
                 unrecorded, quiet, killSwitch, calm>>

Wake ==
  /\ pc = "sleep"
  /\ wait = 0
  /\ pc' = "idle"
  /\ UNCHANGED <<breaker, page, attempt, wait, elapsed, raised, lastRun,
                 unrecorded, quiet, killSwitch, calm>>

-----------------------------------------------------------------------------
(* The machine, the operator and the clock. *)

Die ==
  /\ pc # "down"
  /\ ~calm
  /\ pc' = "down"
  /\ UNCHANGED <<breaker, page, attempt, wait, elapsed, raised, lastRun,
                 unrecorded, quiet, killSwitch, calm>>

\* restart: unless-stopped, with whatever environment the container has now.
Restart ==
  /\ pc = "down"
  /\ pc' = "idle"
  /\ breaker' = NewBreaker
  /\ unrecorded' = 0
  /\ quiet' = ChallengePause
  /\ killSwitch' \in IF calm THEN {FALSE} ELSE BOOLEAN
  /\ UNCHANGED <<page, attempt, wait, elapsed, raised, lastRun, calm>>

CalmDown ==
  /\ ~calm
  /\ calm' = TRUE
  /\ UNCHANGED <<pc, breaker, page, attempt, wait, elapsed, raised, lastRun,
                 unrecorded, quiet, killSwitch>>

Older(n, cap) == IF n < cap THEN n + 1 ELSE cap

\* A request may hang; a pass is cancelled before the next tick.
Tick ==
  /\ ~TimedOut
  /\ \/ pc = "request" /\ ~calm
     \/ pc \in {"wait", "sleep"} /\ wait > 0
  /\ wait' = IF pc = "request" THEN wait ELSE wait - 1
  /\ elapsed' = IF pc = "sleep" THEN elapsed ELSE Older(elapsed, PassTimeout)
  /\ breaker' = [breaker EXCEPT !.age =
                   IF breaker.state = "open" THEN Older(@, RecoveryTimeout) ELSE @]
  /\ unrecorded' = Older(unrecorded, LongestCycle + 1)
  /\ quiet' = Older(quiet, ChallengePause)
  /\ UNCHANGED <<pc, page, attempt, raised, lastRun, killSwitch, calm>>

-----------------------------------------------------------------------------
Process ==
  \/ StartPass \/ BeforeRequest \/ Answer \/ EndWait \/ StoreRows
  \/ Watchdog \/ RecordRun \/ Wake

Next ==
  \/ Process \/ StoreFails \/ RecordFails
  \/ Die \/ Restart \/ CalmDown \/ Tick

\* The process goes on, time passes, docker restarts what died.
Fairness == WF_vars(Process) /\ WF_vars(Tick) /\ WF_vars(Restart)

Spec == Init /\ [][Next]_vars
FairSpec == Spec /\ Fairness

-----------------------------------------------------------------------------
(* Properties. *)

\* The breaker's state and its count tell the same story, through successes,
\* challenges that count twice, bodies that fail to parse after their success
\* was recorded, and probes: it lets requests pass unhindered exactly while
\* fewer failures than the threshold have come since the last success, and is
\* only ever reset as a whole.
BreakerFollowsFailures ==
  /\ breaker.state = "closed" <=> breaker.failures < FailureThreshold
  /\ breaker.state = "closed" => breaker.age = 0

\* client.py: "never retry blindly into a challenge": once it has met one, a
\* poller that stays alive sends nothing for ten minutes, whether the breaker
\* opened or not.
ChallengeBuysQuiet == pc = "request" => quiet = ChallengePause

\* A poller that stays alive writes a run every nineteen minutes at the latest,
\* whatever the source answers or leaves unanswered: the lane goes stale on the
\* console only when the process is gone (or the database is).
RunsAreRecorded == unrecorded <= LongestCycle

\* Once the source answers again and the switch is off, passes over all pages
\* are completed again and again: no state of the breaker, no sleep and no pass
\* that was under way keeps the poller from it.
CompletesAgain ==
  calm ~> (pc = "record" /\ raised = "none" /\ (page > MaxPages \/ page > ListedPages))

-----------------------------------------------------------------------------
(***************************************************************************)
(* Proofs, for any number of pages and attempts, any threshold of the      *)
(* breaker and any length of the timeouts and pauses.  The argument about  *)
(* time: a pause still to sleep and the quiet so far add up to the pause   *)
(* that a challenge asks for (QuietInv), and the time since the last       *)
(* record is paid for by the sleep before the pass and the time of the     *)
(* pass, which the watchdog bounds (RecordInv).                            *)
(***************************************************************************)
\* A page beyond the last one is only there when the pass is over.
PageInv == pc \in {"before", "request", "wait", "rows"} => page <= MaxPages

\* A poller that is not in a pause that follows a challenge has been quiet.
QuietInv ==
  /\ pc \in {"idle", "before", "request", "wait", "rows"} => quiet = ChallengePause
  /\ pc = "record" /\ raised # "challenge" => quiet = ChallengePause
  /\ pc = "sleep" => quiet = ChallengePause \/ quiet + wait >= ChallengePause

\* Time without a record: the sleep, then the pass.
RecordInv ==
  /\ pc = "sleep" => unrecorded + wait <= ChallengePause + Every
  /\ pc = "idle" => unrecorded <= ChallengePause + Every
  /\ pc \in {"before", "request", "wait", "rows"} =>
       unrecorded <= ChallengePause + Every + elapsed
  /\ unrecorded <= LongestCycle

IInv == TypeOK /\ PageInv /\ BreakerFollowsFailures /\ QuietInv /\ RecordInv

-----------------------------------------------------------------------------
(* The breaker's operations, on any breaker that BreakerFollowsFailures       *)
(* admits.                                                                    *)

Breakers == [state : {"closed", "open", "half_open"},
             failures : 0..FailureThreshold, age : 0..RecoveryTimeout]
Follows(b) == /\ b.state = "closed" <=> b.failures < FailureThreshold
              /\ b.state = "closed" => b.age = 0

LEMMA NewIsFine == NewBreaker \in Breakers /\ Follows(NewBreaker)
BY PollAssumption DEF Breakers, Follows, NewBreaker

LEMMA FailureIsFine ==
  ASSUME NEW b \in Breakers, Follows(b)
  PROVE  Failure(b) \in Breakers /\ Follows(Failure(b))
<1> DEFINE n == IF b.failures < FailureThreshold THEN b.failures + 1 ELSE b.failures
<1>1. n \in 0..FailureThreshold
  BY PollAssumption DEF Breakers
<1>2. CASE n = FailureThreshold \/ b.state = "half_open"
  <2>1. Failure(b) = [state |-> "open", failures |-> n, age |-> 0]
    BY <1>2 DEF Failure
  <2>2. n = FailureThreshold
    BY <1>2, PollAssumption DEF Breakers, Follows
  <2> QED BY <1>1, <2>1, <2>2, PollAssumption DEF Breakers, Follows
<1>3. CASE ~(n = FailureThreshold \/ b.state = "half_open")
  <2>1. Failure(b) = [b EXCEPT !.failures = n]
    BY <1>3 DEF Failure
  <2>2. n < FailureThreshold /\ b.state = "closed"
    BY <1>1, <1>3, PollAssumption DEF Breakers, Follows
  <2> QED BY <1>1, <2>1, <2>2, PollAssumption DEF Breakers, Follows
<1> QED BY <1>2, <1>3

LEMMA AdmittedIsFine ==
  ASSUME NEW b \in Breakers, Follows(b)
  PROVE  Admitted(b) \in Breakers /\ Follows(Admitted(b))
BY PollAssumption DEF Breakers, Follows, Admitted

LEMMA BackOffIsNat ==
  ASSUME attempt \in Nat, NEW a \in {"limited", "coolOff"} PROVE BackOff(a) \in Nat
BY DEF BackOff

-----------------------------------------------------------------------------
(* One step of the process at a time.                                         *)

\* A failed attempt with a breaker b that is fine leaves one that is.
LEMMA FailAttemptIsFine ==
  ASSUME TypeOK, NEW b \in Breakers, Follows(b), FailAttempt(b)
  PROVE  /\ breaker' \in Breakers /\ Follows(breaker')
         /\ attempt' \in 1..MaxRetries
         /\ \/ pc' = "record" /\ raised' = "http"
            \/ pc' = "request" /\ raised' = raised
<1>1. CASE attempt = MaxRetries
  BY <1>1, FailureIsFine DEF FailAttempt, RaiseAs, TypeOK
<1>2. CASE attempt # MaxRetries
  BY <1>2, PollAssumption DEF FailAttempt, TypeOK
<1> QED BY <1>1, <1>2

\* What an answer does to the parts of the invariant.
LEMMA AnswerKeeps == ASSUME IInv, Answer PROVE IInv'
<1> USE DEF IInv, TypeOK, BreakerFollowsFailures
<1>0. breaker \in Breakers /\ Follows(breaker) /\ quiet = ChallengePause
  BY DEF Breakers, Follows, QuietInv, Answer
<1>1. PICK a \in Answers :
        CASE a = "data" -> Data
          [] a = "garbage" -> Garbage
          [] a = "failed" -> HttpError
          [] a = "challenge" -> Challenge
          [] a \in {"limited", "coolOff"} -> ToldToWait(a)
  BY DEF Answer, Answers
<1>2. \/ Data \/ Garbage \/ HttpError \/ Challenge
      \/ \E told \in {"limited", "coolOff"} : ToldToWait(told)
  BY <1>1 DEF Answers
<1>3. /\ UNCHANGED <<page, elapsed, lastRun, unrecorded, killSwitch, calm>>
      /\ pc = "request"
  BY DEF Answer
<1>4. CASE Data
  BY <1>0, <1>3, <1>4, NewIsFine, PollAssumption
     DEF Data, Success, Breakers, Follows, PageInv, QuietInv, RecordInv, LongestCycle
<1>5. ASSUME NEW b \in Breakers, Follows(b), FailAttempt(b), UNCHANGED <<wait, quiet>>
      PROVE  IInv'
  BY <1>0, <1>3, <1>5, FailAttemptIsFine, PollAssumption
     DEF Breakers, Follows, PageInv, QuietInv, RecordInv, LongestCycle, Exceptions
<1>6. CASE Garbage
  BY <1>5, <1>6, NewIsFine DEF Garbage, Success
<1>7. CASE HttpError
  BY <1>0, <1>5, <1>7 DEF HttpError
<1>8. CASE Challenge
  <2>1. breaker' \in Breakers /\ Follows(breaker')
    BY <1>0, <1>8, FailureIsFine DEF Challenge
  <2> QED BY <1>0, <1>3, <1>8, <2>1, PollAssumption
          DEF Challenge, RaiseAs, Breakers, Follows, PageInv, QuietInv, RecordInv,
          LongestCycle, Exceptions
<1>9. ASSUME NEW told \in {"limited", "coolOff"}, ToldToWait(told) PROVE IInv'
  <2>1. wait' \in Nat
    BY <1>9, BackOffIsNat, PollAssumption DEF ToldToWait
  <2> QED BY <1>0, <1>3, <1>9, <2>1, PollAssumption
          DEF ToldToWait, PageInv, QuietInv, RecordInv, LongestCycle
<1> QED BY <1>2, <1>4, <1>6, <1>7, <1>8, <1>9

LEMMA TickKeeps == ASSUME IInv, Tick PROVE IInv'
<1> USE DEF IInv, TypeOK
<1>0. ASSUME NEW n \in Nat, NEW cap \in Nat
      PROVE  Older(n, cap) \in Nat /\ (n <= cap => Older(n, cap) <= cap)
  BY DEF Older
<1>1. TypeOK'
  <2>1. breaker' \in Breakers
    BY <1>0, PollAssumption DEF Tick, Breakers
  <2>2. wait' \in Nat /\ elapsed' \in 0..PassTimeout
    BY <1>0, PollAssumption DEF Tick
  <2>3. unrecorded' \in Nat /\ quiet' \in 0..ChallengePause
    <3>1. LongestCycle + 1 \in Nat
      BY PollAssumption DEF LongestCycle
    <3> QED BY <1>0, <3>1, PollAssumption DEF Tick
  <2> QED BY <2>1, <2>2, <2>3 DEF Tick, Breakers
<1>2. BreakerFollowsFailures'
  BY PollAssumption DEF Tick, Older, BreakerFollowsFailures
<1>3. PageInv'
  BY DEF Tick, PageInv
<1>4. QuietInv'
  <2>1. CASE pc = "sleep"
    BY <2>1, PollAssumption DEF Tick, Older, QuietInv
  <2>2. CASE pc \in {"request", "wait"}
    BY <2>2, PollAssumption DEF Tick, Older, QuietInv
  <2> QED BY <2>1, <2>2 DEF Tick
<1>5. RecordInv'
  <2>1. CASE pc = "sleep"
    BY <2>1, PollAssumption DEF Tick, Older, RecordInv, LongestCycle
  <2>2. CASE pc \in {"request", "wait"}
    <3>1. elapsed < PassTimeout
      BY <2>2, PollAssumption DEF Tick, TimedOut
    <3>2. unrecorded < LongestCycle
      BY <2>2, <3>1, PollAssumption DEF RecordInv, LongestCycle
    <3> QED BY <2>2, <3>1, <3>2, PollAssumption DEF Tick, Older, RecordInv, LongestCycle
  <2> QED BY <2>1, <2>2 DEF Tick
<1> QED BY <1>1, <1>2, <1>3, <1>4, <1>5

\* Record the run: the pause that follows a challenge is the longer one.
LEMMA RecordKeeps == ASSUME IInv, RecordRun PROVE IInv'
<1> USE DEF IInv, TypeOK
<1>1. breaker' \in Breakers /\ Follows(breaker')
  BY NewIsFine DEF RecordRun, Breakers, Follows, BreakerFollowsFailures
<1>2. wait' \in Nat /\ (pc' = "sleep" => wait' = PauseAfter(raised))
  BY PollAssumption DEF RecordRun, PauseAfter
<1>3. LongestCycle \in Nat /\ ChallengePause + Every \in Nat
  BY PollAssumption DEF LongestCycle
<1>4. TypeOK' /\ BreakerFollowsFailures'
  BY <1>1, <1>2 DEF RecordRun, Recorded, Breakers, Follows, BreakerFollowsFailures
<1>5. /\ pc = "record" /\ pc' \in {"sleep", "down"} /\ unrecorded' = 0
      /\ quiet' = quiet /\ quiet \in Nat /\ unrecorded \in Nat
  BY DEF RecordRun
<1>6. CASE pc' = "sleep" /\ raised = "challenge"
  <2>1. wait' = ChallengePause + Every
    BY <1>2, <1>6 DEF PauseAfter
  <2>2. quiet + wait' >= ChallengePause /\ 0 + wait' <= ChallengePause + Every
    BY <1>5, <2>1, PollAssumption
  <2>3. 0 <= LongestCycle
    BY <1>3
  <2> QED BY <1>4, <1>5, <1>6, <2>2, <2>3, PollAssumption DEF PageInv, QuietInv, RecordInv, LongestCycle
<1>7. CASE pc' = "sleep" /\ raised # "challenge"
  <2>1. wait' = Every
    BY <1>2, <1>7 DEF PauseAfter
  <2>2. quiet = ChallengePause /\ 0 + wait' <= ChallengePause + Every
    BY <1>5, <1>7, <2>1, PollAssumption DEF QuietInv
  <2>3. 0 <= LongestCycle
    BY <1>3
  <2> QED BY <1>4, <1>5, <1>7, <2>2, <2>3, PollAssumption DEF PageInv, QuietInv, RecordInv, LongestCycle
<1>8. CASE pc' = "down"
  <2>1. 0 <= LongestCycle
    BY <1>3
  <2> QED BY <1>4, <1>5, <1>8, <2>1, PollAssumption DEF PageInv, QuietInv, RecordInv, LongestCycle
<1> QED BY <1>5, <1>6, <1>7, <1>8

LEMMA RestKeeps ==
  ASSUME IInv, \/ StartPass \/ BeforeRequest \/ EndWait \/ StoreRows \/ StoreFails
               \/ Watchdog \/ RecordFails \/ Wake \/ Die \/ Restart \/ CalmDown
               \/ UNCHANGED vars
  PROVE  IInv'
<1> USE DEF IInv, TypeOK
<1>0. breaker \in Breakers /\ Follows(breaker)
  BY DEF Breakers, Follows, BreakerFollowsFailures
<1>1. CASE StartPass
  BY <1>1, PollAssumption
     DEF StartPass, BreakerFollowsFailures, PageInv, QuietInv, RecordInv, LongestCycle,
     Exceptions
<1>2. CASE BeforeRequest
  <2>1. breaker' \in Breakers /\ Follows(breaker')
    BY <1>0, <1>2, AdmittedIsFine DEF BeforeRequest
  <2>2. raised' \in {"none", "open", "killed"}
    BY <1>2 DEF BeforeRequest, Refusal
  <2> QED BY <1>2, <2>1, <2>2, PollAssumption
          DEF BeforeRequest, Breakers, Follows, BreakerFollowsFailures, PageInv, QuietInv,
          RecordInv, LongestCycle, Exceptions
<1>3. CASE EndWait
  BY <1>0, <1>3, FailAttemptIsFine, PollAssumption
     DEF EndWait, Breakers, Follows, BreakerFollowsFailures, PageInv, QuietInv, RecordInv,
     LongestCycle, Exceptions
<1>4. CASE StoreRows
  BY <1>4, PollAssumption
     DEF StoreRows, LastPage, BreakerFollowsFailures, PageInv, QuietInv, RecordInv,
     LongestCycle
<1>5. CASE StoreFails \/ Watchdog
  BY <1>5, PollAssumption
     DEF StoreFails, Watchdog, TimedOut, RaiseAs, BreakerFollowsFailures, PageInv, QuietInv,
     RecordInv, LongestCycle, Exceptions
<1>6. CASE RecordFails \/ Die \/ CalmDown \/ UNCHANGED vars
  BY <1>6, PollAssumption
     DEF RecordFails, Die, CalmDown, vars, BreakerFollowsFailures, PageInv, QuietInv,
     RecordInv, LongestCycle
<1>7. CASE Wake
  BY <1>7, PollAssumption
     DEF Wake, BreakerFollowsFailures, PageInv, QuietInv, RecordInv, LongestCycle
<1>8. CASE Restart
  <2>1. breaker' \in Breakers /\ Follows(breaker')
    BY <1>8, NewIsFine DEF Restart
  <2>2. killSwitch' \in BOOLEAN
    BY <1>8 DEF Restart
  <2>3. TypeOK' /\ BreakerFollowsFailures'
    BY <1>8, <2>1, <2>2, PollAssumption
       DEF Restart, Breakers, Follows, BreakerFollowsFailures
  <2> QED BY <1>8, <2>3, PollAssumption DEF Restart, PageInv, QuietInv, RecordInv, LongestCycle
<1> QED BY <1>1, <1>2, <1>3, <1>4, <1>5, <1>6, <1>7, <1>8

-----------------------------------------------------------------------------
LEMMA InitKeeps == ASSUME Init PROVE IInv
<1>1. breaker \in Breakers /\ Follows(breaker)
  BY NewIsFine DEF Init
<1>2. killSwitch \in BOOLEAN /\ calm \in BOOLEAN
  BY DEF Init
<1>3. /\ page \in 1..(MaxPages + 1) /\ attempt \in 1..MaxRetries /\ elapsed \in 0..PassTimeout
      /\ quiet \in 0..ChallengePause /\ wait \in Nat /\ unrecorded \in Nat
  BY PollAssumption DEF Init
<1>4. TypeOK
  BY <1>1, <1>2, <1>3 DEF Init, TypeOK, Breakers, Exceptions
<1> QED BY <1>1, <1>4, PollAssumption
   DEF Init, IInv, Follows, BreakerFollowsFailures, PageInv, QuietInv, RecordInv, LongestCycle

\* The invariant, with its five parts.
LEMMA Inductive == Spec => []IInv
<1>1. Init => IInv
  BY InitKeeps
<1>2. IInv /\ [Next]_vars => IInv'
  BY AnswerKeeps, TickKeeps, RecordKeeps, RestKeeps DEF Next, Process
<1> QED BY <1>1, <1>2, PTL DEF Spec

\* The variables keep their types.
THEOREM TypeCorrect == Spec => []TypeOK
BY Inductive, PTL DEF IInv

\* circuit_breaker.py and the two places where client.py reports a challenge:
\* the state of the breaker is what its count of failures says.
THEOREM BreakerIsCoherent == Spec => []BreakerFollowsFailures
BY Inductive, PTL DEF IInv

\* main.py: after a challenge a living poller sends nothing for the whole pause.
THEOREM ChallengesBuyQuiet == Spec => []ChallengeBuysQuiet
<1>1. IInv => ChallengeBuysQuiet
  BY DEF IInv, QuietInv, ChallengeBuysQuiet
<1> QED BY <1>1, Inductive, PTL

\* main.py: a living poller records a run once in every longest cycle.
THEOREM LivingPollerRecords == Spec => []RunsAreRecorded
<1>1. IInv => RunsAreRecorded
  BY DEF IInv, RecordInv, RunsAreRecorded
<1> QED BY <1>1, Inductive, PTL
=============================================================================
