---------------------------- MODULE TelegramLinks ----------------------------
(***************************************************************************)
(* Linking the chats of one tenant to its alerts (telegram.py).  The       *)
(* console hands out one-time codes; whoever opens the link sends the code *)
(* to the bot from a chat; one poller reads the updates and works through  *)
(* them: it spends the code, records the chat, repoints the profile that   *)
(* had no chat, and answers.  Each is a step of its own, without a         *)
(* transaction around them, and a failure of any is logged and the next    *)
(* update taken.  Telegram keeps an update until a later offset is asked   *)
(* for; the poller remembers its offset in memory only.                    *)
(*                                                                         *)
(* An update is one /start with a code; its number is its place in the     *)
(* stream.  Requests of the console edit the one profile, read before it   *)
(* is written.                                                             *)
(***************************************************************************)
EXTENDS Integers, Sequences

CONSTANTS
  Chats,
  Codes,
  MaxUpdates,  \* bound: messages sent to the bot
  MaxFailures, \* bound: failed steps and restarts
  MaxEdits     \* bound: edits of the profile

VARIABLES
  code,        \* of each code: not issued, live, used, or expired
  updates,     \* every message: code and chat
  kept,        \* how many of them Telegram has dropped as confirmed
  bot,         \* the poller: offset (0: none yet), last of its batch, step
  active,      \* of each chat in telegram_links: linked_at, 0 unless active
  target,      \* of the alert profile: none (no profile), console (the
               \* placeholder), typed (a text that is no chat), or a chat
  edit,        \* the target that an edit has read and will write, or none
  edits,
  failures,
  linked,      \* history: <<code, chat>> of each chat recorded, in order
  failed,      \* history: codes whose update a failure cut short
  told         \* history: the answers that each update has had

vars == <<code, updates, kept, bot, active, target, edit, edits, failures, linked, failed, told>>

States == {"none", "live", "used", "expired"}
Steps == {"next", "link", "repoint", "welcome", "refuse"}
Targets == {"none", "console", "typed"} \cup Chats
Started == [offset |-> 0, last |-> 0, step |-> "next"]

TypeOK ==
  /\ code \in [Codes -> States]
  /\ updates \in Seq([code : Codes, chat : Chats]) /\ Len(updates) <= MaxUpdates
  /\ kept \in 0..MaxUpdates
  /\ bot \in [offset : 0..(MaxUpdates + 1), last : 0..MaxUpdates, step : Steps]
  /\ active \in [Chats -> Nat] /\ target \in Targets
  /\ edit \in Targets
  /\ edits \in 0..MaxEdits /\ failures \in 0..MaxFailures
  /\ linked \in Seq(Codes \X Chats)
  /\ failed \subseteq Codes /\ told \in [1..MaxUpdates -> SUBSET {"welcome", "refuse"}]

Init ==
  /\ code = [c \in Codes |-> "none"] /\ updates = << >> /\ kept = 0
  /\ bot = Started /\ active = [chat \in Chats |-> 0] /\ target \in {"none", "console"} /\ edit = "none"
  /\ edits = 0 /\ failures = 0
  /\ linked = << >> /\ failed = {} /\ told = [i \in 1..MaxUpdates |-> {}]

-----------------------------------------------------------------------------
\* new_link.
Issue(c) ==
  /\ code[c] = "none"
  /\ code' = [code EXCEPT ![c] = "live"]
  /\ UNCHANGED <<updates, kept, bot, active, target, edit, edits, failures, linked, failed, told>>

Expire(c) ==
  /\ code[c] = "live"
  /\ code' = [code EXCEPT ![c] = "expired"]
  /\ UNCHANGED <<updates, kept, bot, active, target, edit, edits, failures, linked, failed, told>>

\* Somebody who has the link presses Start, perhaps again, perhaps elsewhere.
Press(c, chat) ==
  /\ code[c] # "none" /\ Len(updates) < MaxUpdates
  /\ updates' = Append(updates, [code |-> c, chat |-> chat])
  /\ UNCHANGED <<code, kept, bot, active, target, edit, edits, failures, linked, failed, told>>

\* telegram_unlink.
Unlink(chat) ==
  /\ active[chat] # 0
  /\ active' = [active EXCEPT ![chat] = 0]
  /\ UNCHANGED <<code, updates, kept, bot, target, edit, edits, failures, linked, failed, told>>

-----------------------------------------------------------------------------
\* The update at work: the one before the offset.
At == bot.offset - 1
Now == updates[At]
GoTo(step) == bot' = [bot EXCEPT !.step = step]

\* getUpdates from the offset confirms everything before it; without one it
\* returns all that Telegram still keeps.
Poll ==
  /\ bot.step = "next" /\ (bot.offset = 0 \/ bot.offset > bot.last)
  /\ LET from == IF bot.offset = 0 THEN kept + 1 ELSE bot.offset
     IN /\ from <= Len(updates)
        /\ kept' = from - 1
        /\ bot' = [offset |-> from, last |-> Len(updates), step |-> "next"]
  /\ UNCHANGED <<code, updates, active, target, edit, edits, failures, linked, failed, told>>

\* Mutant: that a code was used would not be looked at.
Redeemable_Again(c) == code[c] \in {"live", "used"}

Redeemable(c) == code[c] = "live"

\* The offset moves past the update before the update is handled.
Redeem ==
  /\ bot.step = "next" /\ bot.offset \in 1..bot.last
  /\ LET c == updates[bot.offset].code
     IN IF Redeemable(c)
        THEN /\ code' = [code EXCEPT ![c] = "used"]
             /\ bot' = [bot EXCEPT !.offset = @ + 1, !.step = "link"]
        ELSE /\ bot' = [bot EXCEPT !.offset = @ + 1, !.step = "refuse"]
             /\ UNCHANGED code
  /\ UNCHANGED <<updates, kept, active, target, edit, edits, failures, linked, failed, told>>

\* A chat linked before becomes active again, and the latest.
Link ==
  /\ bot.step = "link"
  /\ active' = [active EXCEPT ![Now.chat] = Len(linked) + 1]
  /\ linked' = Append(linked, <<Now.code, Now.chat>>)
  /\ GoTo("repoint")
  /\ UNCHANGED <<code, updates, kept, target, edit, edits, failures, failed, told>>

Repoint ==
  /\ bot.step = "repoint"
  /\ target' = IF target \in {"console", "typed"} THEN Now.chat ELSE target
  /\ GoTo("welcome")
  /\ UNCHANGED <<code, updates, kept, active, edit, edits, failures, linked, failed, told>>

\* sendMessage.
Answer ==
  /\ bot.step \in {"welcome", "refuse"}
  /\ told' = [told EXCEPT ![At] = @ \cup {bot.step}]
  /\ GoTo("next")
  /\ UNCHANGED <<code, updates, kept, active, target, edit, edits, failures, linked, failed>>

\* The database or Telegram fails a step: the update is done with.  Of the
\* statement that spends the code nothing is left, of the others what they did.
CutShort == failed \cup (IF bot.step \in {"link", "repoint"} THEN {Now.code} ELSE {})

StepFails ==
  /\ failures < MaxFailures
  /\ bot.step # "next" \/ bot.offset \in 1..bot.last
  /\ bot' = [bot EXCEPT !.step = "next", !.offset = IF bot.step = "next" THEN @ + 1 ELSE @]
  /\ failed' = CutShort
  /\ failures' = failures + 1
  /\ UNCHANGED <<code, updates, kept, active, target, edit, edits, linked, told>>

\* The console is restarted; what Telegram keeps is read again.
Restart ==
  /\ failures < MaxFailures /\ bot # Started
  /\ bot' = Started
  /\ failed' = CutShort
  /\ failures' = failures + 1
  /\ UNCHANGED <<code, updates, kept, active, target, edit, edits, linked, told>>

-----------------------------------------------------------------------------
\* A typed target is kept as it is; the placeholder becomes the chat linked
\* last, and without one the request is refused.
Resolved(wanted) ==
  IF wanted # "console" THEN {wanted}
  ELSE {chat \in Chats : active[chat] # 0 /\ \A other \in Chats : active[other] <= active[chat]}

CreateProfile ==
  /\ target = "none" /\ edits < MaxEdits
  /\ target' \in UNION {Resolved(wanted) : wanted \in {"console", "typed"}}
  /\ edits' = edits + 1
  /\ UNCHANGED <<code, updates, kept, bot, active, edit, failures, linked, failed, told>>

\* The SELECTs of an edit that leaves the target alone, one right after the other.
ReadProfile ==
  /\ target # "none" /\ edit = "none" /\ edits < MaxEdits
  /\ edit' \in Resolved(target)
  /\ edits' = edits + 1
  /\ UNCHANGED <<code, updates, kept, bot, active, target, failures, linked, failed, told>>

\* The UPDATE writes every column, the target included.
WriteProfile ==
  /\ edit # "none"
  /\ target' = edit
  /\ edit' = "none"
  /\ UNCHANGED <<code, updates, kept, bot, active, edits, failures, linked, failed, told>>

Next ==
  \/ \E c \in Codes : Issue(c) \/ Expire(c) \/ \E chat \in Chats : Press(c, chat)
  \/ \E chat \in Chats : Unlink(chat)
  \/ Poll \/ Redeem \/ Link \/ Repoint \/ Answer \/ StepFails \/ Restart
  \/ CreateProfile \/ ReadProfile \/ WriteProfile

Spec == Init /\ [][Next]_vars

-----------------------------------------------------------------------------
LinkedBy(c) == {i \in DOMAIN linked : linked[i][1] = c}

\* A code links one chat once, however often it is pressed and its update is
\* read again after a restart: a chat that was unlinked stays so until a new
\* code is spent on it.
CodeLinksOnce ==
  /\ \A c \in Codes : \A i, j \in LinkedBy(c) : i = j
  /\ \A chat \in Chats : active[chat] # 0 => \E i \in DOMAIN linked : linked[i][2] = chat

\* A code that was spent has linked a chat, unless it is at work or a failure
\* came between, which loses it for good; a chat is welcomed only when linked.
SpentCodeLinked ==
  /\ \A c \in Codes \ failed :
       code[c] = "used" => LinkedBy(c) # {} \/ (bot.step = "link" /\ Now.code = c)
  /\ \A i \in DOMAIN updates :
       "welcome" \in told[i] =>
         \E j \in LinkedBy(updates[i].code) : linked[j][2] = updates[i].chat

\* The profile that waited for a chat has one as soon as any chat is linked,
\* whoever edits it, unless a failure came between.
PlaceholderServed ==
  target = "console" /\ linked # << >> => failed # {} \/ bot.step = "repoint"

-----------------------------------------------------------------------------
(* The inductive invariant behind the three.                               *)

\* The poller works on an update of its batch, and answers those that came.
BatchIsKept ==
  /\ bot.offset <= bot.last + 1 /\ bot.last <= Len(updates) /\ kept <= Len(updates)
  /\ bot.step # "next" => bot.offset >= 2
  /\ \A i \in 1..MaxUpdates : told[i] # {} => i <= Len(updates)

\* A code is spent before it links, and is not at work when it has.
SpentFirst ==
  /\ \A c \in Codes : LinkedBy(c) # {} => code[c] = "used"
  /\ bot.step = "link" => code[Now.code] = "used" /\ LinkedBy(Now.code) = {}
  /\ bot.step \in {"repoint", "welcome"} => \E j \in LinkedBy(Now.code) : linked[j][2] = Now.chat

LinkInv ==
  /\ TypeOK /\ BatchIsKept /\ SpentFirst /\ edit # "console"
  /\ CodeLinksOnce /\ SpentCodeLinked /\ PlaceholderServed
=============================================================================
