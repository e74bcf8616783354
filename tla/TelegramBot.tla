----------------------------- MODULE TelegramBot -----------------------------
(***************************************************************************)
(* The management bot (telegram-bot.js) between Telegram's update queue    *)
(* and the poller's HTTP operations (http-server.js).  The bot handles one *)
(* update at a time; its offset and the poller's delivery switch are each  *)
(* kept in memory and in a file of their own container.                    *)
(***************************************************************************)
EXTENDS Naturals, FiniteSets

CONSTANTS
  MaxUpdates,     \* bound: commands and taps of the users
  MaxPrompts,     \* bound: messages with buttons that are looked at
  MaxFaults,      \* bound: crashes, failed writes, calls that fail
  DefaultSwitch   \* delivery without a file: "on" or "off"

ASSUME BotAssumption ==
  /\ MaxUpdates \in Nat /\ MaxPrompts \in Nat /\ MaxFaults \in Nat
  /\ DefaultSwitch \in {"on", "off"}

Update == 1..MaxUpdates
Prompt == 1..MaxPrompts
None == 0

\* What an update makes the bot do.  "mute?", "unmute?" and "send?" ask for a tap, and
\* so does a preset's button; "nothing" is text that is no command or not allowed.
Button == [do \in {"mute?", "unmute?", "send?", "preset"} |->
  CASE do = "mute?" -> "mute" [] do = "unmute?" -> "unmute"
    [] do = "send?" -> "preset" [] OTHER -> "send"]
Command == {"nothing", "read", "simulate", "mute?", "unmute?", "send?"}
Tap == {"preset", "mute", "unmute", "send", "cancel"}
Post == {"simulate", "mute", "unmute", "send"}
\* A preset's button needs the poller's targets.
Get == {"read", "preset"}

VARIABLES
  \* Telegram
  update,     \* the updates so far: [do, of], of the prompt tapped
  confirmed,  \* updates below it are forgotten
  prompt,     \* prompt[m]: the button of message m; "none": not sent, or cleared
  prompts,    \* messages with buttons so far
  \* the bot
  at,         \* where its loop is
  offset, file, \* telegramUpdateOffset in memory and in the file
  batch,      \* updates fetched and not begun
  current,    \* the update being handled
  \* the poller
  request,    \* the bot's request to it: "none", "sent", "ok", "failed"
  enabled, saved, \* deliveryEnabled in memory and in the file
  \* history
  acted,      \* acted[u]: times the poller executed what u asks for
  handled,    \* updates whose handling came to its end
  told,       \* the users' last word about delivery: "on", "off"; "unsure"
  torn,       \* times the file of the offset was cut off
  faults

telegram == <<update, confirmed, prompt, prompts>>
bot == <<at, offset, file, batch, current>>
poller == <<request, enabled, saved>>
history == <<acted, handled, told, torn>>
vars == <<telegram, bot, poller, history, faults>>

Sent == DOMAIN update

TypeOK ==
  /\ Sent \in {1..n : n \in 0..MaxUpdates}
  /\ \A u \in Sent : update[u] \in [do: Command \cup Tap, of: Prompt \cup {None}]
  /\ confirmed \in Nat /\ offset \in Nat /\ file \in Nat
  /\ prompt \in [Prompt -> Tap \cup {"none"}] /\ prompts \in 0..MaxPrompts
  /\ at \in {"down", "wait", "loop", "clear", "request", "reply", "stopped"}
  /\ batch \subseteq Sent /\ current \in Sent \cup {None}
  /\ request \in {"none", "sent", "ok", "failed"}
  /\ enabled \in {"on", "off"} /\ saved \in {"on", "off", "none"}
  /\ acted \in [Update -> Nat] /\ handled \subseteq Sent
  /\ told \in {"on", "off", "unsure"} /\ torn \in Nat /\ faults \in 0..MaxFaults

Init ==
  /\ update = <<>> /\ confirmed = 0
  /\ prompt = [m \in Prompt |-> "none"] /\ prompts = 0
  /\ at = "wait" /\ offset = 0 /\ file = 0 /\ batch = {} /\ current = None
  /\ request = "none" /\ enabled = DefaultSwitch /\ saved = "none"
  /\ acted = [u \in Update |-> 0] /\ handled = {} /\ told = "unsure" /\ torn = 0
  /\ faults = 0

Fault == faults < MaxFaults /\ faults' = faults + 1

-----------------------------------------------------------------------------
(* The users: external *)

Arrives(do, of) ==
  /\ Cardinality(Sent) < MaxUpdates
  /\ update' = [u \in Sent \cup {Cardinality(Sent) + 1} |->
                  IF u \in Sent THEN update[u] ELSE [do |-> do, of |-> of]]
  /\ UNCHANGED <<confirmed, prompt, prompts, bot, poller, history, faults>>

UserSends == \E do \in Command : Arrives(do, None)

\* A button works until its message is cleared, more than once if need be.
UserTaps == \E m \in Prompt : prompt[m] # "none" /\ \E do \in {prompt[m], "cancel"} : Arrives(do, m)

-----------------------------------------------------------------------------
(* pollTelegram *)

Larger(a, b) == IF a < b THEN b ELSE a

\* getUpdates: Telegram forgets what is below the offset and gives the rest.
GetUpdates ==
  /\ at = "wait"
  /\ confirmed' = Larger(confirmed, offset)
  /\ batch' = {u \in Sent : u >= confirmed'} /\ batch' # {}
  /\ at' = "loop"
  /\ UNCHANGED <<update, prompt, prompts, offset, file, current, poller, history, faults>>

\* Mutant: only a poll that succeeded schedules the next one.
PollingEnds ==
  /\ at = "wait" /\ Fault /\ at' = "stopped"
  /\ confirmed' = Larger(confirmed, offset)
  /\ UNCHANGED <<update, prompt, prompts, offset, file, batch, current, poller, history>>

\* The answer is lost or an error; the finally block schedules the next poll.
PollFails ==
  /\ at = "wait" /\ Fault /\ at' = "wait"
  /\ confirmed' = Larger(confirmed, offset)
  /\ UNCHANGED <<update, prompt, prompts, offset, file, batch, current, poller, history>>

First(u) == u \in batch /\ \A v \in batch : u <= v

\* Mutant: the offset is moved behind the whole batch.
BatchTaken(u) == CHOOSE o \in 1..MaxUpdates + 1 : o - 1 \in batch /\ \A v \in batch : v < o

\* The offset after taking u.
Taken(u) == Larger(offset, u + 1)

\* Mutant: the offset stays in memory.
TakesWithoutSaving(u) ==
  /\ at = "loop" /\ First(u)
  /\ offset' = Taken(u) /\ file' = file
  /\ batch' = batch \ {u} /\ current' = u
  /\ at' = IF update[u].of # None THEN "clear"
           ELSE IF update[u].do \in Post \cup Get THEN "request" ELSE "reply"
  /\ UNCHANGED <<telegram, poller, history, faults>>

\* persistRuntimeState, then handleTelegramUpdate begins: a tap by clearing the
\* buttons, a command with its request or its reply.
Takes(u) ==
  /\ at = "loop" /\ First(u)
  /\ offset' = Taken(u) /\ file' = offset'
  /\ batch' = batch \ {u} /\ current' = u
  /\ at' = IF update[u].of # None THEN "clear"
           ELSE IF update[u].do \in Post \cup Get THEN "request" ELSE "reply"
  /\ UNCHANGED <<telegram, poller, history, faults>>

\* persistRuntimeState throws: the offset has moved, and the batch is fetched again.
SavingFails(u) ==
  /\ at = "loop" /\ First(u) /\ Fault
  /\ offset' = Taken(u)
  /\ \/ UNCHANGED <<file, torn>>
     \/ file' = 0 /\ torn' = torn + 1
  /\ batch' = {} /\ at' = "wait"
  /\ UNCHANGED <<telegram, current, poller, acted, handled, told>>

BatchEnds ==
  /\ at = "loop" /\ batch = {} /\ at' = "wait"
  /\ UNCHANGED <<telegram, offset, file, batch, current, poller, history, faults>>

-----------------------------------------------------------------------------
(* handleTelegramUpdate, handleTelegramCallbackQuery *)

\* clearTelegramInlineMarkupSafely: whether it worked is not asked.
ClearsMarkup ==
  /\ at = "clear"
  /\ \/ prompt' = [prompt EXCEPT ![update[current].of] = "none"] /\ UNCHANGED faults
     \/ Fault /\ UNCHANGED prompt
  /\ at' = IF update[current].do \in Post \cup Get THEN "request" ELSE "reply"
  /\ UNCHANGED <<update, confirmed, prompts, offset, file, batch, current, poller, history>>

Switch == [do \in {"mute", "unmute"} |-> IF do = "mute" THEN "off" ELSE "on"]
Switches == DOMAIN Switch

\* fetchPoller
Asks ==
  /\ at = "request" /\ request = "none" /\ request' = "sent"
  /\ told' = IF update[current].do \in Switches THEN "unsure" ELSE told
  /\ UNCHANGED <<telegram, bot, enabled, saved, acted, handled, torn, faults>>

\* The answer, or the error that came in its place.
Hears ==
  /\ at = "request" /\ request \in {"ok", "failed"} /\ at' = "reply"
  /\ UNCHANGED <<telegram, offset, file, batch, current, poller, history, faults>>

Offers == DOMAIN Button

\* n messages with the button that update do asks for: a retry after a lost answer
\* sends a second one.
Prompts(do, n) ==
  /\ prompts' = IF prompts + n > MaxPrompts THEN MaxPrompts ELSE prompts + n
  /\ prompt' = [m \in Prompt |-> IF m > prompts /\ m <= prompts' THEN Button[do] ELSE prompt[m]]

\* The reply, and with it the end of the update.
Replies ==
  LET do == update[current].do IN
  /\ at = "reply" /\ at' = "loop"
  /\ request' = "none"
  /\ IF do \in Offers /\ request # "failed"
     THEN \/ Prompts(do, 1) /\ UNCHANGED faults
          \/ Fault /\ \E n \in {0, 2} : Prompts(do, n)
     ELSE UNCHANGED <<prompt, prompts, faults>>
  /\ told' = IF do \in Switches /\ request = "ok"
             THEN Switch[do] ELSE told
  /\ handled' = handled \cup {current} /\ current' = None
  /\ UNCHANGED <<update, confirmed, offset, file, batch, enabled, saved, acted, torn>>

-----------------------------------------------------------------------------
(* The poller *)

\* Mutant: the file is left to whoever writes next.
SavesNothing(value) == UNCHANGED saved

\* setDeliveryEnabled: memory, then the file.
Saves(value) == saved' = value

Acts == acted' = [acted EXCEPT ![current] = @ + 1]

\* The request is executed: POST /ops/delivery, /ops/send_preset, /simulate, or a GET.
Executes ==
  LET do == update[current].do IN
  /\ request = "sent" /\ request' = "ok"
  /\ IF do \in Switches
     THEN enabled' = Switch[do] /\ Saves(Switch[do])
     ELSE UNCHANGED <<enabled, saved>>
  /\ IF do \in Post THEN Acts ELSE UNCHANGED acted
  /\ UNCHANGED <<telegram, bot, handled, told, torn, faults>>

\* The write throws: memory has changed, the file is as it was or cut off.
SwitchFails ==
  LET do == update[current].do IN
  /\ request = "sent" /\ do \in Switches /\ Fault /\ request' = "failed"
  /\ enabled' = Switch[do] /\ saved' \in {saved, "none"}
  /\ Acts
  /\ UNCHANGED <<telegram, bot, handled, told, torn>>

\* The request or its answer is lost, or the poller refuses it.
RequestFails ==
  /\ request \in {"sent", "ok"} /\ Fault /\ request' = "failed"
  /\ UNCHANGED <<telegram, bot, enabled, saved, history>>

PollerRestarts ==
  /\ Fault
  /\ enabled' = IF saved = "none" THEN DefaultSwitch ELSE saved
  /\ request' = IF request = "sent" THEN "failed" ELSE request
  /\ UNCHANGED <<telegram, bot, saved, history>>

-----------------------------------------------------------------------------
(* Crash and start of the bot *)

\* A crash while the offset is written cuts the file off.
Crash ==
  /\ at # "down" /\ Fault /\ at' = "down"
  /\ \/ UNCHANGED <<file, torn>>
     \/ at = "loop" /\ batch # {} /\ file' = 0 /\ torn' = torn + 1
  /\ UNCHANGED <<telegram, offset, batch, current, poller, acted, handled, told>>

\* init: what the last process sent has arrived or is lost by now.
Starts ==
  /\ at = "down" /\ request # "sent"
  /\ at' = "wait" /\ offset' = file /\ batch' = {} /\ current' = None
  /\ request' = "none"
  /\ UNCHANGED <<telegram, file, enabled, saved, history, faults>>

-----------------------------------------------------------------------------
BotStep ==
  \/ GetUpdates \/ (\E u \in Update : Takes(u)) \/ BatchEnds
  \/ ClearsMarkup \/ Asks \/ Hears \/ Replies \/ Starts

Next ==
  \/ UserSends \/ UserTaps
  \/ BotStep \/ PollFails \/ (\E u \in Update : SavingFails(u)) \/ Crash
  \/ Executes \/ SwitchFails \/ RequestFails \/ PollerRestarts

Spec == Init /\ [][Next]_vars

\* The bot goes on, its container is restarted, the poller answers.
FairSpec == Spec /\ WF_vars(BotStep) /\ WF_vars(Executes)

-----------------------------------------------------------------------------
(* Properties *)

\* The offset is saved before an update is handled (telegram-bot.js:644), so a crash or
\* a failed write loses the update in hand, but no more than one each.
Skipped == {u \in Sent : u < Larger(offset, confirmed) /\ u \notin handled \cup {current}}

OnlyTheCurrentIsLost == Cardinality(Skipped) <= faults

\* An alert is sent, and delivery switched, once per tap or command, whatever is
\* fetched again after crashes and failed polls, unless the file of the offset was cut
\* off.
OncePerUpdate == \A u \in Update : acted[u] <= 1 + torn

\* What the users were last told about delivery is so and stays so when the poller
\* restarts.
ToldIsSo == told # "unsure" => enabled = told /\ saved = told

\* Every update is taken up in the end: handled, or the one a fault cost.
EveryUpdateTaken == \A u \in Update : u \in Sent ~> u \in handled \cup Skipped
-----------------------------------------------------------------------------
(* Inductive strengthenings *)

\* Where the loop is goes with the update in hand and its request.
Shape ==
  /\ at \in {"wait", "loop"} => current = None /\ request = "none"
  /\ at \in {"clear", "request", "reply"} => current \in Sent
  /\ at = "clear" => update[current].of # None /\ request = "none"
  /\ at = "reply" => request # "sent"
  /\ request # "none" => current \in Sent
  /\ at # "stopped"

\* No offset is beyond the updates so far, and the batch is what is left from it on.
Offsets ==
  /\ file <= offset
  /\ offset <= Cardinality(Sent) + 1 /\ confirmed <= Cardinality(Sent) + 1
  /\ current # None => current < file
  /\ \A v \in batch : offset <= v
  /\ \A v \in batch : \A w \in Sent :
       w < v => w \in batch \/ w < offset \/ w < confirmed

\* A crash has paid for the update it will lose.
Paid == at = "down" /\ current # None
Losses == Cardinality(Skipped) + (IF Paid THEN 1 ELSE 0) <= faults

\* An update may still be acted on: it will be fetched again, or is in hand and not executed.
Pending(u) ==
  \/ file <= u
  \/ u = current /\ (at = "clear" \/ (at = "request" /\ request = "none") \/ request = "sent")

ActsLeft == \A u \in Update : acted[u] + (IF Pending(u) THEN 1 ELSE 0) <= 1 + torn

\* While a switch is asked for, nobody has been told; once executed, memory and file agree.
InDoubt ==
  request # "none" /\ update[current].do \in Switches =>
    /\ told = "unsure"
    /\ request = "ok" => enabled = Switch[update[current].do] /\ saved = Switch[update[current].do]
=============================================================================
