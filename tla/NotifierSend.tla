---------------------------- MODULE NotifierSend ----------------------------
(***************************************************************************)
(* What one send() of WhatsAppNotifier or TelegramNotifier does            *)
(* (notifier-service.js): the gate, the choice of an Evolution instance,   *)
(* the photo, the text it falls back to, the retries inside a Telegram     *)
(* send, the files written afterwards.  A job is named by its delivery     *)
(* key.  The providers are external: a message they refuse with an error   *)
(* they have not taken, and one they do not answer they may have taken.    *)
(* Errors are told apart as isAmbiguousSendError reads their text.         *)
(***************************************************************************)
EXTENDS Naturals

CONSTANTS
  WhatsApp, Telegram, \* the jobs, by the transport of their target
  Unwritable,         \* jobs during which a file may turn out unwritable
  HasFallback,        \* is EVOLUTION_FALLBACK_INSTANCE set?
  Retries,            \* how many delays TELEGRAM_RETRY_DELAYS_MS has
  MaxAttempts         \* OUTBOX_MAX_ATTEMPTS: sends of one job

Job == WhatsApp \cup Telegram

ASSUME SendAssumption ==
  /\ WhatsApp \cap Telegram = {} /\ Unwritable \subseteq Job
  /\ HasFallback \in BOOLEAN /\ Retries \in Nat /\ MaxAttempts \in Nat

VARIABLES
  instance,   \* instance[i]: Evolution's state of the instance (external)
  remembered, \* the gate's entries of the last DELIVERY_DUPLICATE_WINDOW_MS
  inFlight,   \* the gate's inFlight
  send,       \* send[j]: where the send of j is
  outcome,    \* outcome[j]: what its last send reported
  attempts,   \* attempts[j]: its sends so far
  accepted,   \* history: messages the provider took for j
  unheard     \* history: jobs for which an answer was lost or a file not written

vars == <<instance, remembered, inFlight, send, outcome, attempts, accepted, unheard>>

Instance == {"primary", "fallback"}
State == {"missing", "closed", "open"}

\* An error, as the worker will take it: "ambiguous" when its text speaks of a
\* time-out or of the network.
Failure == {"ambiguous", "transient"}
Outcome == Failure \cup {"none", "ok", "skipped"}

\* tries: failed calls of the running retryTelegramOperation; primary: what the
\* status query of the primary instance gave; via: the instance that sends.
Send == [at: {"idle", "primary", "fallback", "media", "text", "files"},
         tries: 0..Retries, primary: State \cup Failure, via: Instance]

Stage(at, primary, via) == [at |-> at, tries |-> 0, primary |-> primary, via |-> via]

Idle == Stage("idle", "missing", "primary")

TypeOK ==
  /\ instance \in [Instance -> State]
  /\ remembered \subseteq WhatsApp /\ inFlight \subseteq WhatsApp
  /\ send \in [Job -> Send] /\ outcome \in [Job -> Outcome]
  /\ attempts \in [Job -> 0..MaxAttempts] /\ accepted \in [Job -> Nat]
  /\ unheard \subseteq Job

Init ==
  /\ instance \in [Instance -> State]
  /\ remembered = {} /\ inFlight = {}
  /\ send = [j \in Job |-> Idle] /\ outcome = [j \in Job |-> "none"]
  /\ attempts = [j \in Job |-> 0] /\ accepted = [j \in Job |-> 0]
  /\ unheard = {}

At(j, stage) == send[j].at = stage

GoesTo(j, stage) ==
  /\ send' = [send EXCEPT ![j] = Stage(stage, @.primary, @.via)]
  /\ UNCHANGED <<inFlight, outcome>>

\* Mutant: the gate's key is cleared only when all went well.
RejectsInFlight(j, failure) ==
  /\ send' = [send EXCEPT ![j] = Idle]
  /\ outcome' = [outcome EXCEPT ![j] = failure]
  /\ UNCHANGED inFlight

\* send() rejects; its finally block clears the gate's key.
Rejects(j, failure) ==
  /\ send' = [send EXCEPT ![j] = Idle]
  /\ outcome' = [outcome EXCEPT ![j] = failure]
  /\ inFlight' = inFlight \ {j}

\* The provider has taken the message, for all anybody knows.
MayBeTaken(j) == \E n \in {0, 1} : accepted' = [accepted EXCEPT ![j] = @ + n]

-----------------------------------------------------------------------------
(* The worker calls send() *)

\* A job is sent first, and again after a failure that is not ambiguous
\* (processReservedJob).
Called(j) ==
  /\ At(j, "idle") /\ outcome[j] \in {"none", "transient"}
  /\ attempts[j] < MaxAttempts /\ attempts' = [attempts EXCEPT ![j] = @ + 1]

\* Gate check and mark happen without an await between them.
Enter(j) ==
  /\ Called(j)
  /\ IF j \in remembered \cup inFlight
     THEN /\ outcome' = [outcome EXCEPT ![j] = "skipped"]
          /\ UNCHANGED <<inFlight, send>>
     ELSE /\ outcome' = [outcome EXCEPT ![j] = "none"]
          /\ inFlight' = inFlight \cup ({j} \cap WhatsApp)
          /\ send' = [send EXCEPT ![j] =
               Stage(IF j \in WhatsApp THEN "primary" ELSE "media", "missing", "primary")]
  /\ UNCHANGED <<instance, remembered, accepted, unheard>>

\* The check prunes entries of past weeks and cannot write what is left.
PruneFails(j) ==
  /\ Called(j) /\ j \in WhatsApp \cap Unwritable
  /\ outcome' = [outcome EXCEPT ![j] = "transient"]
  /\ UNCHANGED <<instance, remembered, inFlight, send, accepted, unheard>>

-----------------------------------------------------------------------------
(* WhatsApp: resolveActiveEvolutionInstance *)

\* chooseEvolutionInstance: p and f are what the two status queries gave.
Choose(j, p, f) ==
  \/ /\ "open" \in {p, f}
     /\ send' = [send EXCEPT ![j] =
          Stage("media", p, IF p = "open" THEN "primary" ELSE "fallback")]
     /\ UNCHANGED <<inFlight, outcome>>
  \/ /\ "open" \notin {p, f}
     /\ Rejects(j, IF "ambiguous" \in {p, f} THEN "ambiguous" ELSE "transient")

\* fetchEvolutionInstanceStatus of the primary instance, which is created when Evolution
\* does not know it: also when the answer to that is an error.
CheckPrimary(j) ==
  /\ At(j, "primary")
  /\ \E status \in Failure \cup {"closed", "open"} :
       /\ \/ status \in Failure /\ instance["primary"] = "missing"
             /\ \E s \in {"missing", "closed"} : instance' = [instance EXCEPT !["primary"] = s]
          \/ status \in Failure /\ instance["primary"] # "missing" /\ UNCHANGED instance
          \/ status = "closed" /\ instance["primary"] = "missing"
             /\ instance' = [instance EXCEPT !["primary"] = "closed"]
          \/ status = instance["primary"] /\ UNCHANGED instance
       /\ IF HasFallback
          THEN /\ send' = [send EXCEPT ![j] = Stage("fallback", status, "primary")]
               /\ UNCHANGED <<inFlight, outcome>>
          ELSE Choose(j, status, "missing")
  /\ UNCHANGED <<remembered, attempts, accepted, unheard>>

\* The fallback instance is never created: without it connectionState is an error.
CheckFallback(j) ==
  /\ At(j, "fallback")
  /\ \E status \in Failure \cup ({instance["fallback"]} \ {"missing"}) :
       Choose(j, send[j].primary, status)
  /\ UNCHANGED <<instance, remembered, attempts, accepted, unheard>>

-----------------------------------------------------------------------------
(* The message *)

\* An instance may have closed since its status was read.
Reachable(j) == j \in Telegram \/ instance[send[j].via] = "open"

\* Mutant: a photo that was taken is followed by the text all the same.
TakenAndRepeated(j) ==
  /\ send[j].at \in {"media", "text"} /\ Reachable(j)
  /\ accepted' = [accepted EXCEPT ![j] = @ + 1]
  /\ GoesTo(j, IF At(j, "media") THEN "text" ELSE "files")
  /\ UNCHANGED <<instance, remembered, attempts, unheard>>

\* sendMedia, sendPhoto, sendText or sendMessage succeeds.
Taken(j) ==
  /\ send[j].at \in {"media", "text"} /\ Reachable(j)
  /\ accepted' = [accepted EXCEPT ![j] = @ + 1]
  /\ GoesTo(j, "files")
  /\ UNCHANGED <<instance, remembered, attempts, unheard>>

\* Mutant: WhatsApp falls back to text after any failure of the photo, as Telegram does.
TextAfterSilence(j) ==
  /\ j \in WhatsApp /\ send[j].at \in {"media", "text"}
  /\ IF Reachable(j) THEN MayBeTaken(j) ELSE UNCHANGED accepted
  /\ unheard' = unheard \cup {j}
  /\ IF At(j, "media") THEN GoesTo(j, "text") ELSE Rejects(j, "ambiguous")
  /\ UNCHANGED <<instance, remembered, attempts>>

\* WhatsApp: no answer within EVOLUTION_TIMEOUT_MS, or a broken connection.
Unanswered(j) ==
  /\ j \in WhatsApp /\ send[j].at \in {"media", "text"}
  /\ IF Reachable(j) THEN MayBeTaken(j) ELSE UNCHANGED accepted
  /\ unheard' = unheard \cup {j}
  /\ Rejects(j, "ambiguous")
  /\ UNCHANGED <<instance, remembered, attempts>>

\* shouldFallbackToText: Evolution refuses the photo with 404 or "not found".
MediaRefused(j) ==
  /\ j \in WhatsApp /\ At(j, "media")
  /\ GoesTo(j, "text")
  /\ UNCHANGED <<instance, remembered, attempts, accepted, unheard>>

\* Any other error; its body, which is part of the error's text, decides how it reads.
Refused(j) ==
  /\ j \in WhatsApp /\ send[j].at \in {"media", "text"}
  /\ \E failure \in Failure : Rejects(j, failure)
  /\ UNCHANGED <<instance, remembered, attempts, accepted, unheard>>

\* sendTelegramMessage: whatever the photo's error, the text is tried; the text's error
\* is send()'s.
GivesUp(j, failure) ==
  IF At(j, "media") THEN GoesTo(j, "text") ELSE Rejects(j, failure)

\* Mutant: one retry too many.
RetryOnceMore(j, failure) ==
  IF send[j].tries <= Retries
  THEN /\ send' = [send EXCEPT ![j].tries = @ + 1]
       /\ UNCHANGED <<inFlight, outcome>>
  ELSE GivesUp(j, failure)

\* retryTelegramOperation after an error that isTelegramTransientError.
RetryOr(j, failure) ==
  IF send[j].tries < Retries
  THEN /\ send' = [send EXCEPT ![j].tries = @ + 1]
       /\ UNCHANGED <<inFlight, outcome>>
  ELSE GivesUp(j, failure)

\* Telegram: no answer within the time-out, or a broken connection, is retried at once.
UnansweredRetried(j) ==
  /\ j \in Telegram /\ send[j].at \in {"media", "text"}
  /\ MayBeTaken(j) /\ unheard' = unheard \cup {j}
  /\ RetryOr(j, "ambiguous")
  /\ UNCHANGED <<instance, remembered, attempts>>

\* Telegram answers 2xx with a body that does not parse: fetchTelegram throws what no
\* retry is made for, although the message is there.
AnswerGarbled(j) ==
  /\ j \in Telegram /\ send[j].at \in {"media", "text"}
  /\ MayBeTaken(j) /\ unheard' = unheard \cup {j}
  /\ \E failure \in Failure : GivesUp(j, failure)
  /\ UNCHANGED <<instance, remembered, attempts>>

\* Telegram answers 408, 409, 425, 429 or 5xx, or with an error whose text speaks of
\* the network.
Unavailable(j) ==
  /\ j \in Telegram /\ send[j].at \in {"media", "text"}
  /\ \E failure \in Failure : RetryOr(j, failure)
  /\ UNCHANGED <<instance, remembered, attempts, accepted, unheard>>

\* Telegram answers with any other error.
TelegramRefuses(j) ==
  /\ j \in Telegram /\ send[j].at \in {"media", "text"}
  /\ \E failure \in Failure : GivesUp(j, failure)
  /\ UNCHANGED <<instance, remembered, attempts, accepted, unheard>>

-----------------------------------------------------------------------------
(* After the message *)

\* The gate, the recent-sent list and the state file; then send() returns.
Recorded(j) ==
  /\ At(j, "files")
  /\ remembered' = remembered \cup ({j} \cap WhatsApp)
  /\ Rejects(j, "ok")
  /\ UNCHANGED <<instance, attempts, accepted, unheard>>

\* A file cannot be written: the gate's memory has the key by then.
RecordFails(j) ==
  /\ At(j, "files") /\ j \in Unwritable
  /\ remembered' = remembered \cup ({j} \cap WhatsApp)
  /\ unheard' = unheard \cup {j}
  /\ Rejects(j, "transient")
  /\ UNCHANGED <<instance, attempts, accepted>>

-----------------------------------------------------------------------------
(* The environment *)

InstanceChanges(i) ==
  /\ \E s \in State : s # instance[i] /\ instance' = [instance EXCEPT ![i] = s]
  /\ UNCHANGED <<remembered, inFlight, send, outcome, attempts, accepted, unheard>>

WindowPasses(j) ==
  /\ j \in remembered /\ remembered' = remembered \ {j}
  /\ UNCHANGED <<instance, inFlight, send, outcome, attempts, accepted, unheard>>

SendStep(j) ==
  \/ CheckPrimary(j) \/ CheckFallback(j)
  \/ Taken(j) \/ Unanswered(j) \/ MediaRefused(j) \/ Refused(j)
  \/ UnansweredRetried(j) \/ AnswerGarbled(j) \/ Unavailable(j) \/ TelegramRefuses(j)
  \/ Recorded(j) \/ RecordFails(j)

Next ==
  \/ \E j \in Job : Enter(j) \/ PruneFails(j) \/ SendStep(j) \/ WindowPasses(j)
  \/ \E i \in Instance : InstanceChanges(i)

Spec == Init /\ [][Next]_vars

-----------------------------------------------------------------------------
(* Properties *)

Kept == WhatsApp \ Unwritable

Contract ==
  INSTANCE SenderContract WITH
    Job <- Kept,
    accepted <- [j \in Kept |-> accepted[j]],
    outcome <- [j \in Kept |-> outcome[j]]

\* The sender of WhatsApp is the honest one OutboxDelivery_proofs assume, whatever
\* instances and answers do, as long as its files can be written.
KeepsSenderContract == Contract!Spec

\* A send that returns, which marks the row sent, has a message in the chat behind it:
\* in particular one that is skipped because of the gate.
SentWasTaken == \A j \in Job : outcome[j] \in {"ok", "skipped"} => accepted[j] > 0

\* Fallbacks and retries repeat a message only after an answer was lost or a file could
\* not be written, never after a refusal or a success.
RepeatsOnlyUnheard == \A j \in Job : accepted[j] > 1 => j \in unheard

-----------------------------------------------------------------------------
(* Inductive strengthening, job by job. *)

GateShape(j) ==
  /\ j \in inFlight <=> j \in WhatsApp /\ ~At(j, "idle")
  /\ j \in remembered => accepted[j] > 0

SendShape(j) ==
  /\ j \in Telegram => ~At(j, "primary") /\ ~At(j, "fallback")
  /\ ~At(j, "idle") => outcome[j] = "none"
  /\ At(j, "files") => accepted[j] > 0
  /\ outcome[j] \in {"ok", "skipped"} => accepted[j] > 0

\* A job of which all answers were heard has no message, or has one and is done with.
HeardShape(j) ==
  j \notin unheard =>
    \/ accepted[j] = 0
    \/ accepted[j] = 1 /\ (At(j, "files") \/ outcome[j] \in {"ok", "skipped"})

\* A job of the honest sender also has one when it was left ambiguous.
KeptShape(j) ==
  j \in Kept =>
    /\ outcome[j] # "skipped"
    /\ \/ accepted[j] = 0
       \/ accepted[j] = 1 /\ (At(j, "files") \/ outcome[j] \in {"ok", "ambiguous"})

SendInv == \A j \in Job : GateShape(j) /\ SendShape(j) /\ HeardShape(j) /\ KeptShape(j)
=============================================================================
