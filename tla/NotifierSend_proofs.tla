------------------------- MODULE NotifierSend_proofs -------------------------
(* What a send reports is true, and WhatsApp's sender is honest.  The invariant is    *)
(* SendInv; a step of a send is read as one of four kinds (Quiet, Taking, Silence,    *)
(* Writing) by what becomes of the message.                                           *)
EXTENDS NotifierSend, TLAPS

-----------------------------------------------------------------------------
(* What the steps of a send do to the job's own entries. *)

\* The send goes on at another stage, or ends with outcome o.
Goes(j, s) == send' = [send EXCEPT ![j] = s] /\ UNCHANGED <<inFlight, outcome>>

LEMMA IdleIsSend == Idle \in Send
  BY SendAssumption DEF Idle, Stage, Send, Instance, State, Failure

\* A choice of instance sends the photo or fails.
LEMMA ChooseCases ==
  ASSUME NEW j \in Job, NEW p \in State \cup Failure, NEW f, Choose(j, p, f)
  PROVE  \/ \E s \in Send : s.at = "media" /\ Goes(j, s)
         \/ \E o \in Failure : Rejects(j, o)
<1>1. CASE "open" \in {p, f}
  <2>. DEFINE s == Stage("media", p, IF p = "open" THEN "primary" ELSE "fallback")
  <2>1. s \in Send /\ s.at = "media"
    BY SendAssumption DEF Stage, Send, Instance
  <2>. QED BY <1>1, <2>1 DEF Choose, Goes
<1>2. CASE "open" \notin {p, f}
  BY <1>2 DEF Choose, Failure
<1>. QED BY <1>1, <1>2

\* After an error Telegram's send stays where it is, tries the text or fails.
LEMMA RetryCases ==
  ASSUME TypeOK, NEW j \in Job, NEW failure \in Failure, send[j].at \in {"media", "text"},
         GivesUp(j, failure) \/ RetryOr(j, failure)
  PROVE  \/ \E s \in Send : s.at \in {"media", "text"} /\ Goes(j, s)
         \/ Rejects(j, failure)
<1>1. send[j] \in Send
  BY DEF TypeOK
<1>2. CASE GivesUp(j, failure)
  <2>1. CASE At(j, "media")
    <3>1. Stage("text", send[j].primary, send[j].via) \in Send
      BY <1>1, SendAssumption DEF Send, Stage
    <3>2. send' = [send EXCEPT ![j] = Stage("text", send[j].primary, send[j].via)]
      BY <1>2, <2>1 DEF GivesUp, GoesTo
    <3>3. Stage("text", send[j].primary, send[j].via).at = "text"
      BY DEF Stage
    <3>. QED BY <1>2, <2>1, <3>1, <3>2, <3>3 DEF GivesUp, GoesTo, Goes
  <2>. QED BY <1>2, <2>1 DEF GivesUp
<1>3. CASE RetryOr(j, failure) /\ send[j].tries < Retries
  <2>1. [send[j] EXCEPT !.tries = @ + 1] \in Send
    BY <1>1, <1>3, SendAssumption DEF Send
  <2>2. send' = [send EXCEPT ![j] = [send[j] EXCEPT !.tries = @ + 1]]
    BY <1>3 DEF RetryOr
  <2>3. [send[j] EXCEPT !.tries = @ + 1].at = send[j].at
    BY <1>1 DEF Send
  <2>. QED BY <1>3, <2>1, <2>2, <2>3 DEF RetryOr, Goes
<1>. QED BY <1>2, <1>3 DEF RetryOr

\* A step of a send: it goes on, or ends; the provider took the message once at most.
Moves(j) ==
  \/ \E s \in Send : Goes(j, s) /\ s.at # "idle" /\ (j \in Telegram => s.at \in {"media", "text", "files"})
  \/ \E o \in Failure \cup {"ok"} : Rejects(j, o)

LEMMA StepMoves ==
  ASSUME TypeOK, NEW j \in Job, SendStep(j),
         j \in Telegram => ~At(j, "primary") /\ ~At(j, "fallback")
  PROVE  Moves(j)
<1>. USE SendAssumption DEF Moves
<1>0. send[j] \in Send
  BY DEF TypeOK
<1>g. ASSUME NEW stage \in {"text", "files"}, GoesTo(j, stage)
      PROVE  Moves(j)
  <2>1. Stage(stage, send[j].primary, send[j].via) \in Send
    BY <1>0 DEF Send, Stage
  <2>2. Stage(stage, send[j].primary, send[j].via).at = stage
    BY DEF Stage
  <2>3. send' = [send EXCEPT ![j] = Stage(stage, send[j].primary, send[j].via)]
    BY <1>g DEF GoesTo
  <2>. QED BY <1>g, <2>1, <2>2, <2>3 DEF GoesTo, Goes
<1>1. CASE CheckPrimary(j)
  <2>1. j \notin Telegram
    BY <1>1 DEF CheckPrimary
  <2>2. PICK status \in Failure \cup {"closed", "open"} :
          \/ send' = [send EXCEPT ![j] = Stage("fallback", status, "primary")]
             /\ UNCHANGED <<inFlight, outcome>>
          \/ Choose(j, status, "missing")
    BY <1>1 DEF CheckPrimary
  <2>3. CASE Choose(j, status, "missing")
    <3>1. status \in State \cup Failure
      BY DEF State
    <3>. QED BY <2>1, <2>3, <3>1, ChooseCases
  <2>4. CASE /\ send' = [send EXCEPT ![j] = Stage("fallback", status, "primary")]
             /\ UNCHANGED <<inFlight, outcome>>
    <3>1. Stage("fallback", status, "primary") \in Send
      BY DEF Stage, Send, State, Failure, Instance
    <3>2. Stage("fallback", status, "primary").at = "fallback"
      BY DEF Stage
    <3>. QED BY <2>1, <2>4, <3>1, <3>2 DEF Goes
  <2>. QED BY <2>2, <2>3, <2>4
<1>2. CASE CheckFallback(j)
  <2>1. j \notin Telegram
    BY <1>2 DEF CheckFallback
  <2>2. \E f : Choose(j, send[j].primary, f)
    BY <1>2 DEF CheckFallback
  <2>3. send[j].primary \in State \cup Failure
    BY <1>0 DEF Send
  <2>. QED BY <2>1, <2>2, <2>3, ChooseCases
<1>3. CASE Taken(j)
  BY <1>3, <1>g DEF Taken
<1>4. CASE Unanswered(j)
  BY <1>4 DEF Unanswered, Failure
<1>5. CASE MediaRefused(j)
  BY <1>5, <1>g DEF MediaRefused
<1>6. CASE Refused(j)
  BY <1>6 DEF Refused
<1>7. CASE \/ UnansweredRetried(j) \/ AnswerGarbled(j)
          \/ Unavailable(j) \/ TelegramRefuses(j)
  <2>1. PICK failure \in Failure : GivesUp(j, failure) \/ RetryOr(j, failure)
    BY <1>7 DEF UnansweredRetried, AnswerGarbled, Unavailable, TelegramRefuses, Failure
  <2>2. send[j].at \in {"media", "text"}
    BY <1>7 DEF UnansweredRetried, AnswerGarbled, Unavailable, TelegramRefuses
  <2>. QED BY <2>1, <2>2, RetryCases
<1>8. CASE Recorded(j) \/ RecordFails(j)
  BY <1>8 DEF Recorded, RecordFails, Failure
<1>. QED BY <1>1, <1>2, <1>3, <1>4, <1>5, <1>6, <1>7, <1>8 DEF SendStep

-----------------------------------------------------------------------------
(* Types *)

\* A step of a send takes the entries of the provider's side along.
LEMMA StepFrame ==
  ASSUME TypeOK, NEW j \in Job, SendStep(j)
  PROVE  /\ \/ accepted' = accepted
            \/ accepted' = [accepted EXCEPT ![j] = @ + 1] /\ send[j].at \in {"media", "text"}
         /\ unheard' = unheard \/ unheard' = unheard \cup {j}
         /\ remembered' = remembered \/ (remembered' = remembered \cup {j} /\ At(j, "files") /\ j \in WhatsApp)
         /\ UNCHANGED attempts
         /\ instance' \in [Instance -> State]
         /\ ~At(j, "idle")
<1>0. accepted \in [Job -> Nat]
  BY DEF TypeOK
<1>m. ASSUME MayBeTaken(j) PROVE accepted' = accepted \/ accepted' = [accepted EXCEPT ![j] = @ + 1]
  <2>1. PICK n \in {0, 1} : accepted' = [accepted EXCEPT ![j] = @ + n]
    BY <1>m DEF MayBeTaken
  <2>2. CASE n = 0
    <3>1. [accepted EXCEPT ![j] = @ + n] = accepted
      BY <1>0, <2>2
    <3>. QED BY <2>1, <3>1
  <2>3. CASE n = 1
    BY <2>1, <2>3
  <2>. QED BY <2>1, <2>2, <2>3
<1>1. CASE CheckPrimary(j)
  BY <1>1 DEF CheckPrimary, TypeOK, Instance, State, At
<1>2. CASE CheckFallback(j)
  BY <1>2 DEF CheckFallback, TypeOK, At
<1>3. CASE Taken(j)
  BY <1>3 DEF Taken, TypeOK, At
<1>4. CASE Unanswered(j)
  BY <1>4, <1>m DEF Unanswered, TypeOK, At
<1>5. CASE MediaRefused(j)
  BY <1>5 DEF MediaRefused, TypeOK, At
<1>6. CASE Refused(j)
  BY <1>6 DEF Refused, TypeOK, At
<1>7. CASE UnansweredRetried(j) \/ AnswerGarbled(j)
  BY <1>7, <1>m DEF UnansweredRetried, AnswerGarbled, TypeOK, At
<1>8. CASE Unavailable(j) \/ TelegramRefuses(j)
  BY <1>8 DEF Unavailable, TelegramRefuses, TypeOK, At
<1>9. CASE Recorded(j) \/ RecordFails(j)
  <2>1. CASE j \in WhatsApp
    <3>1. {j} \cap WhatsApp = {j}
      BY <2>1
    <3>. QED BY <1>9, <2>1, <3>1 DEF Recorded, RecordFails, TypeOK, At
  <2>2. CASE j \notin WhatsApp
    <3>1. remembered \cup ({j} \cap WhatsApp) = remembered
      BY <2>2
    <3>. QED BY <1>9, <3>1 DEF Recorded, RecordFails, TypeOK, At
  <2>. QED BY <2>1, <2>2
<1>. QED BY <1>1, <1>2, <1>3, <1>4, <1>5, <1>6, <1>7, <1>8, <1>9 DEF SendStep

LEMMA MovesTypes ==
  ASSUME TypeOK, NEW j \in Job, Moves(j)
  PROVE  /\ send' \in [Job -> Send] /\ outcome' \in [Job -> Outcome]
         /\ inFlight' \subseteq WhatsApp
<1>1. ASSUME NEW s \in Send, Goes(j, s)
      PROVE  send' \in [Job -> Send] /\ UNCHANGED <<inFlight, outcome>>
  BY <1>1 DEF Goes, TypeOK
<1>2. ASSUME NEW o \in Failure \cup {"ok"}, Rejects(j, o)
      PROVE  /\ send' \in [Job -> Send] /\ outcome' \in [Job -> Outcome]
             /\ inFlight' \subseteq WhatsApp
  BY <1>2, IdleIsSend DEF Rejects, TypeOK, Outcome
<1>3. outcome \in [Job -> Outcome] /\ inFlight \subseteq WhatsApp
  BY DEF TypeOK
<1>. QED BY <1>1, <1>2, <1>3 DEF Moves

\* Entering, skipped or not.
EntersSkipped(j) ==
  /\ j \in remembered \cup inFlight
  /\ outcome' = [outcome EXCEPT ![j] = "skipped"] /\ UNCHANGED <<inFlight, send>>

EntersSending(j) ==
  /\ j \notin remembered \cup inFlight
  /\ outcome' = [outcome EXCEPT ![j] = "none"]
  /\ inFlight' = inFlight \cup ({j} \cap WhatsApp)
  /\ send' = [send EXCEPT ![j] =
       Stage(IF j \in WhatsApp THEN "primary" ELSE "media", "missing", "primary")]

LEMMA EnterTypes == ASSUME TypeOK, NEW j \in Job, Enter(j) PROVE TypeOK'
<1>. USE SendAssumption
<1>1. attempts' \in [Job -> 0..MaxAttempts]
  BY DEF Enter, Called, TypeOK
<1>2. UNCHANGED <<instance, remembered, accepted, unheard>>
  BY DEF Enter
<1>3. CASE EntersSkipped(j)
  BY <1>1, <1>2, <1>3 DEF EntersSkipped, TypeOK, Outcome
<1>4. CASE EntersSending(j)
  <2>1. outcome' \in [Job -> Outcome] /\ inFlight' \subseteq WhatsApp
    BY <1>4 DEF EntersSending, TypeOK, Outcome
  <2>2. send' \in [Job -> Send]
    <3>1. Stage(IF j \in WhatsApp THEN "primary" ELSE "media", "missing", "primary") \in Send
      BY DEF Stage, Send, State, Instance
    <3>. QED BY <1>4, <3>1 DEF EntersSending, TypeOK
  <2>. QED BY <1>1, <1>2, <2>1, <2>2 DEF TypeOK
<1>. QED BY <1>3, <1>4 DEF Enter, EntersSkipped, EntersSending

LEMMA SendTypesStep == TypeOK /\ SendInv /\ [Next]_vars => TypeOK'
<1>. SUFFICES ASSUME TypeOK, SendInv, [Next]_vars PROVE TypeOK'
  OBVIOUS
<1>1. ASSUME NEW j \in Job, Enter(j) PROVE TypeOK'
  BY <1>1, EnterTypes
<1>2. ASSUME NEW j \in Job, SendStep(j) PROVE TypeOK'
  <2>1. Moves(j)
    BY <1>2, StepMoves DEF SendInv, SendShape
  <2>2. accepted' \in [Job -> Nat] /\ unheard' \subseteq Job /\ remembered' \subseteq WhatsApp
        /\ attempts' \in [Job -> 0..MaxAttempts] /\ instance' \in [Instance -> State]
    BY <1>2, StepFrame DEF TypeOK
  <2>. QED BY <2>1, <2>2, MovesTypes DEF TypeOK
<1>3. ASSUME NEW j \in Job, WindowPasses(j) PROVE TypeOK'
  BY <1>3 DEF WindowPasses, TypeOK
<1>4. ASSUME NEW i \in Instance, InstanceChanges(i) PROVE TypeOK'
  BY <1>4 DEF InstanceChanges, TypeOK
<1>5. ASSUME NEW j \in Job, PruneFails(j) PROVE TypeOK'
  <2>1. attempts' \in [Job -> 0..MaxAttempts]
    BY <1>5, SendAssumption DEF PruneFails, Called, TypeOK
  <2>. QED BY <1>5, <2>1 DEF PruneFails, TypeOK, Outcome, Failure
<1>6. CASE UNCHANGED vars
  BY <1>6 DEF vars, TypeOK
<1>. QED BY <1>1, <1>2, <1>3, <1>4, <1>5, <1>6 DEF Next

-----------------------------------------------------------------------------
(* The steps of a send by what becomes of the message. *)

\* Goes on, before the files, or fails.
GoesOnOrFails(j) ==
  \/ /\ send'[j].at \in {"primary", "fallback", "media", "text"} /\ outcome'[j] = outcome[j]
     /\ j \in Telegram => send'[j].at \in {"media", "text"}
  \/ send'[j].at = "idle" /\ outcome'[j] \in Failure

\* No message, and everybody knows.
Quiet(j) ==
  /\ send[j].at # "files" /\ accepted'[j] = accepted[j] /\ (j \in unheard' <=> j \in unheard)
  /\ GoesOnOrFails(j)

Taking(j) ==
  /\ send[j].at # "files" /\ accepted'[j] = accepted[j] + 1 /\ (j \in unheard' <=> j \in unheard)
  /\ send'[j].at = "files" /\ outcome'[j] = outcome[j]

\* Perhaps a message: WhatsApp gives up.
Silence(j) ==
  /\ send[j].at # "files" /\ accepted'[j] \in {accepted[j], accepted[j] + 1} /\ j \in unheard'
  /\ GoesOnOrFails(j)
  /\ j \in WhatsApp => send'[j].at = "idle" /\ outcome'[j] = "ambiguous"

Writing(j) ==
  /\ send[j].at = "files" /\ accepted'[j] = accepted[j] /\ send'[j].at = "idle"
  /\ \/ outcome'[j] = "ok" /\ (j \in unheard' <=> j \in unheard)
     \/ outcome'[j] = "transient" /\ j \in Unwritable /\ j \in unheard'

LEMMA StepKinds ==
  ASSUME TypeOK, NEW j \in Job, SendStep(j),
         j \in Telegram => ~At(j, "primary") /\ ~At(j, "fallback")
  PROVE  Quiet(j) \/ Taking(j) \/ Silence(j) \/ Writing(j)
<1>. USE SendAssumption
<1>0. /\ send[j] \in Send /\ send \in [Job -> Send] /\ outcome \in [Job -> Outcome]
      /\ accepted \in [Job -> Nat] /\ accepted[j] \in Nat
  BY DEF TypeOK
<1>g. ASSUME NEW stage, GoesTo(j, stage)
      PROVE  send'[j].at = stage /\ outcome'[j] = outcome[j]
  BY <1>0, <1>g DEF GoesTo, Stage
<1>s. ASSUME NEW s \in Send, Goes(j, s)
      PROVE  send'[j].at = s.at /\ outcome'[j] = outcome[j]
  BY <1>0, <1>s DEF Goes
<1>r. ASSUME NEW o, Rejects(j, o)
      PROVE  send'[j].at = "idle" /\ outcome'[j] = o
  BY <1>0, <1>r DEF Rejects, Idle, Stage
<1>m. ASSUME MayBeTaken(j) PROVE accepted'[j] \in {accepted[j], accepted[j] + 1}
  BY <1>0, <1>m DEF MayBeTaken
<1>1. CASE CheckPrimary(j) \/ CheckFallback(j)
  <2>1. j \notin Telegram /\ send[j].at # "files"
    BY <1>1 DEF CheckPrimary, CheckFallback, At
  <2>2. accepted' = accepted /\ unheard' = unheard
    BY <1>1 DEF CheckPrimary, CheckFallback
  <2>3. \/ \E s \in Send : s.at = "media" /\ Goes(j, s)
        \/ \E o \in Failure : Rejects(j, o)
        \/ \E status : /\ send' = [send EXCEPT ![j] = Stage("fallback", status, "primary")]
                       /\ UNCHANGED <<inFlight, outcome>>
    <3>1. CASE CheckPrimary(j)
      <4>1. PICK status \in Failure \cup {"closed", "open"} :
              \/ send' = [send EXCEPT ![j] = Stage("fallback", status, "primary")]
                 /\ UNCHANGED <<inFlight, outcome>>
              \/ Choose(j, status, "missing")
        BY <3>1 DEF CheckPrimary
      <4>2. status \in State \cup Failure
        BY DEF State
      <4>. QED BY <4>1, <4>2, ChooseCases
    <3>2. CASE CheckFallback(j)
      <4>1. \E f : Choose(j, send[j].primary, f)
        BY <3>2 DEF CheckFallback
      <4>2. send[j].primary \in State \cup Failure
        BY <1>0 DEF Send
      <4>. QED BY <4>1, <4>2, ChooseCases
    <3>. QED BY <1>1, <3>1, <3>2
  <2>4. ASSUME NEW status,
               send' = [send EXCEPT ![j] = Stage("fallback", status, "primary")],
               UNCHANGED <<inFlight, outcome>>
        PROVE  send'[j].at = "fallback" /\ outcome'[j] = outcome[j]
    BY <1>0, <2>4 DEF Stage
  <2>5. GoesOnOrFails(j)
    BY <2>1, <2>3, <2>4, <1>s, <1>r DEF GoesOnOrFails
  <2>. QED BY <2>1, <2>2, <2>5 DEF Quiet
<1>2. CASE Taken(j)
  <2>1. send[j].at # "files" /\ GoesTo(j, "files") /\ unheard' = unheard
        /\ accepted' = [accepted EXCEPT ![j] = @ + 1]
    BY <1>2 DEF Taken
  <2>. QED BY <1>0, <1>g, <2>1 DEF Taking
<1>3. CASE Unanswered(j)
  <2>1. send[j].at # "files" /\ j \in unheard' /\ Rejects(j, "ambiguous") /\ j \notin Telegram
    BY <1>3 DEF Unanswered
  <2>2. accepted'[j] \in {accepted[j], accepted[j] + 1}
    BY <1>3, <1>m DEF Unanswered
  <2>. QED BY <2>1, <2>2, <1>r DEF Silence, GoesOnOrFails, Failure
<1>4. CASE MediaRefused(j)
  <2>1. send[j].at # "files" /\ GoesTo(j, "text") /\ unheard' = unheard /\ accepted' = accepted
    BY <1>4 DEF MediaRefused, At
  <2>. QED BY <2>1, <1>g DEF Quiet, GoesOnOrFails
<1>5. CASE Refused(j)
  <2>1. send[j].at # "files" /\ unheard' = unheard /\ accepted' = accepted
        /\ \E o \in Failure : Rejects(j, o)
    BY <1>5 DEF Refused
  <2>. QED BY <2>1, <1>r DEF Quiet, GoesOnOrFails
<1>6. CASE \/ UnansweredRetried(j) \/ AnswerGarbled(j)
          \/ Unavailable(j) \/ TelegramRefuses(j)
  <2>1. PICK failure \in Failure : GivesUp(j, failure) \/ RetryOr(j, failure)
    BY <1>6 DEF UnansweredRetried, AnswerGarbled, Unavailable, TelegramRefuses, Failure
  <2>2. send[j].at \in {"media", "text"} /\ j \notin WhatsApp
    BY <1>6 DEF UnansweredRetried, AnswerGarbled, Unavailable, TelegramRefuses
  <2>3. GoesOnOrFails(j)
    BY <2>1, <2>2, RetryCases, <1>s, <1>r DEF GoesOnOrFails
  <2>4. CASE UnansweredRetried(j) \/ AnswerGarbled(j)
    <3>1. accepted'[j] \in {accepted[j], accepted[j] + 1} /\ j \in unheard'
      BY <2>4, <1>m DEF UnansweredRetried, AnswerGarbled
    <3>. QED BY <2>2, <2>3, <3>1 DEF Silence
  <2>5. CASE Unavailable(j) \/ TelegramRefuses(j)
    BY <2>2, <2>3, <2>5 DEF Unavailable, TelegramRefuses, Quiet
  <2>. QED BY <1>6, <2>4, <2>5
<1>7. CASE Recorded(j)
  BY <1>7, <1>r DEF Recorded, Writing, At
<1>8. CASE RecordFails(j)
  BY <1>8, <1>r DEF RecordFails, Writing, At
<1>. QED BY <1>1, <1>2, <1>3, <1>4, <1>5, <1>6, <1>7, <1>8 DEF SendStep

-----------------------------------------------------------------------------
(* The invariant, job by job. *)

JobInv(j) == GateShape(j) /\ SendShape(j) /\ HeardShape(j) /\ KeptShape(j)

\* What a step leaves alone.
LEMMA OthersKeep ==
  ASSUME NEW i \in Job, JobInv(i),
         send'[i] = send[i], outcome'[i] = outcome[i], accepted'[i] = accepted[i],
         i \in inFlight' <=> i \in inFlight,
         i \in remembered' => i \in remembered,
         i \in unheard => i \in unheard'
  PROVE  JobInv(i)'
  BY DEF JobInv, GateShape, SendShape, HeardShape, KeptShape, At

LEMMA SendStepKeeps ==
  ASSUME TypeOK, NEW j \in Job, SendStep(j), Moves(j), NEW i \in Job, i # j, JobInv(i)
  PROVE  JobInv(i)'
<1>1. accepted'[i] = accepted[i] /\ (i \in unheard => i \in unheard')
      /\ (i \in remembered' => i \in remembered)
  BY StepFrame DEF TypeOK
<1>2. send'[i] = send[i] /\ outcome'[i] = outcome[i] /\ (i \in inFlight' <=> i \in inFlight)
  BY DEF Moves, Goes, Rejects, TypeOK
<1>. QED BY <1>1, <1>2, OthersKeep

\* The job that moves, action by action.
LEMMA JobStepKeeps ==
  ASSUME TypeOK, NEW j \in Job, SendStep(j), Moves(j), JobInv(j)
  PROVE  JobInv(j)'
<1>. USE SendAssumption DEF JobInv, GateShape, SendShape, HeardShape, KeptShape, At
<1>0. /\ send[j] \in Send /\ outcome[j] \in Outcome /\ accepted[j] \in Nat
      /\ ~At(j, "idle") /\ outcome[j] = "none"
      /\ j \in Telegram => j \notin WhatsApp /\ j \notin Kept
  BY StepFrame DEF TypeOK, Kept
\* Where the send is and what it reports.
<1>1. \/ \E s \in Send :
            /\ send'[j] = s /\ s.at # "idle" /\ (j \in Telegram => s.at \in {"media", "text", "files"})
            /\ outcome'[j] = "none" /\ (j \in inFlight' <=> j \in inFlight)
      \/ \E o \in Failure \cup {"ok"} :
            send'[j].at = "idle" /\ outcome'[j] = o /\ j \notin inFlight'
  BY <1>0 DEF Moves, Goes, Rejects, TypeOK, Idle, Stage
<1>2. GateShape(j)'
  <2>1. j \in inFlight' <=> j \in WhatsApp /\ ~At(j, "idle")'
    BY <1>0, <1>1
  <2>2. j \in remembered' => accepted'[j] > 0
    BY <1>0, StepFrame DEF TypeOK
  <2>. QED BY <2>1, <2>2
<1>3. Quiet(j) \/ Taking(j) \/ Silence(j) \/ Writing(j)
  BY StepKinds DEF JobInv, SendShape
<1>g. ASSUME GoesOnOrFails(j) PROVE SendShape(j)'
  BY <1>0, <1>g DEF GoesOnOrFails, Failure
<1>4. CASE Quiet(j)
  <2>1. SendShape(j)'
    BY <1>4, <1>g DEF Quiet
  <2>2. HeardShape(j)'
    BY <1>0, <1>4 DEF Quiet
  <2>3. KeptShape(j)'
    BY <1>0, <1>4 DEF Quiet, GoesOnOrFails, Failure
  <2>. QED BY <1>2, <2>1, <2>2, <2>3
<1>5. CASE Taking(j)
  BY <1>0, <1>2, <1>5 DEF Taking
<1>6. CASE Silence(j)
  <2>1. SendShape(j)' /\ HeardShape(j)'
    BY <1>6, <1>g DEF Silence
  <2>2. KeptShape(j)'
    <3>1. CASE j \in Kept
      <4>1. j \in WhatsApp
        BY <3>1 DEF Kept
      <4>. QED BY <1>0, <1>6, <3>1, <4>1 DEF Silence
    <3>2. CASE j \notin Kept
      BY <3>2 DEF Kept
    <3>. QED BY <3>1, <3>2
  <2>. QED BY <1>2, <2>1, <2>2
<1>7. CASE Writing(j)
  BY <1>0, <1>2, <1>7 DEF Writing, Kept
<1>. QED BY <1>3, <1>4, <1>5, <1>6, <1>7

\* A job is skipped only when an answer was lost: its message is in the chat.
LEMMA EnterKeeps ==
  ASSUME TypeOK, NEW j \in Job, Enter(j), NEW i \in Job, JobInv(i), JobInv(j)
  PROVE  JobInv(i)'
<1>0. /\ send \in [Job -> Send] /\ outcome \in [Job -> Outcome] /\ accepted[j] \in Nat
      /\ accepted' = accepted /\ unheard' = unheard /\ remembered' = remembered
      /\ At(j, "idle") /\ outcome[j] \in {"none", "transient"}
  BY DEF TypeOK, Enter, Called
<1>1. EntersSkipped(j) \/ EntersSending(j)
  BY DEF Enter, EntersSkipped, EntersSending
<1>2. CASE i # j
  <2>1. send'[i] = send[i] /\ outcome'[i] = outcome[i] /\ (i \in inFlight' <=> i \in inFlight)
    BY <1>0, <1>1, <1>2 DEF EntersSkipped, EntersSending
  <2>. QED BY <1>0, <2>1, OthersKeep
<1>3. CASE i = j /\ EntersSkipped(j)
  <2>1. j \in remembered /\ j \in unheard /\ j \notin Kept /\ accepted[j] > 0
    BY <1>0, <1>3 DEF EntersSkipped, JobInv, GateShape, HeardShape, KeptShape, At
  <2>2. send' = send /\ inFlight' = inFlight /\ outcome'[j] = "skipped"
    BY <1>0, <1>3 DEF EntersSkipped
  <2>. QED BY <1>0, <1>3, <2>1, <2>2 DEF JobInv, GateShape, SendShape, HeardShape, KeptShape, At
<1>4. CASE i = j /\ EntersSending(j)
  <2>1. /\ send'[j].at = (IF j \in WhatsApp THEN "primary" ELSE "media") /\ outcome'[j] = "none"
        /\ j \in inFlight' <=> j \in WhatsApp
    <3>1. j \notin inFlight
      BY <1>4 DEF EntersSending
    <3>. QED BY <1>0, <1>4, <3>1 DEF EntersSending, Stage
  <2>2. (j \notin unheard => accepted[j] = 0) /\ (j \in Kept => accepted[j] = 0)
    BY <1>0 DEF JobInv, HeardShape, KeptShape, At
  <2>3. j \in Telegram => j \notin WhatsApp
    BY SendAssumption
  <2>4. j \notin remembered
    BY <1>4 DEF EntersSending
  <2>5. GateShape(j)'
    BY <1>0, <2>1, <2>4 DEF GateShape, At
  <2>6. SendShape(j)'
    BY <1>0, <2>1, <2>3 DEF SendShape, At
  <2>7. HeardShape(j)' /\ KeptShape(j)'
    BY <1>0, <2>1, <2>2 DEF HeardShape, KeptShape, Kept, At
  <2>. QED BY <1>4, <2>5, <2>6, <2>7 DEF JobInv
<1>. QED BY <1>1, <1>2, <1>3, <1>4

LEMMA PruneFailsKeeps ==
  ASSUME TypeOK, NEW j \in Job, PruneFails(j), NEW i \in Job, JobInv(i), JobInv(j)
  PROVE  JobInv(i)'
<1>1. /\ outcome' = [outcome EXCEPT ![j] = "transient"] /\ outcome[j] \in {"none", "transient"}
      /\ UNCHANGED <<remembered, inFlight, send, accepted, unheard>> /\ At(j, "idle")
  BY DEF PruneFails, Called
<1>2. CASE i # j
  BY <1>1, <1>2, OthersKeep DEF TypeOK
<1>3. CASE i = j
  <2>1. outcome'[j] = "transient"
    BY <1>1 DEF TypeOK
  <2>. QED BY <1>1, <1>3, <2>1 DEF JobInv, GateShape, SendShape, HeardShape, KeptShape, At
<1>. QED BY <1>2, <1>3

LEMMA SendInit == Init => TypeOK /\ SendInv
<1>. SUFFICES ASSUME Init PROVE TypeOK /\ SendInv
  OBVIOUS
<1>1. TypeOK
  BY SendAssumption, IdleIsSend DEF Init, TypeOK, Outcome
<1>2. ASSUME NEW j \in Job PROVE JobInv(j)
  BY <1>2 DEF Init, JobInv, GateShape, SendShape, HeardShape, KeptShape, At, Idle, Stage
<1>. QED BY <1>1, <1>2 DEF SendInv, JobInv

LEMMA SendInvStep == TypeOK /\ SendInv /\ [Next]_vars => SendInv'
<1>. SUFFICES ASSUME TypeOK, SendInv, [Next]_vars, NEW i \in Job PROVE JobInv(i)'
  BY DEF SendInv, JobInv, Job
<1>0. \A j \in Job : JobInv(j)
  BY DEF SendInv, JobInv
<1>1. ASSUME NEW j \in Job, Enter(j) PROVE JobInv(i)'
  BY <1>0, <1>1, EnterKeeps
<1>2. ASSUME NEW j \in Job, SendStep(j) PROVE JobInv(i)'
  <2>1. Moves(j)
    BY <1>0, <1>2, StepMoves DEF JobInv, SendShape
  <2>2. CASE i = j
    BY <1>0, <1>2, <2>1, <2>2, JobStepKeeps
  <2>3. CASE i # j
    BY <1>0, <1>2, <2>1, <2>3, SendStepKeeps
  <2>. QED BY <2>2, <2>3
<1>3. ASSUME NEW j \in Job, WindowPasses(j) PROVE JobInv(i)'
  BY <1>0, <1>3, OthersKeep DEF WindowPasses
<1>4. ASSUME NEW k \in Instance, InstanceChanges(k) PROVE JobInv(i)'
  BY <1>0, <1>4, OthersKeep DEF InstanceChanges
<1>5. ASSUME NEW j \in Job, PruneFails(j) PROVE JobInv(i)'
  BY <1>0, <1>5, PruneFailsKeeps
<1>6. CASE UNCHANGED vars
  BY <1>0, <1>6, OthersKeep DEF vars
<1>. QED BY <1>1, <1>2, <1>3, <1>4, <1>5, <1>6 DEF Next

LEMMA SendInductive == Spec => [](TypeOK /\ SendInv)
<1>1. TypeOK /\ SendInv /\ [Next]_vars => (TypeOK /\ SendInv)'
  BY SendTypesStep, SendInvStep
<1>. QED BY SendInit, <1>1, PTL DEF Spec

-----------------------------------------------------------------------------
(* The theorems *)

\* The variables of a send keep their types: no more than Retries failed calls are
\* retried within one retryTelegramOperation, no more than MaxAttempts sends per job.
THEOREM SendTypes == Spec => []TypeOK
BY SendInductive, PTL

\* A send that returned, or was skipped by the gate, has a message in the chat.
THEOREM SentIsTaken == Spec => []SentWasTaken
<1>1. SendInv => SentWasTaken
  BY DEF SendInv, SendShape, SentWasTaken
<1>. QED BY SendInductive, <1>1, PTL

\* Only a lost answer or an unwritable file makes a sender repeat a message.
THEOREM OnlyUnheardRepeats == Spec => []RepeatsOnlyUnheard
<1>1. TypeOK /\ SendInv => RepeatsOnlyUnheard
  BY DEF TypeOK, SendInv, HeardShape, RepeatsOnlyUnheard
<1>. QED BY SendInductive, <1>1, PTL

-----------------------------------------------------------------------------
(* WhatsApp's sender implements SenderContract. *)

\* A step that changes the entries of one job of the contract, or of none.
LEMMA ContractStep ==
  ASSUME TypeOK, TypeOK', NEW j \in Job,
         \A i \in Job \ {j} : accepted'[i] = accepted[i] /\ outcome'[i] = outcome[i],
         \/ j \notin Kept
         \/ accepted'[j] = accepted[j] /\ outcome'[j] = outcome[j]
         \/ /\ outcome[j] = "none" /\ accepted[j] = 0 /\ accepted'[j] = 1
            /\ outcome'[j] \in {"none", "ambiguous"}
         \/ /\ outcome[j] = "none" /\ accepted'[j] = accepted[j]
            /\ outcome'[j] \in {"ambiguous", IF accepted[j] = 1 THEN "ok" ELSE "transient"}
         \/ outcome[j] = "transient" /\ accepted'[j] = accepted[j] /\ outcome'[j] = "none"
  PROVE  [Contract!Next]_(Contract!vars)
<1>. DEFINE acc == [i \in Kept |-> accepted[i]]
            out == [i \in Kept |-> outcome[i]]
<1>0. Kept \subseteq Job
  BY DEF Kept, Job
<1>1. CASE j \notin Kept \/ (accepted'[j] = accepted[j] /\ outcome'[j] = outcome[j])
  <2>1. \A i \in Kept : accepted'[i] = accepted[i] /\ outcome'[i] = outcome[i]
    BY <1>0, <1>1
  <2>2. acc' = acc /\ out' = out
    BY <2>1
  <2>. QED BY <2>2 DEF Contract!vars
<1>2. CASE j \in Kept
  <2>1. out' = [out EXCEPT ![j] = outcome'[j]] /\ acc' = [acc EXCEPT ![j] = accepted'[j]]
    BY <1>0
  <2>2. acc[j] = accepted[j] /\ out[j] = outcome[j]
    BY <1>2
  <2>3. accepted'[j] = accepted[j] => acc' = acc
    BY <2>1, <2>2
  <2>4. CASE /\ outcome[j] = "none" /\ accepted[j] = 0 /\ accepted'[j] = 1
             /\ outcome'[j] \in {"none", "ambiguous"}
    <3>1. Contract!Take(j)
      BY <2>1, <2>2, <2>4 DEF Contract!Take
    <3>. QED BY <1>2, <3>1 DEF Contract!Next
  <2>5. CASE /\ outcome[j] = "none" /\ accepted'[j] = accepted[j]
             /\ outcome'[j] \in {"ambiguous", IF accepted[j] = 1 THEN "ok" ELSE "transient"}
    <3>1. Contract!Report(j)
      BY <2>1, <2>2, <2>3, <2>5 DEF Contract!Report
    <3>. QED BY <1>2, <3>1 DEF Contract!Next
  <2>6. CASE outcome[j] = "transient" /\ accepted'[j] = accepted[j] /\ outcome'[j] = "none"
    <3>1. Contract!Retry(j)
      BY <2>1, <2>2, <2>3, <2>6 DEF Contract!Retry
    <3>. QED BY <1>2, <3>1 DEF Contract!Next
  <2>. QED BY <1>1, <1>2, <2>4, <2>5, <2>6
<1>. QED BY <1>1, <1>2

LEMMA NextKeepsContract ==
  TypeOK /\ TypeOK' /\ SendInv /\ [Next]_vars => [Contract!Next]_(Contract!vars)
<1>. SUFFICES ASSUME TypeOK, TypeOK', SendInv, [Next]_vars
              PROVE  [Contract!Next]_(Contract!vars)
  OBVIOUS
<1>0. outcome \in [Job -> Outcome] /\ accepted \in [Job -> Nat] /\ send \in [Job -> Send]
  BY DEF TypeOK
<1>1. ASSUME NEW j \in Job, Enter(j) PROVE [Contract!Next]_(Contract!vars)
  <2>0. accepted' = accepted /\ At(j, "idle") /\ outcome[j] \in {"none", "transient"}
        /\ \A i \in Job \ {j} : outcome'[i] = outcome[i]
    BY <1>0, <1>1 DEF Enter, Called
  <2>1. CASE EntersSending(j)
    <3>1. outcome'[j] = "none"
      BY <1>0, <2>1 DEF EntersSending
    <3>. QED BY <2>0, <3>1, ContractStep
  <2>2. CASE EntersSkipped(j)
    <3>1. j \notin Kept
      BY <1>0, <2>0, <2>2 DEF EntersSkipped, SendInv, GateShape, KeptShape, At
    <3>. QED BY <2>0, <3>1, ContractStep
  <2>. QED BY <1>1, <2>1, <2>2 DEF Enter, EntersSending, EntersSkipped
<1>2. ASSUME NEW j \in Job, SendStep(j) PROVE [Contract!Next]_(Contract!vars)
  <2>0. GateShape(j) /\ SendShape(j) /\ KeptShape(j)
    BY DEF SendInv
  <2>1. Moves(j) /\ (Quiet(j) \/ Taking(j) \/ Silence(j) \/ Writing(j))
    BY <1>2, <2>0, StepMoves, StepKinds DEF SendShape
  <2>2. \A i \in Job \ {j} : accepted'[i] = accepted[i] /\ outcome'[i] = outcome[i]
    <3>1. \A i \in Job \ {j} : accepted'[i] = accepted[i]
      BY <1>0, <1>2, StepFrame
    <3>2. \A i \in Job \ {j} : outcome'[i] = outcome[i]
      BY <1>0, <2>1 DEF Moves, Goes, Rejects
    <3>. QED BY <3>1, <3>2
  <2>3. CASE j \notin Kept
    BY <2>2, <2>3, ContractStep
  <2>4. CASE j \in Kept
    <3>0. j \in WhatsApp /\ j \notin Unwritable
      BY <2>4 DEF Kept
    <3>1. outcome[j] = "none" /\ accepted[j] \in {0, 1} /\ (accepted[j] = 1 <=> At(j, "files"))
      BY <1>0, <1>2, <2>0, <2>4, StepFrame DEF SendShape, KeptShape, At
    <3>2. CASE Quiet(j)
      BY <2>2, <3>1, <3>2, ContractStep DEF Quiet, GoesOnOrFails, Failure, At
    <3>3. CASE Taking(j)
      BY <2>2, <3>1, <3>3, ContractStep DEF Taking, At
    <3>4. CASE Silence(j)
      BY <2>2, <3>0, <3>1, <3>4, ContractStep DEF Silence, At
    <3>5. CASE Writing(j)
      BY <2>2, <3>0, <3>1, <3>5, ContractStep DEF Writing, At
    <3>. QED BY <2>1, <3>2, <3>3, <3>4, <3>5
  <2>. QED BY <2>3, <2>4
<1>3. ASSUME UNCHANGED <<accepted, outcome>> PROVE [Contract!Next]_(Contract!vars)
  BY <1>3 DEF Contract!vars
<1>4. ASSUME NEW j \in Job, WindowPasses(j) PROVE [Contract!Next]_(Contract!vars)
  BY <1>3, <1>4 DEF WindowPasses
<1>5. ASSUME NEW i \in Instance, InstanceChanges(i) PROVE [Contract!Next]_(Contract!vars)
  BY <1>3, <1>5 DEF InstanceChanges
<1>6. CASE UNCHANGED vars
  BY <1>3, <1>6 DEF vars
<1>7. ASSUME NEW j \in Job, PruneFails(j) PROVE [Contract!Next]_(Contract!vars)
  <2>1. j \notin Kept /\ \A i \in Job \ {j} : accepted'[i] = accepted[i] /\ outcome'[i] = outcome[i]
    BY <1>0, <1>7 DEF PruneFails, Kept
  <2>. QED BY <2>1, ContractStep
<1>. QED BY <1>1, <1>2, <1>4, <1>5, <1>6, <1>7 DEF Next

\* send() of WhatsAppNotifier, with writable files, is the sender DeliveryContract's
\* theorems assume: what it reports as a plain failure was never accepted.
THEOREM SenderIsHonest == Spec => KeepsSenderContract
<1>1. Init => Contract!Init
  <2>. SUFFICES ASSUME Init PROVE Contract!Init
    OBVIOUS
  <2>1. \A j \in Kept : accepted[j] = 0 /\ outcome[j] = "none"
    BY DEF Init, Kept, Job
  <2>. QED BY <2>1 DEF Contract!Init
<1>. QED BY <1>1, SendInductive, NextKeepsContract, PTL DEF Spec, KeepsSenderContract, Contract!Spec
=============================================================================
