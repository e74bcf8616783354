---------------------------- MODULE AlertPipeline ----------------------------
(***************************************************************************)
(* From a source's report to rows of the outbox (alert-pipeline.js, with   *)
(* alert-enqueue.js, alert-sinks.js, runtime-stores.js, poll-runtime.js    *)
(* and the realtime callback of poller-app.js).  Polled batches are worked *)
(* off one after the other; every realtime alert is ingested by a callback *)
(* of its own that nobody waits for.  All share the seen and delivered     *)
(* keys, which are read before the awaits of an ingest and written after   *)
(* them.  Only alerts of wanted locations and supported types are modelled.*)
(* The outbox is OutboxRows: what OutboxDelivery implements.               *)
(***************************************************************************)
EXTENDS Integers, Sequences

CONSTANTS
  Alert,        \* reports, each with the id its source gave it
  Source,
  Polled,       \* the sources that are polled; the others push
  Key,          \* semantic keys: type, text and matched locations
  Chat,
  SourceOf, KeyOf,
  EventAt,      \* dedupeAt, sourceEventAt or alertDate
  Poll,         \* the slot of the processing tail
  Callback,     \* bound: ingests of realtime alerts under way at a time
  Window,       \* DELIVERY_DUPLICATE_WINDOW_MS
  MaxFlight,    \* an ingest takes at most this long
  RareKinds,    \* the faults, mutings and unmutings that may happen
  MaxRare,      \* bound: number of them
  MaxTime       \* bound: the clock stops here

ASSUME PipelineAssumption ==
  /\ Polled \subseteq Source
  /\ SourceOf \in [Alert -> Source] /\ KeyOf \in [Alert -> Key]
  /\ EventAt \in [Alert -> Nat]
  /\ Poll \notin Callback
  /\ Window \in Nat \ {0} /\ MaxFlight \in Nat /\ MaxRare \in Nat /\ MaxTime \in Nat
  /\ RareKinds \subseteq {"crash", "torn", "disk", "refused", "lost", "mute"}

VARIABLES
  now,
  up,             \* the poller runs, and has seeded
  enabled,        \* runtimeState.deliveryEnabled
  tail,           \* processingTail: batches fetched and not worked off
  flight,         \* flight[s]: the ingest in slot s
  seen, seenFile,           \* seenSourceAlerts, and its file
  delivered, deliveredFile, \* delivered, and its file
  rows,           \* the outbox: the row of each key and chat
  copies,         \* history: rows inserted on account of an alert
  excused,        \* history: alerts skipped while muted, or seeded
  rare            \* counts the rare events

store == <<seen, seenFile, delivered, deliveredFile>>
outbox == <<rows, copies>>
vars == <<now, up, enabled, tail, flight, store, outbox, excused, rare>>

Slot == Callback \cup {Poll}

\* A remembered delivery; seeded: it stands for an alert that was never enqueued.
Entry == [event : Nat, seeded : BOOLEAN]
Never == [event |-> -1, seeded |-> FALSE]

\* The rows of keys and chats; at: when a done one was sent or given up.  An uncertain
\* row is an open one that no worker settles.
Table == INSTANCE OutboxRows WITH Key <- Key \X Chat

\* Where an ingest waits: "recording" in recordDuplicateAlert, "enqueueing" in
\* enqueueAlertNotifications, the others in rememberFlow, after which an "enqueued"
\* alert is remembered as delivered and seen, a "skipped" one as seen, a "passed" one
\* not at all.
Stage == {"recording", "enqueueing", "enqueued", "skipped", "passed"}
Ingest == [alert : Alert, stage : Stage, since : Nat]
NoIngest == [stage |-> "none"]

Flying(s) == flight[s] # NoIngest

Fetched == [source : Polled, alerts : SUBSET Alert]

TypeOK ==
  /\ now \in 0..MaxTime
  /\ up \in BOOLEAN /\ enabled \in BOOLEAN
  /\ tail \in Seq(Fetched)
  /\ flight \in [Slot -> Ingest \cup {NoIngest}]
  /\ seen \in SUBSET Alert /\ seenFile \in SUBSET Alert
  /\ delivered \in [Key -> Entry \cup {Never}] /\ deliveredFile \in [Key -> Entry \cup {Never}]
  /\ rows \in [Key \X Chat -> Table!Row]
  /\ copies \in [Alert \X Chat -> Nat]
  /\ excused \in SUBSET Alert
  /\ rare \in 0..MaxRare

Init ==
  /\ now = 0
  /\ up = FALSE /\ enabled = TRUE
  /\ tail = <<>> /\ flight = [s \in Slot |-> NoIngest]
  /\ seen = {} /\ seenFile = {}
  /\ delivered = [k \in Key |-> Never] /\ deliveredFile = delivered
  /\ rows = [p \in Key \X Chat |-> Table!NoRow]
  /\ copies = [p \in Alert \X Chat |-> 0]
  /\ excused = {}
  /\ rare = 0

Rare(kind) == kind \in RareKinds /\ rare < MaxRare /\ rare' = rare + 1

-----------------------------------------------------------------------------
(* The stores (runtime-stores.js).  A write replaces the whole file. *)

\* Mutant: the window is measured on the wall clock.
SuppressedByClock(a) ==
  LET e == delivered[KeyOf[a]]
  IN  e # Never /\ now - e.event < Window

\* hasDeliveredKey: the window is measured on event times, and an alert older than
\* the remembered one is suppressed too.
Suppressed(a) ==
  LET e == delivered[KeyOf[a]]
  IN  e # Never /\ EventAt[a] - e.event < Window

DeliveredBy(d, a, seed) == [d EXCEPT ![KeyOf[a]] = [event |-> EventAt[a], seeded |-> seed]]

\* rememberDeliveredKey and rememberSeenSourceAlertKey.
RememberDelivered(a) ==
  /\ delivered' = DeliveredBy(delivered, a, FALSE)
  /\ deliveredFile' = delivered'
RememberSeen(a) ==
  /\ seen' = seen \cup {a}
  /\ seenFile' = seen'

-----------------------------------------------------------------------------
(* ingestAlert *)

\* buildOutboxJobs: a job of its own for every chat.
JobsOf(a) == {KeyOf[a]} \X Chat

\* The chats a row is inserted for: their expired terminal row is deleted first.
Accepting(a) == {c \in Chat : Table!Free(<<KeyOf[a], c>>)}

Counted(a, C) ==
  copies' = [p \in Alert \X Chat |->
    IF p[1] = a /\ p[2] \in C THEN copies[p] + 1 ELSE copies[p]]

\* Up to the first await; a muted alert is skipped in the same step.
FirstStage(a) ==
  CASE a \in seen -> "passed"
    [] a \notin seen /\ Suppressed(a) -> "recording"
    [] a \notin seen /\ ~Suppressed(a) -> IF enabled THEN "enqueueing" ELSE "skipped"

\* Mutant: the alert is remembered as seen before it is enqueued.
EnterRemembersSeen(s, a) ==
  /\ ~Flying(s)
  /\ flight' = [flight EXCEPT ![s] = [alert |-> a, stage |-> FirstStage(a), since |-> now]]
  /\ excused' = IF FirstStage(a) = "skipped" THEN excused \cup {a} ELSE excused
  /\ RememberSeen(a)
  /\ UNCHANGED <<now, up, enabled, delivered, deliveredFile, outbox, rare>>

Enter(s, a) ==
  /\ ~Flying(s)
  /\ flight' = [flight EXCEPT ![s] = [alert |-> a, stage |-> FirstStage(a), since |-> now]]
  /\ excused' = IF FirstStage(a) = "skipped" THEN excused \cup {a} ELSE excused
  /\ UNCHANGED <<now, up, enabled, store, outbox, rare>>

\* poll: the batch of the running poll, oldest alert first.
IngestPolled ==
  /\ up /\ tail # <<>>
  /\ \E a \in Head(tail).alerts :
       /\ \A b \in Head(tail).alerts : EventAt[a] <= EventAt[b]
       /\ Enter(Poll, a)
       /\ tail' = [tail EXCEPT ![1].alerts = @ \ {a}]

\* handleRealtimeAlert: a source may report an alert again and again.
IngestPushed(s, a) ==
  /\ up /\ s \in Callback
  /\ SourceOf[a] \notin Polled /\ EventAt[a] <= now
  /\ Enter(s, a)
  /\ UNCHANGED tail

At(s, stage) == Flying(s) /\ flight[s].stage = stage

GoesTo(s, stage) == flight' = [flight EXCEPT ![s].stage = stage]
Leaves(s) == flight' = [flight EXCEPT ![s] = NoIngest]

\* An exception ends a poll with the rest of its batch; a callback's is only logged.
Abort(s) ==
  /\ Leaves(s)
  /\ tail' = IF s = Poll THEN Tail(tail) ELSE tail

\* The outbox answers that rows were inserted for the chats C, or commits and its answer
\* is an error.
Answered(s, C) ==
  /\ At(s, "enqueueing")
  /\ GoesTo(s, IF C # {} THEN "enqueued" ELSE "skipped")
  /\ Counted(flight[s].alert, C)
  /\ UNCHANGED <<now, up, enabled, tail, store, excused, rare>>
Unanswered(s, C) ==
  /\ At(s, "enqueueing") /\ Rare("lost")
  /\ Abort(s)
  /\ Counted(flight[s].alert, C)
  /\ UNCHANGED <<now, up, enabled, store, excused>>

Enqueue(s) ==
  Answered(s, Accepting(flight[s].alert)) /\ Table!Submit(JobsOf(flight[s].alert))
EnqueueLost(s) ==
  Unanswered(s, Accepting(flight[s].alert)) /\ Table!Submit(JobsOf(flight[s].alert))

\* Mutant: the outbox's error is swallowed.
RefusedCountsAsEnqueued(s) ==
  /\ At(s, "enqueueing") /\ Rare("refused")
  /\ GoesTo(s, "enqueued")
  /\ UNCHANGED <<now, up, enabled, tail, store, outbox, excused>>

\* The transaction is rolled back.
EnqueueRefused(s) ==
  /\ At(s, "enqueueing") /\ Rare("refused")
  /\ Abort(s)
  /\ UNCHANGED <<now, up, enabled, store, outbox, excused>>

RecordDuplicate(s) ==
  /\ At(s, "recording") /\ GoesTo(s, "passed")
  /\ UNCHANGED <<now, up, enabled, tail, store, outbox, excused, rare>>
RecordFails(s) ==
  /\ At(s, "recording") /\ Rare("refused")
  /\ Abort(s)
  /\ UNCHANGED <<now, up, enabled, store, outbox, excused>>

\* rememberFlow is answered (the ledger's errors are caught); the rest is synchronous.
Pass(s) ==
  /\ At(s, "passed") /\ Leaves(s)
  /\ UNCHANGED <<now, up, enabled, tail, store, outbox, excused, rare>>

Remember(s) ==
  /\ At(s, "enqueued") \/ At(s, "skipped")
  /\ Leaves(s)
  /\ IF At(s, "enqueued") THEN RememberDelivered(flight[s].alert)
                          ELSE UNCHANGED <<delivered, deliveredFile>>
  /\ RememberSeen(flight[s].alert)
  /\ UNCHANGED <<now, up, enabled, tail, outbox, excused, rare>>

\* A write throws: memory is ahead of that file.
RememberFails(s) ==
  /\ At(s, "enqueued") \/ At(s, "skipped")
  /\ Rare("disk") /\ Abort(s)
  /\ LET a == flight[s].alert
     IN  \/ /\ At(s, "enqueued")
            /\ delivered' = DeliveredBy(delivered, a, FALSE)
            /\ UNCHANGED <<deliveredFile, seen>>
         \/ /\ At(s, "enqueued") /\ RememberDelivered(a)
            /\ seen' = seen \cup {a}
         \/ /\ At(s, "skipped") /\ seen' = seen \cup {a}
            /\ UNCHANGED <<delivered, deliveredFile>>
  /\ UNCHANGED <<now, up, enabled, seenFile, outbox, excused>>

-----------------------------------------------------------------------------
(* Polling, muting, restarts *)

\* Of what a source has to report it lists some, for as long as it likes.
Listings(sources) == SUBSET {a \in Alert : SourceOf[a] \in sources /\ EventAt[a] <= now}

\* One poll per source at a time; one that yields nothing is not modelled.
Fetch(src, L) ==
  /\ up /\ L \in Listings({src}) \ {{}}
  /\ \A i \in DOMAIN tail : tail[i].source # src
  /\ tail' = Append(tail, [source |-> src, alerts |-> L])
  /\ UNCHANGED <<now, up, enabled, flight, store, outbox, excused, rare>>

\* Mutant: the scheduler still believes in the run that has ended.
SourceStaysBusy ==
  /\ up /\ ~Flying(Poll)
  /\ tail # <<>> /\ Head(tail).alerts = {}
  /\ tail' = Append(Tail(tail), Head(tail))
  /\ UNCHANGED <<now, up, enabled, flight, store, outbox, excused, rare>>

PollEnds ==
  /\ up /\ ~Flying(Poll)
  /\ tail # <<>> /\ Head(tail).alerts = {}
  /\ tail' = Tail(tail)
  /\ UNCHANGED <<now, up, enabled, flight, store, outbox, excused, rare>>

\* setDeliveryEnabled
SetDelivery ==
  /\ up /\ Rare("mute") /\ enabled' = ~enabled
  /\ UNCHANGED <<now, up, tail, flight, store, outbox, excused>>

\* What the files hold is what the next start has in memory.
Loads(files, keys) ==
  /\ seenFile' = files /\ seen' = files
  /\ deliveredFile' = keys /\ delivered' = keys

Dies(files, keys) ==
  /\ up /\ up' = FALSE
  /\ tail' = <<>> /\ flight' = [s \in Slot |-> NoIngest]
  /\ Loads(files, keys)
  /\ UNCHANGED <<now, enabled, outbox, excused>>

Crash == Rare("crash") /\ Dies(seenFile, deliveredFile)

\* The process is killed between truncating a file and writing it: what is left does
\* not parse, and loads as nothing.
CrashInWrite(s) ==
  /\ Rare("torn")
  /\ \/ At(s, "enqueued") /\ Dies(seenFile, [k \in Key |-> Never])
     \/ At(s, "enqueued") /\ Dies({}, DeliveredBy(delivered, flight[s].alert, FALSE))
     \/ At(s, "skipped") /\ Dies({}, deliveredFile)

\* seedExistingAlerts: what the sources that answer list by now is not enqueued.  The
\* alerts are seeded oldest first, so the youngest of a key is the one remembered.
Youngest(L, k) == {a \in L : KeyOf[a] = k /\ \A b \in L : KeyOf[b] = k => EventAt[b] <= EventAt[a]}

SeedDelivered(L) ==
  [k \in Key |-> IF Youngest(L, k) = {} THEN delivered[k]
                 ELSE [event |-> EventAt[CHOOSE a \in Youngest(L, k) : TRUE], seeded |-> TRUE]]

Seeds(inSeen, inSeenFile, inDelivered, inDeliveredFile) ==
  /\ ~up /\ up' = TRUE
  /\ seen' = seen \cup inSeen /\ seenFile' = seenFile \cup inSeenFile
  /\ delivered' = SeedDelivered(inDelivered) /\ deliveredFile' = SeedDelivered(inDeliveredFile)
  /\ excused' = excused \cup inSeen
  /\ UNCHANGED <<now, enabled, tail, flight, outbox>>

Start(L) ==
  /\ L \in Listings(Polled)
  /\ Seeds(L, L, L, L)
  /\ UNCHANGED rare

\* A write for alert a throws, of either file: the poller starts with what is seeded by then.
StartUnwritable(L) ==
  /\ L \in Listings(Polled) /\ Rare("disk")
  /\ \E a \in L :
       LET older == {b \in L : EventAt[b] < EventAt[a]}
           upTo == older \cup {a}
       IN  \/ Seeds(upTo, older, older, older)
           \/ Seeds(upTo, upTo, upTo, older)

-----------------------------------------------------------------------------
(* The workers of the outbox, and time *)

\* markSent and markDeadLettered; markFailed and markUncertain by a worker that is late.
Work ==
  /\ Table!Work
  /\ UNCHANGED <<now, up, enabled, tail, flight, store, copies, excused, rare>>

Passes ==
  /\ now < MaxTime /\ now' = now + 1
  /\ \A s \in Slot : Flying(s) => now - flight[s].since < MaxFlight
  /\ UNCHANGED <<up, enabled, tail, flight, store, copies, excused, rare>>

Tick == Passes /\ rows' = rows

\* Steps that leave the outbox alone.
IngestStep(s) ==
  \/ \E a \in Alert : IngestPushed(s, a)
  \/ EnqueueRefused(s) \/ RecordDuplicate(s) \/ RecordFails(s)
  \/ Pass(s) \/ Remember(s) \/ RememberFails(s) \/ CrashInWrite(s)

SlotStep(s) == IngestStep(s) \/ Enqueue(s) \/ EnqueueLost(s)

PollerStep ==
  \/ IngestPolled \/ PollEnds \/ SetDelivery \/ Crash
  \/ \E src \in Polled, L \in SUBSET Alert : Fetch(src, L)
  \/ \E L \in SUBSET Alert : Start(L) \/ StartUnwritable(L)

WorldStep == Work \/ Tick

Next == PollerStep \/ (\E s \in Slot : SlotStep(s)) \/ WorldStep

Spec == Init /\ [][Next]_vars

\* The interval of every source fires again and again and its fetch answers some day,
\* listing what the source still shows; awaits return; a poller that died is started.
Fairness ==
  /\ WF_vars(IngestPolled) /\ WF_vars(PollEnds)
  /\ \A a \in Alert : SourceOf[a] \in Polled =>
       SF_vars(\E L \in SUBSET Alert : a \in L /\ Fetch(SourceOf[a], L))
  /\ WF_vars(Enqueue(Poll) \/ RecordDuplicate(Poll) \/ Pass(Poll) \/ Remember(Poll))
  /\ WF_vars(\E L \in SUBSET Alert : Start(L))

FairSpec == Spec /\ Fairness

-----------------------------------------------------------------------------
(* Properties *)

SameEvent(a, b) ==
  KeyOf[a] = KeyOf[b] /\ EventAt[a] - EventAt[b] < Window /\ EventAt[b] - EventAt[a] < Window

\* No event is enqueued twice for a chat, whatever sources report it how often and in
\* what order.  Needs ingests shorter than half the window, and no lost memory.
OncePerEvent ==
  \A c \in Chat, a, b \in Alert :
    SameEvent(a, b) => copies[<<a, c>>] + (IF a = b THEN 0 ELSE copies[<<b, c>>]) <= 1

\* The chat's last message with this text is still to be settled, or was settled at time t,
\* later, or less than a window before.
Told(k, c, t) ==
  LET row == rows[<<k, c>>]
  IN  \/ row.status = "open"
      \/ row.status = "done" /\ row.at + Window > t

\* An alert that will never be looked at again reached every chat, through its own
\* message or one of its kind, unless it was muted or seeded.
NeverDropped ==
  \A a \in (seen \cup seenFile) \ excused, c \in Chat : Told(KeyOf[a], c, EventAt[a])

\* A remembered delivery, which suppresses the alerts of two minutes, is one.
RememberedIsTold ==
  \A k \in Key, c \in Chat : \A e \in {delivered[k], deliveredFile[k]} :
    e # Never /\ ~e.seeded => Told(k, c, e.event)

\* Inductive, for NeverDropped and RememberedIsTold: everything at hand has happened, and
\* an ingest about to be remembered is told.
NothingFromTheFuture ==
  /\ \A i \in DOMAIN tail : \A a \in tail[i].alerts : EventAt[a] <= now
  /\ \A s \in Slot : Flying(s) => EventAt[flight[s].alert] <= now
  /\ \A a \in seen \cup seenFile : EventAt[a] <= now
  /\ \A k \in Key : delivered[k].event <= now /\ deliveredFile[k].event <= now

IngestIsTold ==
  \A s \in Slot, c \in Chat :
    (At(s, "enqueued") \/ (At(s, "skipped") /\ flight[s].alert \notin excused)) =>
      Told(KeyOf[flight[s].alert], c, EventAt[flight[s].alert])

ToldInv == NothingFromTheFuture /\ IngestIsTold /\ NeverDropped /\ RememberedIsTold

\* Inductive, for OncePerEvent, with one chat and no memory lost.
Notified(a, c) == copies[<<a, c>>] > 0
Later(a, b) == KeyOf[a] = KeyOf[b] /\ EventAt[a] >= EventAt[b] + Window

\* The row of the key is open, or was settled at time t or later.
TakenSince(k, c, t) ==
  LET row == rows[<<k, c>>]
  IN  row.status = "open" \/ (row.status = "done" /\ row.at >= t)

FlightIsShort ==
  \A s \in Slot : Flying(s) => flight[s].since <= now /\ now <= flight[s].since + MaxFlight

\* An alert that was enqueued is remembered, or about to be.
NotifiedIsRemembered ==
  \A a \in Alert, c \in Chat : Notified(a, c) =>
    \/ delivered[KeyOf[a]] # Never /\ delivered[KeyOf[a]].event >= EventAt[a]
    \/ \E s \in Slot : At(s, "enqueued") /\ flight[s].alert = a

\* An ingest that was let through comes later than all that was enqueued, but for what is
\* so fresh that the outbox will refuse it.
LetThroughIsLater ==
  \A s \in Slot, a \in Alert, c \in Chat :
    At(s, "enqueueing") /\ Notified(a, c) /\ KeyOf[a] = KeyOf[flight[s].alert] =>
      \/ Later(flight[s].alert, a)
      \/ TakenSince(KeyOf[a], c, flight[s].since - MaxFlight)

EnqueuedIsLatest ==
  \A s \in Slot, c \in Chat : At(s, "enqueued") =>
    /\ TakenSince(KeyOf[flight[s].alert], c, flight[s].since)
    /\ \A a \in Alert : Notified(a, c) /\ KeyOf[a] = KeyOf[flight[s].alert] =>
         a = flight[s].alert \/ Later(flight[s].alert, a)

NothingBeforeStart ==
  ~up => (\A s \in Slot : ~Flying(s)) /\ \A a \in Alert, c \in Chat : ~Notified(a, c)

OnceInv ==
  /\ OncePerEvent /\ FlightIsShort /\ NotifiedIsRemembered
  /\ LetThroughIsLater /\ EnqueuedIsLatest /\ NothingBeforeStart

\* Assumed of the reports, for OncePerEvent with several chats: what is let through is
\* through its ingest less than a window after its event.
Prompt ==
  \A s \in Slot : At(s, "enqueueing") =>
    flight[s].since + MaxFlight < EventAt[flight[s].alert] + Window

\* Inductive, for OncePerEvent with several chats: two ingests at a time may each get rows
\* of some chats, and be remembered in either order.
Covers(d, a) == SameEvent(a, d) \/ Later(d, a)

NotifiedHasHappened == \A a \in Alert, c \in Chat : Notified(a, c) => EventAt[a] <= now

EnqueuedIsPrompt ==
  \A s \in Slot : At(s, "enqueued") =>
    flight[s].since + MaxFlight < EventAt[flight[s].alert] + Window

\* An alert that was enqueued is remembered, itself or by one that suppresses its event, or
\* about to be by an ingest that began no later than the chat's row.
NotifiedIsCovered ==
  \A a \in Alert, c \in Chat : Notified(a, c) =>
    \/ \E d \in Alert : Covers(d, a) /\ delivered[KeyOf[a]].event = EventAt[d]
    \/ \E s \in Slot : /\ At(s, "enqueued") /\ flight[s].alert = a
                       /\ TakenSince(KeyOf[a], c, flight[s].since)

ChatsInv ==
  /\ OncePerEvent /\ FlightIsShort /\ NothingBeforeStart /\ LetThroughIsLater
  /\ NotifiedHasHappened /\ EnqueuedIsPrompt /\ NotifiedIsCovered

\* An alert a polled source keeps listing is looked at and decided.
PolledIsDecided ==
  \A a \in Alert : SourceOf[a] \in Polled /\ EventAt[a] <= now ~> a \in seen \/ Suppressed(a)
=============================================================================
