# Formal model of the red-alert notifier

The repository polls and listens to several alert sources, filters alerts by
location, deduplicates them, puts one job per chat into a PostgreSQL outbox and
lets notifier workers deliver the jobs over WhatsApp and Telegram.  This
directory holds TLA+ models of the parts whose correctness depends on the order
in which processes, timers, callbacks, the database and the providers act, the
TLC configurations that check them, and TLAPS proofs of what holds for every
size.

## Inventory

| component (src/poller) | state | operations | talks to | what makes it hard | what makes it correct |
|---|---|---|---|---|---|
| outbox: `notification-outbox.js`, `outbox-schema.js` | the rows: status, key, `available_at`, `processing_started_at`, `dispatch_started_at`, `attempt_count`, `processing_by` | `enqueueMany`, `reserve`, `recoverStaleDispatches`, `markDispatchStarted`, `markSent`, `markFailed`, `markUncertain`, `markDeadLettered`, `insertDuplicateMany` | pollers insert, workers reserve and mark | several workers, leases that expire, statements whose answer is lost, expiry of old rows | one row per key; exclusive leases; settled rows stay settled |
| delivery: `notifier-worker-jobs.js` | a worker's copies of its reserved rows | `processReservedJob(s)` | outbox, senders | each await may fail before or after its effect; the process may die between any two | at most one delivery; truthful verdicts; every job settles |
| worker loop: `notifier-worker-loop.js`, `notifier-worker.js` | `tickInFlight`, `immediateTickRequested`, timer | `tick`, `requestImmediateTick`, `start`, `stop` | outbox, listener, heartbeat to the poller | wake-ups during a tick, a tick that throws | no wake-up lost; one tick at a time |
| wake-up listener: `notifier-worker-wakeup.js` | current listener, reconnect timer, flags | `start`, `stop`, `connect`, `handleDisconnect` | LISTEN connection, loop | errors before LISTEN is answered, timer against connect | always a listener or a pending reconnect |
| dedupe gate: `delivery-dedupe.js` | entries (key to time), in-flight set, file | `shouldSuppress`, `markInFlight`, `clearInFlight`, `remember` | WhatsApp sender | same window as the outbox on another clock, file against memory | never swallows what the outbox let through |
| senders: `notifier-service.js` | connection state, active Evolution instance, files | `send`, `ensureReady`, `refreshStatus` | providers | time-outs after acceptance, fallbacks | one message per send; an error only if nothing was accepted |
| alert pipeline: `alert-pipeline.js`, `runtime-stores.js` | seen keys, delivered keys, mute switch | `ingestAlert(s)`, `seedAlert(s)` | sinks, ledger | check-then-act over awaits from several sources, restarts | each wanted alert is enqueued; a duplicate is recorded as one |
| enqueue and sinks: `alert-enqueue*.js`, `alert-sinks.js` | none | `dispatch`, `recordDuplicate` | outbox | stagger, partial failure of several sinks | a job per target |
| polling: `poll-runtime.js`, `poller-app.js` | processing tail, queued flag, failure state | `poll`, scheduler tick | pipeline, sources, incidents | ticks during a run, tasks that throw | one task at a time; no tick lost; no poll held up by another's failure |
| realtime sources: `source-runtime.js`, `oref-mqtt.js`, `sources.js` | credentials, socket or MQTT client, timers, flags | start-up, `start`, `connect`, `rotateBroker`, the events of client and socket | pipeline, health | late events of old clients, rotation, refused requests, restarts | what is reported up is up; no second connection; always a way back |
| incidents: `pagerduty.js`, `pagerduty-runtime.js` | status per incident, file, times of disconnection | `syncPagerDutyHealth`, `setIncident` | PagerDuty API, database, WhatsApp, monitor | lost answers, concurrent syncs, restart, one check that ends all | what is remembered is PagerDuty's truth; incidents follow their conditions |
| management bot: `telegram-bot.js`, `telegram.js`, `http-server.js` | update offset, file; the delivery switch, file | `pollTelegram`, handlers, `fetchPoller`, `setDeliveryEnabled` | Telegram, poller's HTTP API | crash between storing and handling, files cut off, lost answers | a command at most once; what users are told is so |
| ledger, captures, timeline | tables and files | upsert, prune | HTTP API | concurrent upserts | diagnostics only |
| keys and normalisation: `lib.js` | none | pure functions | everyone | text | not about interleaving |

The hazards found while reading are listed with their lines in `PROJECT.json`.


## What is modelled

Eight parts are modelled.  The first five lie on the path an alert takes; the
others watch it and steer it:

```
 RealtimeSources, PollRuntime                             NotifierSend -> chats
        |                                                      |  SenderContract: what is promised
        v                                                      |
  AlertPipeline --> (outbox rows) --> OutboxDelivery ----------+
        ^          OutboxRows: one         |    NotificationOutbox: the statements
        |          row per key             |    DeliveryContract: what is promised of a job
   delivery switch       |                 |    OutboxContract, OutboxHistory: the refinements
        |            OutboxListener        |
        |                |                 |
        |            NotifierWorkerLoop ---+
   TelegramBot
                     PagerDutyIncidents: looks at all of them
```

Three modules compose others, and each composition is shown to keep what was said of its
parts.  `AlertDelivery` puts `AlertPipeline` on the table and the workers of
`OutboxDelivery`.  `NotifierWakeup` is a worker's process: `OutboxListener`,
`NotifierWorkerLoop` and the notifications between the table and them.  `PollRuntime`
extends `RealtimeSources` by the polls.

### `AlertPipeline`: from a report to rows

| model | code |
|---|---|
| `seen`, `delivered` and `seenFile`, `deliveredFile` | the two Maps of `createRuntimeStores` and their JSON files; a write replaces the whole file |
| `tail` | `processingTail` of `poll-runtime.js`: the batches fetched and not yet worked off; one poll per source at a time (the source's scheduler) |
| `flight[s]` | an `ingestAlert` between two awaits, in the slot of the running poll (`Poll`) or of a realtime callback (`handleRealtimeAlert` starts one and waits for none) |
| `rows` | the outbox as an ingest sees it, by `OutboxRows`: per key and chat absent, open, or done since `at`, and the how-manieth row it is |
| `Enter` | `ingestAlert` up to its first await: seen, duplicate, muted or to be enqueued |
| `Enqueue`, `EnqueueRefused`, `EnqueueLost` | the transaction of `enqueueMany` succeeds, is rolled back, or commits and is answered by an error |
| `RecordDuplicate`, `RecordFails`, `Pass`, `Remember`, `RememberFails` | what follows: the duplicate's row, the ledger, the two keys with their files; after an exception a poll gives up the rest of its batch (`Abort`) and a callback logs |
| `Fetch`, `IngestPolled`, `PollEnds`, `IngestPushed` | a poll's fetch, its alerts oldest first, its end; a pushed alert |
| `Crash`, `CrashInWrite`, `Start`, `StartUnwritable` | the process dies, also between truncating a file and writing it; start-up seeds what the polled sources list |
| `Work`, `Tick` | a worker's `markSent` or `markDeadLettered`, and, by a worker that is late, a `markFailed` or `markUncertain` that opens a settled row again; time |

Time is counted in ticks; event times and the wall clock are on the same axis,
since the code compares them with the same window.  A semantic key stands for
type, text and matched locations.

### `OutboxRows`: the outbox as the pipeline sees it

`OutboxRows` has no ids, leases, workers or retries: a key is absent, open or done, takes
no other row until a window after it was done, and what is submitted is not lost.
`AlertPipeline` instantiates it for its `rows`, so what is proved of the pipeline by
itself supposes no more of the outbox than this.  `OutboxHistory` shows that the outbox gives
it: it adds to `OutboxDelivery` a clock, the time at which each key was settled last, and the
number of rows it was given, reads the row of a key off the table (`RowOf`) and states
that every behaviour is one of `OutboxRows` (`KeepsRows`), also when workers overrun
their leases, crash or report what they like.  `nth` counts the rows of a key because a row
that is opened again by a late mark, and a new one inserted too early, would look the same
without it.

### `NotificationOutbox` and `OutboxDelivery`: from a row to a chat

`NotificationOutbox` has no variables: it gives each SQL statement as an
operator from table to table (`DeleteExpired`, `InsertJobs`, `Reserve`,
`MarkDispatchStarted`, `MarkSent`, `MarkFailed`, `MarkUncertain`,
`MarkDeadLettered`, `RecoverStale`).  Times are relative to now and are moved by
`AgedRow`: `due` counts down to `-DuplicateWindow` and `lease` up to
`LeaseTimeout`, beyond which the statements tell nothing apart; so no bound on
the clock is needed and liveness can be checked.

`OutboxDelivery` adds the workers.  `phase[w]` is where worker `w`'s tick is,
`task[w][j]` where it is with its copy of row `j`: every await of
`processReservedJob` (mark the dispatch, the provider's acceptance, its answer,
the persisting, the settlement) is a step, and lanes start jobs as
`processReservedJobs` does (`LaneFree`).  `gate[w][k]` is the `DeliveryDedupeGate`
of a worker for a WhatsApp key.  `accepted[j]` is history: how many messages the
provider accepted for the row.  A crash loses tasks and gate memory, not the
table; a database fault loses a statement or only its answer.

`DeliveryContract` says what is promised of a job without table, lease, clock or
worker: submitted under a key no other remembered job has, delivered at most
once and only while open, closed with a true verdict or with none, and forgotten
only when the outcome is known.  `OutboxContract` reads a job's fate off its row
and states that `OutboxDelivery` implements the contract (`KeepsContract`).

### `AlertDelivery`: from a report to the chats

The pipeline and the outbox with its workers, on one clock and one table: the `rows` of
`AlertPipeline` are those `OutboxHistory` reads off `table`.

| model | code |
|---|---|
| `Enqueue(s)` | the await of `dispatch`: `enqueueMany` deletes what has expired and inserts a row per chat (`EnqueueMany`), and the ingest goes on with the chats whose `INSERT` returned a row (`Inserted`), or hears an error |
| `PollerStep` | everything else in the poller; the table is left alone |
| `Deliver` | a step of a worker |
| `TimePasses` | the wall clock of the poller and the ages of the rows move together |
| `jobOf[j]` | history: the alert and the chat row `j` was inserted for |

`KeepsPipeline` and `KeepsRows` say that nothing the two parts were checked for is lost by
putting them together.  `OneMessagePerEvent` is what neither can say alone: of all the rows
ever inserted for reports of one event and for one chat, the provider accepted one message
at most.

### `NotifierSend`: one send

`OutboxDelivery` lets a send accept a message or not and report one of four things.
`NotifierSend` has the steps inside: `send[j].at` is the request a send is waiting for.

| model | code |
|---|---|
| `Called`, `Enter`, `PruneFails` | `processReservedJob` calls `send`; `DeliveryDedupeGate.shouldSuppress` and `markInFlight` |
| `CheckPrimary`, `CheckFallback`, `Choose` | `resolveActiveEvolutionInstance`: each instance's status, creating the primary one when Evolution lacks it; `chooseEvolutionInstance` |
| `Taken`, `Unanswered`, `MediaRefused`, `Refused` | the answers to `sendMedia` and `sendText`; `shouldFallbackToText` |
| `Taken`, `UnansweredRetried`, `AnswerGarbled`, `Unavailable`, `TelegramRefuses`, `RetryOr`, `GivesUp` | the answers to `sendPhoto` and `sendMessage`; `retryTelegramOperation`; the text after any failure of the photo |
| `Recorded`, `RecordFails` | the gate's, the recent-sent and the state file, and the return |

An error is `"ambiguous"` or `"transient"`, as `isAmbiguousSendError` reads its text.
`accepted` and `unheard` are history.  The providers are external: of them the model
assumes that a message refused with an error was not taken.

`SenderContract` is what the worker takes a sender's answers for, and the assumption
of `OutboxDelivery_proofs` (honest reports) in words of its own: a message that was taken
is reported as sent or as ambiguous, never as a plain failure, and it is one.
`KeepsSenderContract` says that WhatsApp's `send` implements it as long as its files can
be written.  Telegram's does not: it repeats what was not answered.

### `NotifierWorkerLoop`

The timer, `tickInFlight` (as the await the tick is at), `immediateTickRequested`
and the due periods.  Wake-ups may come at any await; `init` may get one before
`start`.  `OutboxDelivery` has a coarser tick, because what it asks does not
depend on when ticks happen.

### `OutboxListener`

The supervisor's flags and timer, and each pool client it ever took: with LISTEN
under way, answered, held, closing or released, alive or not, with or without
handlers.  The `pg` client is external; of it the model assumes that queries of a
broken connection are rejected before `error` and `end` are emitted, and that the
continuation of an answered query runs before any timer.

### `NotifierWakeup`: a worker's process

The loop and the listener, with what joins them.  `init()` starts the supervisor and
awaits its first `connect()` (`awaited`) before it starts the loop, so a listener may hear of
rows while there is no tick to request.  `mail[c]` are the notifications on their way to a
client; a session that listens gets those committed while it lasts, one whose LISTEN is not
yet answered may, and what is on its way ends with the session.  `told` is history: the
clients that heard of rows since the last reserve, or will.

`AnnouncedIsLookedUp` is about the whole of it: rows announced to a connection that lasts
are looked up without waiting for the poll interval, whatever tick, start-up, reconnect or
clean-up is going on.  What a break costs is what the code gives up: neither a connect nor a
reconnect requests a tick, so rows announced in between wait for the interval, as do rows
whose delay or lease ends, which nobody announces, and the rest of a full batch.

### `RealtimeSources` and `PollRuntime`: listening, polling and what is shown of it

| model | code |
|---|---|
| `boot` | the await `startRealtimeSources` is at: the cities, `resolveCredentials` with validation and registration, `subscribeTopics`, the websocket; polls are scheduled when it is `"done"` |
| `client[l]`, `subscribed[l]`, `connected[l]`, `timer[l]`, `old[l]` | of each `OrefMqttStream`: the client in `this.client`, the answer to its SUBSCRIBE, `this.connected`, the rotation timer, and whether the client it replaces is not yet ended |
| `Connects`, `Subscribed`, `SubscribeRefused`, `Errors`, `Closes`, `Retries`, `Rotates` | the handlers of `connect`, `error`, `close`, `reconnect` and `rotateBroker`; mqtt.js is external: after an error it closes, after a close it tries again |
| `sockets`, `tzOpen`, `tzTimer`, `garbled` | of `TzevaadomStream`: the websockets there are, `this.connected`, the reconnect timer, `lastParseError` |
| `health` | `monitor.sourceFailures`, as `applySourceHealthUpdate` writes it when a stream notifies and when a poll collects; `since` has three values because only a threshold is compared with it |
| `phase[p]`, `queued[p]` | `activeRun` of a source's scheduler, as the await its poll is at, and the queued flag |
| `tail` | `processingTail`: the polls whose task is chained, in order |
| `Ticks`, `Fetches`, `TaskBegins`, `TaskEnds`, `TaskThrows`, `FailedEnds` | a tick, the fetch, the task's first step (what the push sources look like), its end, an exception and the sync in `poll`'s catch block |
| `Restarts`, `PollerRestarts` | the process dies; the credentials' file stays |

`AlertPipeline` has what the polls and the pushes do to alerts, and keeps its own
coarser tail; here the question is whether they happen at all.

### `PagerDutyIncidents`: what is paged

| model | code |
|---|---|
| `bad[k]` | what a check of incident `k`'s condition would find (the failure counters and their thresholds included, but for the two times the sync measures itself) |
| `since[k]` | `dbDisconnectedSince`, `whatsappDisconnectedSince` |
| `state`, `file` | `PagerDutyIncidentManager.state` and its file |
| `sync[s]` | a call of `syncPagerDutyHealth`: its await, whether `poll` made it after an error, and the tasks of `Promise.allSettled` that have not sent their request yet |
| `request[s][k]`, `stray` | the POSTs under way, and those whose caller has given up or died |
| `Begin`, `CheckDb`, `OutboxStats`, `AskWhatsApp`, `EndCall` | the call up to its tasks, and the tasks |
| `Takes`, `StrayTaken` | PagerDuty, external, carries a POST out |
| `Answered`, `Refused`, `GivesUp`, `PersistFails`, `Crash` | the ways a request ends, each with what the task that waited for it does next |
| `doubt[k]` | history: an answer about `k` was lost, with its caller or without, or opposite POSTs were on their way at once |
| `stale[k]` | history: a start has read a file older than what the manager had learnt of `k`, because its last write failed, and no request about `k` has been answered since |

### `TelegramBot`: commands

| model | code |
|---|---|
| `update`, `confirmed` | Telegram's queue: what users sent or tapped, and below which it forgets |
| `offset`, `file`, `batch`, `current`, `at` | `telegramUpdateOffset`, its file, the updates fetched, the one being handled and the await it is at |
| `GetUpdates`, `PollFails`, `Takes`, `SavingFails`, `BatchEnds` | `pollTelegram`, one update after the other; the offset is written before the update is handled |
| `ClearsMarkup`, `Asks`, `Hears`, `Replies` | the handlers: clear a tapped message's buttons, `fetchPoller`, the reply, with a prompt where a command asks for confirmation |
| `enabled`, `saved`, `Executes`, `SwitchFails`, `PollerRestarts` | the poller's side: `setDeliveryEnabled` in memory and in its file, and the other POSTs |
| `acted`, `handled`, `told`, `torn` | history: how often an update was executed, what users were last told, files cut off |


## What the runs show

| run | instance | question and answer |
|---|---|---|
| `outbox_timely` | 2 keys (one WhatsApp, one Telegram), 2 workers with 2 lanes, 3 rows, batches of 2, lease 2, window 3, 2 attempts, one crash or database fault, senders that report honestly, no job outlasting its lease | Leases are exclusive, the provider accepts a job at most once, a row's verdict is true, the gate swallows nothing, and pollers, workers, crashes and time together keep `DeliveryContract`. |
| `outbox_settles` | 2 keys, the second of a disabled transport, 2 workers, 2 rows, jobs that outlast their lease, senders that report anything, one fault, fair ticks | Even then a row marked sent has a message in the chat; every job is settled, and a key becomes free unless its row is uncertain. |
| `outbox_stolen_lease` | 2 workers, overruns, no crash | *Violated*: a job queued longer than its lease is sent by two workers. |
| `delivery` | 2 reports of one event, one polled and one pushed; 1 chat, 1 worker, 2 rows; window 3, lease 2, ingests up to 1 tick, 2 attempts, a refused transaction and a crash or database fault, time up to 4 | The chat gets one message about the event, and table, workers and poller together are `OutboxRows` and `AlertPipeline`. |
| `send_reports` | 2 WhatsApp jobs, one with files that may be unwritable, 1 Telegram job, a fallback instance, 1 retry, 2 sends per job, 3 instance states that change at any time | What a send reports is true, a message is repeated only after a lost answer or an unwritable file, and WhatsApp's sender keeps `SenderContract`. |
| `wakeup` | a pool of 2 clients, a batch of 1, up to 2 waiting rows, 1 notification on its way per client, one fault, breaks at any point, also in the chunk that answers LISTEN; fair | The loop never stalls and keeps its wake-ups, the supervisor has a live listener or will try again, hears a wake-up once and returns every client but one that broke as LISTEN was answered, announced rows are looked up at once, and rows are taken. |
| `pipeline_once` | an earlier wave and 3 reports of one event, one from each of two polled sources and one pushed; 2 chats whose rows settle at different times; window 3, ingests up to 1 tick, a refused transaction, time up to 6 | The event is enqueued once for each chat, however the reports repeat and overlap, also when two ingests get a chat each. |
| `pipeline_decided` | 2 waves with one text, 1 chat, window 1, one fault of any of six kinds, fair polling | What is remembered as seen or delivered was told to the chat, muted or seeded, and an alert a polled source keeps listing is decided in the end. |
| `sources` | 2 listeners, the websocket, 2 polled sources, 2 faults of any kind, 1 poll that throws, fair | What the monitor shows as up is up or about to be reported down, no listener has a third client and the websocket no second, both push sources hear again, and a tick that found a poll running is answered. |
| `tzevaadom_unpaged` | the websocket alone, 2 faults | *Violated*: after a frame that did not parse, a long disconnect is not paged. |
| `incidents` | four scenes: two calls that overlap, the tasks of the outbox, the task of WhatsApp, each with the database check, 3 changes of condition and 1 fault; and one call with 2 faults; fair | What the poller remembers of an incident is PagerDuty's truth, and incidents open and close with their conditions, with three exceptions: an answer was lost, opposite requests crossed, or a start believes a file that a failed write left old. |
| `bot` | 3 commands or taps, 2 messages with buttons, 2 faults, fair | An update is executed once unless the offset's file was cut off, a fault loses no more than the update in hand, what users were told of the delivery switch is so and survives a restart, and every update is taken up. |

### The bounds, and why they are enough

*Outbox.*  Exclusivity and delivery are matters of one row, two workers and one
lease; a second key lets a batch hold two rows, so that one waits in the lane of
the other, and a third row lets a key's row expire and be replaced while a worker
still holds a copy of it.  Two attempts give a first try, a retry and a last one
that is given up.  In `outbox_settles` the retry delay equals the window, as the code's
longest does.  One fault is a crash, a lost statement or a lost answer at any
point; the proofs need no such bound.  Ages saturate where no statement can tell
them apart, so the clock is not bounded at all.

*Path.*  Two reports let one be ingested while the other is, or after its row was delivered,
failed or expired; two rows are the event's and the one it must not get.  A polled and a pushed
source give a poll and a callback at once.  Time exceeds the window by one tick, so that
memory, file and table may forget at different moments.  The poller does not die here and no
commit goes unanswered, because `OneMessagePerEvent` does not hold then (the list below says
why), and jobs keep their lease; `PathKeepsRows` and `PathKeepsPipeline` are proved with all of
these.

*Sends.*  Sends of different jobs meet in the gate and in the instances only, so two
WhatsApp jobs and one of Telegram suffice; two sends per job are a first one and its
retry.  One retry inside a Telegram send distinguishes a first call from a last one.

*Wake-ups.*  With two clients a connection breaks and its successor is made while the first
is still being cleaned up; a third would only repeat that.  A batch of 1 and two waiting rows
distinguish an empty batch, one that takes all, and one with a remainder.  One notification on
its way stands for many, for a tick is requested or it is not.  One fault lets a tick throw or
kills the process at any await; the theorems have any number of each.

*Pipeline.*  One key suffices, because keys never meet; three sources are needed
for two polls in the tail and a callback beside them.  Two chats, and a wave before the event, let
one chat's row expire before the other's, so that overlapping ingests share them.
`MaxTime` exceeds the window by enough for a memory to expire in memory, in the file and in
the outbox at different moments.  `MaxFlight` bounds how long an ingest takes.  Nothing in the code bounds it, but
its awaits are a few statements and file writes against a window of two minutes;
`OncePerEvent` needs it below half the window.  `MaxRare` 1 admits one fault per behaviour, at any point.

*Sources.*  Listeners share the reported health and the credentials, nothing else, so
two show what one can hide of the other; two polled sources put one poll's task behind
the other's.  Two faults let a connection break and the next attempt fail, or a restart
meet refused credentials.  Rotations, polls and ticks are not bounded.

*Incidents.*  Incidents meet in the database check, which decides what runs after it,
and in the task of the outbox, where one waits for another; `Scenes` takes each of these
constellations by itself.  Two calls are the least that overlap; the theorem has any number of
both.  With three changes a condition comes, goes and comes back while a
request is out.  One fault is any of five kinds at any point.  The fourth scene has two, because it takes
a write that fails and a restart before the next write for a start to read an old file.

*Bot.*  Three updates let a prompt be asked for, tapped, and tapped again; two faults let
the file be cut off and the bot die again before the offset is back.

The name of every bound is in the module that uses it: `MaxJobs`, `MaxFaults`,
`MaxWaiting`, `MaxAttempts`, `MaxClients`, `MaxFlight`, `MaxRare`, `MaxTime`,
`MaxMail`, `MaxThrows`, `Scenes`, `MaxChanges`, `MaxUpdates`, `MaxPrompts`.

### Fairness

Assumed, and why the code justifies it:

* `outbox_settles`: each worker's tick goes on (its timer is set again in a
  `finally`), each await returns (provider calls are aborted after 10 or 15 s, a broken
  database connection rejects its queries), a crashed worker is started again
  (the containers restart), time passes.  Crashes and faults are not fair; they are
  bounded.
* `wakeup`: a container that died starts again, `init()` goes on, a connect and a LISTEN
  are answered or rejected, timers fire, the tick's awaits return.  New rows, notifications,
  breaks and `stop` are not fair: rows are taken though no notification ever arrives.
* `pipeline_decided`: the tail is worked off, a poll's awaits return, a dead poller
  starts again, and a source is fetched and lists the alert again and again (strong
  fairness of `Fetch`, for the alert may be absent from a listing in between).  An
  alert a source lists once and drops may be lost to a crash; the property does not
  say otherwise.
* `sources`: start-up goes on (each request has a timeout), mqtt.js and the websocket
  answer an attempt or report its end, reconnect timers fire, fetches have a timeout and
  the tasks' statements and writes come to an end.  Ticks, rotations and faults are not fair; faults are
  bounded.
* `incidents`: polls go on, which is what `TicksAnswered` and the interval provide; a
  call goes on, PagerDuty answers or the request is given up (`AbortSignal.timeout`),
  and the time a threshold measures passes.
* `bot`: its loop goes on (the `finally` of `pollTelegram` schedules the next poll), the
  poller answers or the request fails, and a container that died is started again.

## What is proved

For every value of the constants (any number of keys, workers, rows, batches,
clients, alerts, sources, chats, listeners, incidents, concurrent calls and faults, any
window and lease), by TLAPS:

| module | theorems | assumption |
|---|---|---|
| `OutboxDelivery_proofs` | `TypeCorrect`, `OneRow`, `SentIsDelivered` | none |
| `OutboxDelivery_proofs` | `LeasesAreExclusive`, `RetriesAreBounded` | `~MayOverrun` |
| `OutboxDelivery_proofs` | `DeliveredAtMostOnce`, `VerdictsAreTruthful`, `GateIsRedundant`, `SettledForGood` | `~MayOverrun` and honest reports |
| `OutboxDelivery_proofs` | `OutboxKeepsContract` | the same |
| `OutboxDelivery_proofs` | `OutboxKeepsRows` | none |
| `NotifierSend_proofs` | `SendTypes`, `SentIsTaken`, `OnlyUnheardRepeats`, `SenderIsHonest` | none |
| `NotifierWakeup_proofs` | `ProcessTypesHold`, `ProcessKeepsParts`, `AnnouncedRowsAreLookedUp`, `LoopNeverStalls`, `LoopKeepsWakeups`, `ListenerNeverStranded`, `ListenerHearsOnce`, `ListenerLeaksNoClient` | none |
| `NotifierWakeup_proofs` | `ListenerLosesNothing` | `~BreakOnAnswer` |
| `AlertPipeline_proofs` | `PipelineTypes`, `PipelineNeverDrops`, `PipelineRemembersWhatWasTold` | none |
| `AlertPipeline_proofs` | `PipelineEnqueuesOnce` | `Careful`: `2 * MaxFlight < Window`, no fault but refused transactions and muting; one chat |
| `AlertPipeline_proofs` | `PipelineEnqueuesOncePerChat` | `Careful`, any number of chats, `WavesApart`, and behaviours with `[]Prompt` |
| `AlertDelivery_proofs` | `PathKeepsOutbox`, `PathKeepsRows`, `PathKeepsPipeline` | none |
| `AlertDelivery_proofs` | `EventIsDeliveredOnce` | `CarefulPath`: `2 * MaxFlight < DuplicateWindow`, no fault of the poller but refused transactions and muting, `~MayOverrun`, honest reports; one chat |
| `AlertDelivery_proofs` | `EventIsDeliveredOncePerChat` | `CarefulPath`, any number of chats, `WavesApart`, and behaviours with `[]Prompt` |
| `PagerDutyIncidents_proofs` | `IncidentsTypes`, `KnownStaysTrue` | none |
| `TelegramBot_proofs` | `BotTypesHold`, `FaultsCostOneEach`, `ActsOncePerUpdate`, `ToldStaysSo` | none |
| `PollRuntime_proofs` | `SourcesTypes`, `ReportsAreTrue`, `ConnectionsStaySingle`, `PollsTypes`, `PolledSourcesAreUp`, `PollerKeepsSources` | none |

Beside these, `IncidentAssumption` and its like in the other modules fix what the
constants are; they are listed where the constants are declared.

The code enforces neither assumption of the outbox theorems.  `outbox_stolen_lease`
shows what happens without the first.  For the second, `SenderIsHonest` proves it of
WhatsApp with writable files; it does not hold of Telegram, which repeats a photo that
was taken and not answered within the same send (`notifier-service.js:683`), and calls a
message failed whose answer does not parse.
`SentIsDelivered` needs neither.

*Outbox.*  The invariants rest on each other.  `KeyInv` (an id without a row is
clean, an undispatched row carries no mark, a key has one row) needs only the
types.  `LeaseInv` adds that a worker's copy agrees with the row it holds under an
unexpired lease; only after `markSent`'s answer was lost may the row have moved on.
That is why `markDispatchStarted`, which asks for no owner, does no harm while
leases are kept.  `AcceptInv` says where an accepted message can be: in a
`processing` row with a dispatch mark, a `sent` or an `uncertain` one, and in a task
that has passed the provider; reserve hands out only rows without a mark, so no row
is sent twice.  `GateBacked` adds that what the gate remembers is no younger than a
row the outbox still has, hence the gate never sees a job the outbox would refuse.
The contract follows step by step: each action changes the fate of at most the jobs
it settles, and forgets only expired ones.
`ReachInv` is what is left when workers overrun their leases and senders report what
they like: a worker's copy has its row's key, a worker is at one copy per key at a time,
and what its gate remembers, and what a task is about to persist as sent, reached the chat.

*Rows.*  `OutboxKeepsRows` needs no lease and no honest sender, for it rests on the
statements alone.  `AgeInv` adds to `KeyInv` that the `due` of a row marked sent or
dead-lettered tells when its key was settled, up to the window where it saturates; hence
`DELETE_EXPIRED_TERMINAL_JOB_SQL` deletes a row just when its key is free.  The proof reads
every statement as leaving a key's row (`Quiet`), settling it or opening it again, and an
insert as giving a row to the keys it has deleted or never had.  A mark may not only settle an open
row: no `where` asks for the state, so a late worker may settle a settled row anew, which
lengthens its window, or turn it back into an open one.

*Sends.*  `SendInv` says, job by job, where a message can be when all answers were
heard (behind a send that is at its files, or that returned), and for a WhatsApp job
with writable files also behind an ambiguous report.  The proof reads each step of a
send as one of four kinds (`Quiet`, `Taking`, `Silence`, `Writing`); each kind is a step
of `SenderContract` or none.

*Path.*  What holds of the pipeline rests on `OutboxRows`, so the proof shows that the table
answers an ingest as `OutboxRows` would.  `PathInv` collects what both sides need: the types,
`AgeInv`, and the pipeline's own inductive invariant.  `DELETE_EXPIRED_TERMINAL_JOB_SQL`
deletes a row just when its key is free, so the rows an `INSERT` returns are those that
`OutboxRows` accepts (`InsertedAreAccepting`); every other step of the path is one of the
poller, one of the table or a tick of both.  For `EventIsDeliveredOnce` the link is
`JobsAreCounted`: a row inserted for an alert is one of the copies the pipeline counts.  By
`OncePerEvent`, carried over, two rows of one event cannot both be counted, and by
`DeliveredAtMostOnce` one row is sent once.

*Loop and listener.*  `LoopInv` ties the timer to the tick; `WakeupPlace` says where
a pending wake-up can be at each await.  `ListenerInv` says that a supervisor has one
reason to go on at a time (a live listener, a connect, a timer, or a cleanup that
will set one); `HeldIsCurrent` adds that none of these goes with a held client other
than the current one, but for those a break between answer and continuation lost.
`OneHeard` says the same of the clients that have handlers: the current one, or the one
a connect is about to make current.  `ProcessKeepsParts` reads each step of the process as one
of the loop's and one of the listener's, or a stutter of either, and carries these over.
`ToldInv` is the process's own: a client that heard of rows still has the notification
on its way, or the loop has a reserve before it or a tick requested; what is told dies with
the process, and nobody is told before a client exists.

*Incidents.*  `KnownInv` has two parts.  `CallShape` says what a call can have under way
at each await, so that it never has two requests about one incident.  `Agreed` says of
an incident without doubt that all its requests want the same, that the last one
taken made PagerDuty what the answer will make the manager remember, and that what the
manager remembers is true unless `stale`.  The proof reads
every step as sending requests, ending one of them, or restarting, and shows once for each
kind that agreement survives.

*Sources and polls.*  `SourcesInv` ties each flag to the connection it speaks of
(`ListenerShape`), each connection to the step of start-up that makes it (`BootShape`),
and what is reported to the flags (`HealthShape`).  A rotation timer belongs to a client
that hears; that is why a rotation during a reconnect, which would leave two clients
reconnecting, cannot come.  `PollerKeepsSources` reads each step of `PollRuntime` as one
of `RealtimeSources` or a stutter, which carries the sources' theorems over.

*Pipeline.*  `ToldInv` says of every place an alert passes (tail, ingest, memory,
file) what it may claim: nothing is from the future, an ingest past its enqueue is
told, and so is what memory and file hold.  It needs the wall clock: a row is settled at
a time not before the event, so that time plus the window covers the event's own
window.  `OnceInv` is about two ingests of one event at once: one that was let through
is later than all that were enqueued, or the outbox still holds a row so fresh that
it will refuse it.  That is where `2 * MaxFlight < Window` enters.

With several chats `OnceInv` does not hold: their rows expire at different times, so two
ingests at once may each get some, and the one that is remembered last (`rememberDeliveredKey`)
may have the older event.  That lets a report of the younger event through again if the older
was reported a window late, or if a third event lies between the two.  `WavesApart` and `Prompt` exclude that: reports of
one text within a window of each other are one event, and what is let through happened less
than a window ago.  Both are needed: with two chats and a window of 3, TLC finds an event
enqueued twice without either.  `ChatsInv` is the invariant: what was enqueued is covered, by
a memory that suppresses its whole wave, or by an ingest that is about to be remembered and
began no later than the chat's row; whichever ingest is remembered covers all that
has happened, because it is prompt.

*Bot.*  The proof follows the offset.  `Shape` says what the bot can have in hand at each
await; `Offsets` orders what Telegram has had confirmed, what is in memory and what is in
the file, and puts the batch between them.  On these rest `Losses`
(a fault costs one update at most, and a crash has paid for the one in hand) and `ActsLeft`,
which counts with what an update was executed the one time it may still be: as long as it is
in hand and not executed, or will be fetched again.  `InDoubt` says that nobody has been told of a
switch that is asked for, and that memory and file agree once it is executed.

Every invariant and every action property that a passing run checks is a theorem.  Only
model-checked is what is under fairness (`EveryJobSettles`, `OnlyUncertainBlocks`,
`RowsTaken`, `PolledIsDecided`, `HearsAgain`, `TicksAnswered`, `IncidentsFollow`,
`EveryUpdateTaken`), because liveness and ENABLED are out of the prover's reach.  The two
violated runs show what fails, and prove nothing.

## Where the code and its documentation part

The two violated runs, with their lines, are in `PROJECT.json`.  In the same models,
or in reading for them, the following came up; there is no run for them because no
document says otherwise or because another run shows the same cause.

* A file that cannot be written after the delivery (`notifier-service.js:636` for
  Telegram, `:350` for WhatsApp) turns it into a plain failure, which is retried and sent
  again; one call later the same situation is handled and tested
  (`notifier-worker.test.js:21`).
* The WhatsApp gate hides the unwritable file for two minutes only (exclusive), and
  `computeRetryDelay` grows to exactly two minutes: a job whose files stay unwritable
  finds the gate open at a later retry.
* A status query that times out makes "sender unavailable" read as ambiguous: the job,
  of which nothing was sent, is left `uncertain` and not retried.
* A Telegram send may take over 90 s (six calls of 15 s and the delays), a WhatsApp one
  more than a minute, and the default lease is 30 s: `MayOverrun` is no exotic case.
* A row left `uncertain` is never deleted and blocks its key for good
  (`OnlyUncertainBlocks` states the exception).
* A poller that dies between the outbox's transaction and the writing of the keys has
  the row and not the keys; if a source still reports the event after the row has
  expired, it is enqueued again.
* Start-up remembers what the sources list, so alerts that came up while the poller
  was down are not sent; `README.md:40` says "exactly once".
* What the pipeline itself takes for a duplicate is not remembered as seen: each poll that lists one inserts another
  `is_duplicate` row.
* `loop.stop()` during a tick does not stop the loop, whose `finally` sets the timer
  again; `supervisor.stop()` during a connect leaves a listener behind.
* A connection that breaks in the chunk that answers LISTEN costs the pool a client
  for good (`ListenerLosesNothing` is why nothing else does).
* The heartbeat's POST has no timeout of its own.
* `rememberDeliveredKey` (`runtime-stores.js:475`) lets the event remembered last win, also
  when a younger one is remembered: with several chats, of two overlapping ingests the
  older may be written last, and a third report of the younger event is enqueued again,
  if the older one was reported a window late or waves run into each other.  `PipelineEnqueuesOncePerChat` assumes promptness
  for that reason, and `PipelineEnqueuesOnce` one chat.
* A realtime callback's errors are only logged: nobody ingests that alert again
  unless a source reports it again.
* A second wave with the same text that comes a full window after the first, while the
  outbox still holds the first one's row, passes the pipeline, gets no row from the outbox
  and is remembered as if it had: event times and settlement times are compared with the same window, but not with
  each other.
* A 2xx from Telegram whose body does not parse (`notifier-service.js:830`) is a plain error:
  the photo is followed by the text, the text by a retry of the job, though the message is there
  (`AnswerGarbled`).
* Telegram's retries and the text that follows a failed photo add up to six messages in
  one send when answers are lost.

Of the sources and polls:

* The listeners and both clients of a rotation have one `clientId` (`oref-mqtt.js:554`),
  the token; a broker that allows a client one connection ends the older one.  Every
  listener may rotate at the same time, and messages the replaced client still receives
  are acknowledged and dropped.
* `this.connected` speaks of the replaced client while its successor connects; if that
  one then fails, the source was shown as up a little too long.  `ReportedUpIsUp` allows it.
* A SUBSCRIBE that is refused is not repeated while the connection lasts: the listener is
  connected, shown as up, and deaf.  `HearsAgain` makes the exception.
* Credentials that cannot be validated for a moment are replaced by new ones; a
  registration that fails, or a file that cannot be written, leaves MQTT off until the
  poller restarts, though it is reported.
* Failures of push sources are counted per event and per poll alike, so that one outage
  reaches a threshold in fewer polls than the threshold says.
* A websocket that is half open is not noticed; there is no ping.
* `consecutivePollErrors` is shared by the polls of all sources: each success of one
  resets what another's failures counted.
* The due check (`poll-runtime.js:98`) compares with the very interval that the ticks have:
  one that comes a millisecond early polls nothing.
* A tick that is queued behind a poll which then rejects is lost with it; the rejection is
  nobody's and ends the process.

Of incidents:

* An answer that is lost, or a restart within a request, leaves the manager with what it
  remembered before; the next request is then skipped as "unchanged" if the remembered
  status is the wanted one (`pagerduty.js:151`), and the incident stays open, or unpaged,
  for good.  Concurrent syncs may have opposite POSTs on their way with the same effect.
  `doubt` marks both cases.
* A status whose file could not be written (`persist` rejects after `state.set`) is right
  in memory, but a restart before the next write reads the older file: a request for what
  that file has is skipped as "unchanged", so an incident PagerDuty closed long ago is taken
  for open and not paged again, or an open one not resolved, until a request for the
  opposite is answered.  `stale` marks this third case; the fourth scene of `incidents`
  reaches it.  `KnownIsTrue` and `IncidentsFollow` except it, because nothing in the repository
  says that the file is never older.
* `outbox-unavailable` is resolved while the database is down, because nobody asked the
  outbox.
* A refused request about uncertain rows costs the backlog its turn of that sync.
* A refused trigger about the database rejects the whole sync: nothing else is checked,
  the poll is counted as failed, and a second refusal in `poll`'s catch block is an
  unhandled rejection that ends the poller (`poll-runtime.js`).
* A restart empties the monitor; incidents decided from it are resolved at the first sync
  and opened again when their thresholds are reached anew.

Of the bot:

* A mute whose file cannot be written is answered with an error although delivery is
  off until the next restart.
* The buttons carry no token: two taps before the markup is cleared are two updates, and a
  confirmed preset is sent twice.  `OncePerUpdate` counts per update for that reason.
* If the offset's file is cut off, updates that Telegram has not had confirmed are
  executed again; if it cannot be written, the update in hand is lost.

Of the ledger, which is not modelled: it has no unique index, so two concurrent upserts
of one event may leave two rows, and pruning may delete a row an upsert is renewing.

## Not modelled

* `is_duplicate` rows, statistics and identity gaps in the outbox; the short window in
  `ensureOutboxSchema` in which the unique index is dropped and created.
* The gate's 30-day retention and its trim to 10000 entries; the same limits of the
  seen and delivered keys; the pruning of entries dated in the future.
* A torn runtime-state file, ties between several sources in seeding, a source that
  lists nothing, alerts of other places or of unsupported types, the log sink and
  preset alerts.
* Of the senders: malformed jobs, `ensureReady` and `refreshStatus`, which refresh the
  reported state, and crashes, which `OutboxDelivery` has.
* Text: normalisation, templates, the parsing of locations and dates.  What they
  decide (which alerts share a key) is a parameter.
* `stop()` of the streams, which only the shutdown calls; what a pushed message becomes
  (`AlertPipeline` has its callback); the parsing of what polled sources answer.
* The intervals of the polls: a tick may come at any time, so nothing is said of how
  often one comes, nor of the due check in `poll-runtime.js:98`.  The counters of failed
  polls and failed sources: `PagerDutyIncidents` takes their thresholds as conditions
  that change.
* The pruning of old resolved incidents from PagerDuty's file.
* The bot's list and status commands, which read, and who is allowed to do what.
* Source event ledger, captures and timeline: diagnostics; no decision about an alert,
  an incident or a command reads them.
* Normalisation and keys, configuration, logging, templates and simulation: pure
  functions over text, start-up parsing and test tooling, without state that steps of
  several actors share.

## Plan

Done: the outbox with its contract, the sends with theirs, the worker's process, the
pipeline, the path from a report to the chats, the push sources composed with the polls,
the incidents, the bot; and the proof of every safety property of theirs.  Left, in this order:

1. The path with what `NotifierSend` shows of a sender in the place of honest reports.
2. What is now shown of the pipeline by itself and of the path by composition only,
   such as `NeverDropped`, stated in words of the path: told means submitted to the table.
3. The ledger's upsert against its pruning, if something comes to depend on it.
