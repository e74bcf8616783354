------------------------- MODULE NotifierWorkerLoop -------------------------
(***************************************************************************)
(* The loop of a notifier worker (notifier-worker-loop.js): one timer, one *)
(* tick at a time, and wake-ups that may arrive at any await of a tick.    *)
(* The timer's delay is what matters: "now" is setTimeout(0), "poll" the   *)
(* poll interval.  Periods that are over (heartbeat, status refresh) are   *)
(* flags the passing of time raises.                                       *)
(***************************************************************************)
EXTENDS Naturals

CONSTANTS
  Batch,        \* OUTBOX_RESERVE_BATCH
  MaxWaiting,   \* bound: rows that come due in all
  MaxFaults     \* bound: crashes and database failures

ASSUME LoopAssumption == Batch \in Nat \ {0} /\ MaxWaiting \in Nat /\ MaxFaults \in Nat

VARIABLES
  mode,           \* the process: down, in init(), or past workerLoop.start()
  stage,          \* the await the tick in flight is at; "idle" without one
  immediate,      \* immediateTickRequested
  timer,          \* nextTickTimer
  heartbeatDue,   \* heartbeatIntervalMs have passed since the last report
  refreshDue,     \* statusRefreshMs have passed since the last refresh
  halted,        \* stop() was called (history)
  owed,           \* a wake-up came since the last reserve ran (history)
  waiting,        \* rows the next reserve would find
  came,           \* rows that came due so far
  faults          \* failures so far

vars == <<mode, stage, immediate, timer, heartbeatDue, refreshDue, halted, owed,
          waiting, came, faults>>

Stages == {"idle", "heartbeat", "recover", "reserve", "empty", "refresh", "refreshed", "process"}

TypeOK ==
  /\ mode \in {"down", "init", "started"}
  /\ stage \in Stages
  /\ immediate \in BOOLEAN /\ timer \in {"none", "now", "poll"}
  /\ heartbeatDue \in BOOLEAN /\ refreshDue \in BOOLEAN
  /\ halted \in BOOLEAN /\ owed \in BOOLEAN
  /\ waiting \in 0..MaxWaiting /\ came \in 0..MaxWaiting
  /\ faults \in 0..MaxFaults

\* A fresh process: lastHeartbeatReportAt is null, lastStatusRefreshAt is 0.
Fresh(m) ==
  /\ mode' = m /\ stage' = "idle" /\ immediate' = FALSE /\ timer' = "none"
  /\ heartbeatDue' = TRUE /\ refreshDue' = TRUE /\ halted' = FALSE /\ owed' = FALSE

Init ==
  /\ mode = "down" /\ stage = "idle" /\ immediate = FALSE /\ timer = "none"
  /\ heartbeatDue = TRUE /\ refreshDue = TRUE /\ halted = FALSE /\ owed = FALSE
  /\ waiting = 0 /\ came = 0 /\ faults = 0

InFlight == stage # "idle"

-----------------------------------------------------------------------------
(* The three entry points of the loop *)

\* start(): a timer without delay; a wake-up during init() may have started a tick.
Start ==
  /\ mode = "init"
  /\ mode' = "started" /\ timer' = "now"
  /\ UNCHANGED <<stage, immediate, heartbeatDue, refreshDue, halted, owed, waiting, came, faults>>

\* stop(): clears the timer, and leaves a tick in flight alone.
Stop ==
  /\ mode = "started" /\ ~halted
  /\ halted' = TRUE /\ timer' = "none"
  /\ UNCHANGED <<mode, stage, immediate, heartbeatDue, refreshDue, owed, waiting, came, faults>>

\* Mutant: a wake-up during a tick is dropped.
DroppedInFlight ==
  /\ mode # "down"
  /\ immediate' = (immediate \/ ~InFlight)
  /\ timer' = IF InFlight THEN timer ELSE "now"
  /\ owed' = TRUE
  /\ UNCHANGED <<mode, stage, heartbeatDue, refreshDue, halted, waiting, came, faults>>

\* requestImmediateTick()
RequestImmediateTick ==
  /\ mode # "down"
  /\ immediate' = TRUE
  /\ timer' = IF InFlight THEN timer ELSE "now"
  /\ owed' = TRUE
  /\ UNCHANGED <<mode, stage, heartbeatDue, refreshDue, halted, waiting, came, faults>>

-----------------------------------------------------------------------------
(* tick() *)

\* The timer's callback: a tick in flight makes it leave a request instead.
TimerFires ==
  /\ timer # "none" /\ timer' = "none"
  /\ IF InFlight
     THEN immediate' = TRUE /\ stage' = stage
     ELSE immediate' = FALSE /\ stage' = IF heartbeatDue THEN "heartbeat" ELSE "recover"
  /\ UNCHANGED <<mode, heartbeatDue, refreshDue, halted, owed, waiting, came, faults>>

\* reportHeartbeat swallows its errors.
Heartbeat ==
  /\ stage = "heartbeat" /\ stage' = "recover"
  /\ heartbeatDue' = FALSE
  /\ UNCHANGED <<mode, immediate, timer, refreshDue, halted, owed, waiting, came, faults>>

Recover ==
  /\ stage = "recover" /\ stage' = "reserve"
  /\ UNCHANGED <<mode, immediate, timer, heartbeatDue, refreshDue, halted, owed,
                 waiting, came, faults>>

\* Mutant: the next tick is always a poll interval away.
FinallyForgets == stage' = "idle" /\ immediate' = FALSE /\ timer' = "poll"

\* The finally block: whatever else is armed gives way to the next tick.
Finally ==
  /\ stage' = "idle" /\ immediate' = FALSE
  /\ timer' = IF immediate THEN "now" ELSE "poll"

\* Mutant: a short batch is counted as a whole one.
TakenWhole == Batch

Taken == IF waiting < Batch THEN waiting ELSE Batch

\* outbox.reserve runs in the database.
Reserve ==
  /\ stage = "reserve"
  /\ stage' = IF waiting > 0 THEN "process" ELSE "empty"
  /\ waiting' = waiting - Taken /\ owed' = FALSE
  /\ UNCHANGED <<mode, immediate, timer, heartbeatDue, refreshDue, halted, came, faults>>

\* Mutant: an empty batch ends the tick without the finally block.
ReturnsPastFinally ==
  /\ stage = "empty"
  /\ stage' = IF refreshDue THEN "refresh" ELSE "idle"
  /\ UNCHANGED <<mode, immediate, timer, heartbeatDue, refreshDue, halted, owed, waiting,
                 came, faults>>

\* No rows: the transports' status is refreshed if its period is over.
NothingReserved ==
  /\ stage = "empty"
  /\ IF refreshDue THEN stage' = "refresh" /\ UNCHANGED <<immediate, timer>> ELSE Finally
  /\ UNCHANGED <<mode, heartbeatDue, refreshDue, halted, owed, waiting, came, faults>>

\* allSettled over refreshStatus, then the heartbeat that reports it.
Refresh ==
  /\ stage = "refresh" /\ stage' = "refreshed"
  /\ refreshDue' = FALSE
  /\ UNCHANGED <<mode, immediate, timer, heartbeatDue, halted, owed, waiting, came, faults>>

ReportRefresh ==
  /\ stage = "refreshed" /\ Finally
  /\ heartbeatDue' = FALSE
  /\ UNCHANGED <<mode, refreshDue, halted, owed, waiting, came, faults>>

\* processReservedJobs has returned: it never rejects.
Processed ==
  /\ stage = "process" /\ Finally
  /\ UNCHANGED <<mode, heartbeatDue, refreshDue, halted, owed, waiting, came, faults>>

-----------------------------------------------------------------------------
(* The environment *)

Boot ==
  /\ mode = "down" /\ Fresh("init")
  /\ UNCHANGED <<waiting, came, faults>>

\* The process is killed, or the database refuses a statement of the tick: the
\* rejection leaves the timer's async callback, where nothing catches it.
Crash ==
  /\ mode # "down" /\ faults < MaxFaults /\ faults' = faults + 1
  /\ Fresh("down")
  /\ UNCHANGED <<waiting, came>>

\* A row is enqueued, or a delay of one is over.
ComeDue ==
  /\ came < MaxWaiting /\ came' = came + 1 /\ waiting' = waiting + 1
  /\ UNCHANGED <<mode, stage, immediate, timer, heartbeatDue, refreshDue, halted, owed, faults>>

PeriodEnds ==
  /\ mode # "down"
  /\ \/ ~heartbeatDue /\ heartbeatDue' = TRUE /\ UNCHANGED refreshDue
     \/ ~refreshDue /\ refreshDue' = TRUE /\ UNCHANGED heartbeatDue
  /\ UNCHANGED <<mode, stage, immediate, timer, halted, owed, waiting, came, faults>>

-----------------------------------------------------------------------------
TickStep ==
  \/ Heartbeat \/ Recover \/ Reserve \/ NothingReserved
  \/ Refresh \/ ReportRefresh \/ Processed

LoopStep == Start \/ TimerFires \/ TickStep

Next ==
  \/ LoopStep \/ Stop \/ RequestImmediateTick
  \/ Boot \/ Crash \/ ComeDue \/ PeriodEnds

Spec == Init /\ [][Next]_vars

\* Timers fire, awaited calls end, init() gets to start(), containers restart.
Fairness == WF_vars(Start) /\ WF_vars(TimerFires) /\ WF_vars(TickStep) /\ WF_vars(Boot)

FairSpec == Spec /\ Fairness

-----------------------------------------------------------------------------
(* Properties *)

\* A started loop is never left without a tick in flight and without a timer, at
\* whichever await wake-ups, a second start of the chain or a refresh interleave.
NeverStalls == mode = "started" /\ ~halted => InFlight \/ timer # "none"

\* notifier-worker-loop.test.js:6, at every await: after a wake-up the rows are
\* looked up without waiting for the poll interval.
WakeupKept ==
  owed /\ ~halted =>
    \/ timer = "now"
    \/ stage \in {"heartbeat", "recover", "reserve"}
    \/ InFlight /\ immediate

\* Rows that come due without any wake-up are still taken: by the poll interval.
RowsTaken == waiting > 0 ~> waiting = 0 \/ halted
=============================================================================
