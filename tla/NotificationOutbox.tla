------------------------- MODULE NotificationOutbox -------------------------
(***************************************************************************)
(* The table poller.notification_outbox and the SQL statements that change *)
(* it (outbox-schema.js, notification-outbox.js), one operator per         *)
(* statement: each takes the table and returns the table the statement     *)
(* leaves.  A table maps every id of the bigserial sequence to a row;      *)
(* NoRow stands for an id not yet drawn and for a deleted row.             *)
(*                                                                         *)
(* Time is relative.  The statements only compare differences with now(),  *)
(* so a row keeps "due", the ticks from now until available_at (negative   *)
(* once it has passed), and "lease", the ticks since                       *)
(* processing_started_at; Aged advances both.  "due" saturates at          *)
(* -DuplicateWindow and "lease" at LeaseTimeout, beyond which no statement *)
(* tells two values apart except the order of reservation, where rows that *)
(* have both been available for a whole window are taken by id.  The       *)
(* database's now() and the process's Date.now() are one clock.            *)
(*                                                                         *)
(* Rows with is_duplicate = true are left out: every statement below skips *)
(* them by is_duplicate or by their status 'duplicate'.                    *)
(***************************************************************************)
EXTENDS Integers, FiniteSets

CONSTANTS
  Key,              \* delivery keys: hash of chat, event type, body, locations
  Worker,           \* notifier worker processes (NOTIFIER_WORKER_ID)
  NoKey, NoWorker,  \* the nulls of delivery_key and processing_by
  MaxJobs,          \* bound: ids the sequence hands out
  Batch,            \* OUTBOX_RESERVE_BATCH
  LeaseTimeout,     \* OUTBOX_PROCESSING_TIMEOUT_MS
  DuplicateWindow,  \* DELIVERY_DUPLICATE_WINDOW_MS
  RetryBase,        \* OUTBOX_RETRY_BASE_MS
  RetryCap,         \* the two minutes of computeRetryDelay
  MaxAttempts       \* OUTBOX_MAX_ATTEMPTS

\* The nulls are not values, and every parameter is one parsePositiveInt lets through.
ASSUME OutboxAssumption ==
  /\ IsFiniteSet(Key)
  /\ NoKey \notin Key /\ NoWorker \notin Worker
  /\ MaxJobs \in Nat /\ Batch \in Nat \ {0}
  /\ LeaseTimeout \in Nat \ {0} /\ DuplicateWindow \in Nat \ {0}
  /\ RetryBase \in Nat \ {0} /\ RetryCap \in Nat \ {0}
  /\ MaxAttempts \in Nat \ {0}

JobId == 1..MaxJobs

\* OUTBOX_STATUSES, and "absent" for an id that holds no row.
Status == {"absent", "pending", "processing", "sent", "failed", "uncertain",
           "dead_lettered"}

Row == [status: Status, key: Key \cup {NoKey}, due: -DuplicateWindow..RetryCap,
        lease: 0..LeaseTimeout, dispatched: BOOLEAN, attempts: 0..MaxAttempts,
        by: Worker \cup {NoWorker}]

NoRow == [status |-> "absent", key |-> NoKey, due |-> 0, lease |-> 0,
          dispatched |-> FALSE, attempts |-> 0, by |-> NoWorker]

Exists(t, j) == t[j].status # "absent"

-----------------------------------------------------------------------------
(* enqueueMany *)

\* Mutants: the window ends a tick early; dead-lettered rows are kept; uncertain
\* ones are deleted too.
ExpiredEarly(t, j) ==
  t[j].status \in {"sent", "dead_lettered"} /\ t[j].due <= 1 - DuplicateWindow
ExpiredSentOnly(t, j) == t[j].status = "sent" /\ t[j].due <= -DuplicateWindow
ExpiredUncertain(t, j) ==
  t[j].status \in {"sent", "dead_lettered", "uncertain"} /\ t[j].due <= -DuplicateWindow

\* DELETE_EXPIRED_TERMINAL_JOB_SQL: an earlier row of the key goes once it has
\* been settled as sent or dead-lettered for the whole duplicate window.
Expired(t, j) ==
  /\ t[j].status \in {"sent", "dead_lettered"}
  /\ t[j].due <= -DuplicateWindow

DeleteExpired(t, K) ==
  [j \in JobId |-> IF t[j].key \in K /\ Expired(t, j) THEN NoRow ELSE t[j]]

\* Mutant: the conflict clause sees rows that wait only.
InsertableOverLive(t, K) ==
  {k \in K : \A j \in JobId : t[j].status \in {"pending", "failed"} => t[j].key # k}

\* Keys of the batch that INSERT ... ON CONFLICT DO NOTHING still inserts: no
\* row of the key is left, whatever its status.
Insertable(t, K) ==
  {k \in K : \A j \in JobId : Exists(t, j) => t[j].key # k}

\* INSERT_OUTBOX_JOB_SQL, delay: the target's stagger (availableAt - now).
PendingRow(k, delay) == [NoRow EXCEPT !.status = "pending", !.key = k, !.due = delay]

InsertJobs(t, keyAt, delay) ==
  [j \in JobId |-> IF j \in DOMAIN keyAt THEN PendingRow(keyAt[j], delay) ELSE t[j]]

-----------------------------------------------------------------------------
(* reserve *)

\* Mutants: a running row counts as stale at once; a dispatched one may be retried.
ReservableUnleased(t, j) ==
  \/ t[j].status \in {"pending", "failed"} /\ t[j].due <= 0
  \/ t[j].status = "processing" /\ ~t[j].dispatched
ReservableDispatched(t, j) ==
  \/ t[j].status \in {"pending", "failed"} /\ t[j].due <= 0
  \/ t[j].status = "processing" /\ t[j].lease >= LeaseTimeout

\* RESERVE_OUTBOX_JOBS_SQL, the where clause.
Reservable(t, j) ==
  \/ t[j].status \in {"pending", "failed"} /\ t[j].due <= 0
  \/ t[j].status = "processing" /\ ~t[j].dispatched /\ t[j].lease >= LeaseTimeout

\* order by available_at, id
Before(t, i, j) ==
  \/ t[i].due < t[j].due
  \/ t[i].due = t[j].due /\ i < j

\* limit $2
Picked(t) ==
  {j \in JobId :
     /\ Reservable(t, j)
     /\ Cardinality({i \in JobId : Reservable(t, i) /\ Before(t, i, j)}) < Batch}

\* attempt_count is only ever compared with MaxAttempts: it saturates there.
NextAttempt(n) == IF n < MaxAttempts THEN n + 1 ELSE MaxAttempts

Reserve(t, w) ==
  [j \in JobId |->
     IF j \in Picked(t)
     THEN [t[j] EXCEPT !.status = "processing", !.lease = 0, !.by = w,
                       !.attempts = NextAttempt(@)]
     ELSE t[j]]

-----------------------------------------------------------------------------
(* The transitions of a reserved row: "where id = $1" and nothing else, except
   for dispatch_started_at, which asks for status 'processing'. *)

MarkDispatchStarted(t, j) ==
  IF t[j].status = "processing" THEN [t EXCEPT ![j].dispatched = TRUE] ELSE t

\* Statements that clear the lease and dispatch_started_at.
Settled(row, status, due) ==
  [row EXCEPT !.status = status, !.due = due, !.lease = 0,
              !.dispatched = FALSE, !.by = NoWorker]

MarkSent(t, j) ==
  IF Exists(t, j) THEN [t EXCEPT ![j] = Settled(@, "sent", 0)] ELSE t

MarkDeadLettered(t, j) ==
  IF Exists(t, j) THEN [t EXCEPT ![j] = Settled(@, "dead_lettered", 0)] ELSE t

MarkFailed(t, j, delay) ==
  IF Exists(t, j) THEN [t EXCEPT ![j] = Settled(@, "failed", delay)] ELSE t

\* Keeps dispatch_started_at and available_at.
Undecided(row) ==
  [row EXCEPT !.status = "uncertain", !.lease = 0, !.by = NoWorker]

MarkUncertain(t, j) ==
  IF Exists(t, j) THEN [t EXCEPT ![j] = Undecided(@)] ELSE t

\* MARK_STALE_DISPATCHES_UNCERTAIN_SQL
StaleDispatch(t, j) ==
  t[j].status = "processing" /\ t[j].dispatched /\ t[j].lease >= LeaseTimeout

\* Mutant: dispatches whose worker died are never recovered.
NoRecovery(t) == t

RecoverStale(t) ==
  [j \in JobId |-> IF StaleDispatch(t, j) THEN Undecided(t[j]) ELSE t[j]]

\* Mutant: the delay is not capped.
UncappedDelay(n) == RetryBase * 2^(n - 1)

\* computeRetryDelay: the base doubled per attempt, up to the cap.  A tick is
\* at least the one second markFailed rounds up to.
RetryDelay(n) ==
  IF RetryBase * 2^(n - 1) \in 1..RetryCap THEN RetryBase * 2^(n - 1) ELSE RetryCap

-----------------------------------------------------------------------------
\* One tick of the clock, seen by the rows.
AgedRow(row) ==
  IF row.status = "absent" THEN row
  ELSE [row EXCEPT
          !.due = IF @ > -DuplicateWindow THEN @ - 1 ELSE @,
          !.lease = IF row.status = "processing" /\ @ < LeaseTimeout THEN @ + 1 ELSE @]

Aged(t) == [j \in JobId |-> AgedRow(t[j])]
=============================================================================
