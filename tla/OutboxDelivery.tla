--------------------------- MODULE OutboxDelivery ---------------------------
(***************************************************************************)
(* Delivery of alerts through the outbox: pollers enqueue jobs, notifier   *)
(* workers tick (recover stale dispatches, reserve a batch, process it) and *)
(* drive every reserved job through processReservedJob: choose a notifier, *)
(* mark the dispatch, send, mark the outcome.  Each await of that function *)
(* is a step boundary, and each call may fail: the process may die, the    *)
(* database may lose a statement or its acknowledgement, the provider may  *)
(* refuse, hang, or accept a message and report an error.                  *)
(***************************************************************************)
EXTENDS NotificationOutbox

CONSTANTS
  Stagger,          \* delays a target may be enqueued with (WhatsApp stagger)
  Gated,            \* keys of WhatsApp chats: send() consults a DeliveryDedupeGate
  Disabled,         \* keys whose transport NOTIFIER_ACTIVE_TRANSPORTS leaves out
  Concurrency,      \* OUTBOX_MAX_CONCURRENCY
  AcceptedReports,  \* what send() may report of a message the provider accepted
  MayOverrun,       \* may a job outlast its lease while its worker lives?
  MaxFaults         \* bound: crashes and database failures

ASSUME DeliveryAssumption ==
  /\ Stagger \subseteq 0..RetryCap
  /\ Gated \subseteq Key /\ Disabled \subseteq Key
  /\ Concurrency \in Nat \ {0}
  /\ AcceptedReports \subseteq {"ok", "ambiguous", "transient", "persist_error"}
  /\ MayOverrun \in BOOLEAN
  /\ MaxFaults \in Nat

VARIABLES
  table,      \* the outbox
  nextId,     \* next value of its sequence
  phase,      \* phase[w]: where worker w is in its tick
  task,       \* task[w][j]: where w is in processing its copy of row j
  gate,       \* gate[w][k]: ticks since w remembered a delivery of k
  accepted,   \* accepted[j]: messages the provider accepted for row j (history)
  faults      \* failures so far

vars == <<table, nextId, phase, task, gate, accepted, faults>>

Stage == {"none", "queued", "sending", "accepted", "persist", "settle"}
Result == {"none", "ok", "skipped", "ambiguous", "transient", "permanent", "postsend"}
Task == [stage: Stage, result: Result, key: Key \cup {NoKey}, attempts: 0..MaxAttempts]
NoTask == [stage |-> "none", result |-> "none", key |-> NoKey, attempts |-> 0]

TypeOK ==
  /\ table \in [JobId -> Row]
  /\ nextId \in 1..(MaxJobs + 1)
  /\ phase \in [Worker -> {"down", "idle", "recovered", "busy"}]
  /\ task \in [Worker -> [JobId -> Task]]
  /\ gate \in [Worker -> [Key -> 0..DuplicateWindow]]
  /\ accepted \in [JobId -> Nat]
  /\ faults \in 0..MaxFaults

Init ==
  /\ table = [j \in JobId |-> NoRow]
  /\ nextId = 1
  /\ phase = [w \in Worker |-> "idle"]
  /\ task = [w \in Worker |-> [j \in JobId |-> NoTask]]
  /\ gate = [w \in Worker |-> [k \in Key |-> DuplicateWindow]]
  /\ accepted = [j \in JobId |-> 0]
  /\ faults = 0

Active(w, j) == task[w][j].stage # "none"

-----------------------------------------------------------------------------
(* The poller *)

\* PostgresNotificationOutbox.enqueueMany for the targets of one alert: one
\* transaction, the keys inserted draw consecutive ids in the order of items.
EnqueueMany(K, delay) ==
  LET cleaned == DeleteExpired(table, K)
      fresh == Insertable(cleaned, K)
      ids == nextId..(nextId + Cardinality(fresh) - 1)
  IN /\ nextId + Cardinality(fresh) <= MaxJobs + 1
     /\ \E keyAt \in [ids -> fresh] :
          /\ \A i, j \in ids : keyAt[i] = keyAt[j] => i = j
          /\ table' = InsertJobs(cleaned, keyAt, delay)
     /\ nextId' = nextId + Cardinality(fresh)
     /\ UNCHANGED <<phase, task, gate, accepted, faults>>

-----------------------------------------------------------------------------
(* A worker's tick: notifier-worker-loop.js *)

Recover(w) ==
  /\ phase[w] = "idle"
  /\ table' = RecoverStale(table)
  /\ phase' = [phase EXCEPT ![w] = "recovered"]
  /\ UNCHANGED <<nextId, task, gate, accepted, faults>>

\* outbox.reserve: the batch is copied into the process, attempt_count included.
ReserveBatch(w) ==
  LET after == Reserve(table, w)
      jobs == Picked(table)
  IN /\ phase[w] = "recovered"
     /\ table' = after
     /\ task' = [task EXCEPT ![w] = [j \in JobId |->
          IF j \in jobs
          THEN [stage |-> "queued", result |-> "none", key |-> table[j].key,
                attempts |-> after[j].attempts]
          ELSE @[j]]]
     /\ phase' = [phase EXCEPT ![w] = IF jobs = {} THEN "idle" ELSE "busy"]
     /\ UNCHANGED <<nextId, gate, accepted, faults>>

\* processReservedJobs has returned: the tick is over.
FinishTick(w) ==
  /\ phase[w] = "busy"
  /\ \A j \in JobId : ~Active(w, j)
  /\ phase' = [phase EXCEPT ![w] = "idle"]
  /\ UNCHANGED <<table, nextId, task, gate, accepted, faults>>

-----------------------------------------------------------------------------
(* processReservedJob: notifier-worker-jobs.js *)

Goto(w, j, stage, result) ==
  task' = [task EXCEPT ![w][j] = [@ EXCEPT !.stage = stage, !.result = result]]

Done(w, j) == task' = [task EXCEPT ![w][j] = NoTask]

\* processReservedJobs starts a job when one of its lanes is free.
LaneFree(w) ==
  Cardinality({j \in JobId : task[w][j].stage \notin {"none", "queued"}}) < Concurrency

\* Mutant: a job is marked in flight before the gate is asked about it.
SuppressedByItself(w, k) ==
  /\ k \in Gated
  /\ \/ gate[w][k] < DuplicateWindow
     \/ \E j \in JobId : task[w][j].key = k /\ task[w][j].stage \in {"queued", "sending", "accepted"}

\* DeliveryDedupeGate.shouldSuppress: delivered within the window, or another
\* send of the key in flight in this process.
Suppressed(w, k) ==
  /\ k \in Gated
  /\ \/ gate[w][k] < DuplicateWindow
     \/ \E j \in JobId : task[w][j].key = k /\ task[w][j].stage \in {"sending", "accepted"}

\* chooseNotifier throws a permanent error when the transport is off.
RefuseTransport(w, j) ==
  /\ task[w][j].stage = "queued" /\ LaneFree(w)
  /\ task[w][j].key \in Disabled
  /\ Goto(w, j, "settle", "permanent")
  /\ UNCHANGED <<table, nextId, phase, gate, accepted, faults>>

\* markDispatchStarted, whose answer is not looked at, and the start of send().
StartDispatch(w, j) ==
  /\ task[w][j].stage = "queued" /\ LaneFree(w)
  /\ task[w][j].key \notin Disabled
  /\ table' = MarkDispatchStarted(table, j)
  /\ IF Suppressed(w, task[w][j].key)
     THEN Goto(w, j, "persist", "skipped")
     ELSE Goto(w, j, "sending", "none")
  /\ UNCHANGED <<nextId, phase, gate, accepted, faults>>

\* The statement or its acknowledgement is lost; the error's message decides
\* whether isAmbiguousSendError takes it for a failed send.
DispatchMarkFails(w, j) ==
  /\ task[w][j].stage = "queued" /\ LaneFree(w)
  /\ task[w][j].key \notin Disabled
  /\ faults < MaxFaults /\ faults' = faults + 1
  /\ table' \in {table, MarkDispatchStarted(table, j)}
  /\ \E r \in {"ambiguous", "transient"} : Goto(w, j, "settle", r)
  /\ UNCHANGED <<nextId, phase, gate, accepted>>

\* The provider takes the message.
ProviderAccepts(w, j) ==
  /\ task[w][j].stage = "sending"
  /\ accepted' = [accepted EXCEPT ![j] = @ + 1]
  /\ Goto(w, j, "accepted", "none")
  /\ UNCHANGED <<table, nextId, phase, gate, faults>>

\* send() rejects and the provider has not accepted: refused (transient), or no
\* answer, or the sender's own connection check failed (ambiguous by its text).
SendFails(w, j) ==
  /\ task[w][j].stage = "sending"
  /\ \E r \in {"ambiguous", "transient"} : Goto(w, j, "settle", r)
  /\ UNCHANGED <<table, nextId, phase, gate, accepted, faults>>

\* send() returns after the provider accepted.  "ok" and "persist_error" (a state
\* file that cannot be written) have remembered the delivery in the gate.
SendReturns(w, j) ==
  /\ task[w][j].stage = "accepted"
  /\ \E r \in AcceptedReports :
       /\ Goto(w, j, IF r = "ok" THEN "persist" ELSE "settle",
                     IF r = "persist_error" THEN "transient" ELSE r)
       /\ gate' = IF r \in {"ok", "persist_error"} /\ task[w][j].key \in Gated
                  THEN [gate EXCEPT ![w][task[w][j].key] = 0]
                  ELSE gate
  /\ UNCHANGED <<table, nextId, phase, accepted, faults>>

PersistSent(w, j) ==
  /\ task[w][j].stage = "persist"
  /\ table' = MarkSent(table, j)
  /\ Done(w, j)
  /\ UNCHANGED <<nextId, phase, gate, accepted, faults>>

\* markSent rejects: after a delivery that is buildPostSendPersistenceError,
\* after a skip the database's error is judged like a send error.
PersistFails(w, j) ==
  /\ task[w][j].stage = "persist"
  /\ faults < MaxFaults /\ faults' = faults + 1
  /\ table' \in {table, MarkSent(table, j)}
  /\ IF task[w][j].result = "ok"
     THEN Goto(w, j, "settle", "postsend")
     ELSE \E r \in {"ambiguous", "transient"} : Goto(w, j, "settle", r)
  /\ UNCHANGED <<nextId, phase, gate, accepted>>

\* Mutant: a send without an answer counts as failed.
VerdictOnSilence(tk) ==
  IF tk.result = "postsend" THEN "uncertain"
  ELSE IF tk.result = "permanent" \/ tk.attempts >= MaxAttempts THEN "dead_lettered"
  ELSE "failed"

\* The catch block's choice of transition, from the copy's attempt_count.
Verdict(tk) ==
  IF tk.result \in {"postsend", "ambiguous"} THEN "uncertain"
  ELSE IF tk.result = "permanent" \/ tk.attempts >= MaxAttempts THEN "dead_lettered"
  ELSE "failed"

Transition(t, j, tk) ==
  CASE Verdict(tk) = "uncertain" -> MarkUncertain(t, j)
    [] Verdict(tk) = "dead_lettered" -> MarkDeadLettered(t, j)
    [] Verdict(tk) = "failed" -> MarkFailed(t, j, RetryDelay(tk.attempts))

Settle(w, j) ==
  /\ task[w][j].stage = "settle"
  /\ table' = Transition(table, j, task[w][j])
  /\ Done(w, j)
  /\ UNCHANGED <<nextId, phase, gate, accepted, faults>>

\* The transition is lost: logged, and the row stays as it is.
SettleLost(w, j) ==
  /\ task[w][j].stage = "settle"
  /\ faults < MaxFaults /\ faults' = faults + 1
  /\ Done(w, j)
  /\ UNCHANGED <<table, nextId, phase, gate, accepted>>

-----------------------------------------------------------------------------
(* The environment *)

\* What the next start loads of the gate's file, which may have missed the writes that
\* failed or have been cut short by a crash: one that does not parse is loaded as empty.
LoadEntries(w) ==
  \E lost \in SUBSET Key :
    gate' = [gate EXCEPT ![w] = [k \in Key |-> IF k \in lost THEN DuplicateWindow ELSE @[k]]]

\* The process dies (a kill, or a tick whose database call rejects: the timer's
\* async callback has no catch).
Crash(w) ==
  /\ phase[w] # "down"
  /\ faults < MaxFaults /\ faults' = faults + 1
  /\ phase' = [phase EXCEPT ![w] = "down"]
  /\ task' = [task EXCEPT ![w] = [j \in JobId |-> NoTask]]
  /\ LoadEntries(w)
  /\ UNCHANGED <<table, nextId, accepted>>

Restart(w) ==
  /\ phase[w] = "down"
  /\ phase' = [phase EXCEPT ![w] = "idle"]
  /\ UNCHANGED <<table, nextId, task, gate, accepted, faults>>

\* Worker w still works on row j under its own lease.
HoldsLease(w, j) ==
  Active(w, j) /\ table[j].status = "processing" /\ table[j].by = w

\* Unless overruns are allowed, time leaves a live worker its lease.
Timely == \A w \in Worker, j \in JobId : HoldsLease(w, j) => table[j].lease + 1 < LeaseTimeout

Tick ==
  /\ MayOverrun \/ Timely
  /\ table' = Aged(table)
  /\ gate' = [w \in Worker |-> [k \in Key |->
       IF gate[w][k] < DuplicateWindow THEN gate[w][k] + 1 ELSE gate[w][k]]]
  /\ UNCHANGED <<nextId, phase, task, accepted, faults>>

-----------------------------------------------------------------------------
JobStep(w, j) ==
  \/ RefuseTransport(w, j) \/ StartDispatch(w, j)
  \/ ProviderAccepts(w, j) \/ SendFails(w, j) \/ SendReturns(w, j)
  \/ PersistSent(w, j) \/ Settle(w, j)

JobFault(w, j) == DispatchMarkFails(w, j) \/ PersistFails(w, j) \/ SettleLost(w, j)

LoopStep(w) == Recover(w) \/ ReserveBatch(w) \/ FinishTick(w) \/ Restart(w)

WorkerStep ==
  \/ \E w \in Worker : LoopStep(w) \/ Crash(w)
  \/ \E w \in Worker, j \in JobId : JobStep(w, j) \/ JobFault(w, j)

Act == (\E K \in (SUBSET Key) \ {{}}, delay \in Stagger : EnqueueMany(K, delay)) \/ WorkerStep

Next == Act \/ Tick

Spec == Init /\ [][Next]_vars

\* The timer of the loop always fires again, every provider and database call
\* ends (fetch timeouts of 10 and 15 s), containers restart, and time passes.
Fairness ==
  /\ WF_vars(Tick)
  /\ \A w \in Worker : WF_vars(LoopStep(w))
  /\ \A w \in Worker, j \in JobId : WF_vars(JobStep(w, j))

FairSpec == Spec /\ Fairness

-----------------------------------------------------------------------------
(* Properties.  "Honest" runs leave "transient" and "persist_error" out of
   AcceptedReports: an accepted message is never reported as a plain failure.  *)

\* The partial unique index and the insert's conflict clause: however enqueues,
\* expiry and settlement interleave, a key has one live row.
OneRowPerKey ==
  \A i, j \in JobId : Exists(table, i) /\ table[i].key = table[j].key => i = j

\* The lease: no row is in the hands of two workers, though marks are not
\* guarded by owner.  Needs workers that keep to their lease.
ExclusiveLease ==
  \A v, w \in Worker, j \in JobId : Active(v, j) /\ Active(w, j) => v = w

\* No retry, recovery or restart makes the provider accept a job twice.
AtMostOnce == \A j \in JobId : accepted[j] <= 1

\* What the table says happened did: a sent row was accepted, and a row that
\* is waiting or given up was not; only 'uncertain' may be either.
TruthfulVerdict ==
  \A j \in JobId :
    /\ table[j].status = "sent" => accepted[j] > 0
    /\ table[j].status \in {"pending", "failed", "dead_lettered"} => accepted[j] = 0

\* The WhatsApp gate and the outbox measure the same window, so a job that got
\* past the outbox is never swallowed by the gate as a duplicate.
GateNeverSwallows ==
  \A w \in Worker, j \in JobId : task[w][j].result # "skipped"

\* A row only waits for a retry while its attempt_count allows one.
RetryLeavesAttempts ==
  \A j \in JobId : table[j].status = "failed" => table[j].attempts < MaxAttempts

SettledRowStays(j) ==
  /\ table[j].status = "sent" => table'[j].status \in {"sent", "uncertain", "absent"}
  /\ table[j].status = "uncertain" => table'[j].status = "uncertain"
  /\ table[j].status = "dead_lettered" => table'[j].status \in {"dead_lettered", "absent"}

\* A settled row never becomes live again: 'sent' may only turn 'uncertain'
\* (markSent's acknowledgement was lost) or be deleted, 'uncertain' stays.
SettledStaysSettled == [][\A j \in JobId : SettledRowStays(j)]_table

\* A sent row's key reached the chat: by the row's own message or, when the gate
\* skipped it, by that of an earlier job (whose row may be gone).  Holds with
\* overruns and false reports.
SentReachedChat ==
  \A j \in JobId : table[j].status = "sent" =>
    \/ accepted[j] > 0
    \/ /\ table[j].key \in Gated
       /\ \E i \in JobId : accepted[i] > 0 /\ table[i].key \in {table[j].key, NoKey}

Live == {"pending", "processing", "failed"}

\* Every job is settled in the end: no crash, lost statement or stolen lease
\* leaves a row live for ever.
EveryJobSettles ==
  \A j \in JobId : table[j].status \in Live ~> table[j].status \notin Live

\* The outbox would answer an alert for key k with "duplicate".
Blocked(k) == k \notin Insertable(DeleteExpired(table, {k}), {k})

\* A key is free again after its last row was settled and the window passed,
\* unless that row is 'uncertain', which is never deleted.
OnlyUncertainBlocks ==
  \A k \in Key : Blocked(k) ~>
    \/ ~Blocked(k)
    \/ \E j \in JobId : table[j].key = k /\ table[j].status = "uncertain"

-----------------------------------------------------------------------------
(* Inductive strengthenings, in the order they rest on each other. *)

\* Rows: an id without a row is clean, no row waits or rests with a dispatch mark.
RowShape ==
  \A j \in JobId :
    /\ table[j].status = "absent" => table[j] = NoRow
    /\ Exists(table, j) => table[j].key \in Key /\ j < nextId
    /\ table[j].status \in {"pending", "failed", "sent", "dead_lettered"} => ~table[j].dispatched

KeyInv == RowShape /\ OneRowPerKey

\* The results a task's stage can carry.
StageShape(tk) ==
  \/ tk = NoTask
  \/ tk.stage \in {"queued", "sending", "accepted"} /\ tk.result = "none"
  \/ tk.stage = "persist" /\ tk.result \in {"ok", "skipped"}
  \/ tk.stage = "settle" /\ tk.result \in {"ambiguous", "transient", "permanent", "postsend"}

UnexpiredLease(w, j) ==
  table[j].status = "processing" /\ table[j].by = w /\ table[j].lease < LeaseTimeout

\* A worker's copy agrees with the row it holds under an unexpired lease; only
\* after markSent's answer was lost may the row have been sent, or be deleted since.
CopyAgrees(w, j) ==
  /\ \/ UnexpiredLease(w, j)
     \/ task[w][j].stage = "settle" /\ table[j].status \in {"sent", "absent"}
  /\ Exists(table, j) =>
       task[w][j].key = table[j].key /\ task[w][j].attempts = table[j].attempts

\* One worker's work on one row.
Held(w, j) ==
  /\ StageShape(task[w][j])
  /\ Active(w, j) => CopyAgrees(w, j) /\ phase[w] = "busy" /\ j < nextId

LeaseInv ==
  /\ KeyInv
  /\ \A w \in Worker, j \in JobId : Held(w, j)
  /\ ExclusiveLease
  /\ RetryLeavesAttempts

\* Where a message accepted by the provider can still be.
RowAcceptance(j) ==
  /\ accepted[j] \in {0, 1}
  /\ table[j].status \in {"pending", "failed", "dead_lettered"} => accepted[j] = 0
  /\ table[j].status = "processing" /\ ~table[j].dispatched => accepted[j] = 0
  /\ table[j].status = "sent" => accepted[j] = 1
  /\ j >= nextId => accepted[j] = 0

TaskAcceptance(w, j) ==
  /\ task[w][j].stage \in {"queued", "sending"} => accepted[j] = 0
  /\ task[w][j].stage = "sending" => table[j].dispatched
  /\ task[w][j].result \in {"transient", "permanent"} => accepted[j] = 0
  /\ task[w][j].stage \in {"accepted", "persist"} => accepted[j] = 1
  /\ task[w][j].result = "postsend" => accepted[j] = 1
  /\ task[w][j].result # "skipped"

\* A delivery the gate still remembers has left its row in the outbox, and a sent
\* row is no older than the memory: the row outlives the gate's window.
GateBacked(w, k) ==
  gate[w][k] < DuplicateWindow =>
    \E j \in JobId :
      /\ Exists(table, j) /\ table[j].key = k /\ accepted[j] = 1
      /\ table[j].status = "sent" => 0 - table[j].due <= gate[w][k]

AcceptInv ==
  /\ \A j \in JobId : RowAcceptance(j)
  /\ \A w \in Worker, j \in JobId : TaskAcceptance(w, j)
  /\ \A w \in Worker, k \in Key : GateBacked(w, k)
=============================================================================
