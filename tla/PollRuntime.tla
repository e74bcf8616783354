----------------------------- MODULE PollRuntime -----------------------------
(***************************************************************************)
(* The polls of the poller (poll-runtime.js), one scheduler per polled     *)
(* source (poller-app.js, createPollScheduler), next to the push sources:  *)
(* a poll's task is where the monitor learns what they look like now.      *)
(***************************************************************************)
EXTENDS RealtimeSources, Sequences

CONSTANTS
  Polled,      \* the polled sources, each with its interval and its scheduler
  MaxThrows    \* bound: tasks that throw

ASSUME PollAssumption == MaxThrows \in Nat

VARIABLES
  phase,   \* phase[p]: where the scheduler's active run is
  queued,  \* queued[p]: a tick came while it was active
  tail,    \* polls whose tasks are chained in processingTail, in order
  throws   \* so far

polls == <<phase, queued, tail, throws>>
pollerVars == <<vars, polls>>

\* fetch: the source is asked; chained: its alerts wait for the tasks before; task: the
\* task runs; failed: it has thrown, and syncPagerDutyHealth runs outside of any task.
Phase == {"idle", "fetch", "chained", "task", "failed"}

PollsTypeOK ==
  /\ TypeOK
  /\ phase \in [Polled -> Phase] /\ queued \in [Polled -> BOOLEAN] /\ tail \in Seq(Polled)
  /\ throws \in 0..MaxThrows

NoPolls ==
  /\ phase = [p \in Polled |-> "idle"] /\ queued = [p \in Polled |-> FALSE] /\ tail = <<>>
  /\ throws = 0

PollerInit == Init /\ NoPolls

-----------------------------------------------------------------------------
(* createPollScheduler *)

\* schedule("tick"): polls are scheduled when start-up is over.
Ticks(p) ==
  /\ boot = "done"
  /\ IF phase[p] = "idle"
     THEN phase' = [phase EXCEPT ![p] = "fetch"] /\ UNCHANGED queued
     ELSE queued' = [queued EXCEPT ![p] = TRUE] /\ UNCHANGED phase
  /\ UNCHANGED <<vars, tail, throws>>

\* Mutant: the tick is forgotten where the next run should see it.
PollEndsForgetting(p) ==
  /\ phase' = [phase EXCEPT ![p] = "idle"] /\ queued' = [queued EXCEPT ![p] = FALSE]

\* drainQueue: ticks that came during the poll make one more, at once.
PollEnds(p) ==
  /\ phase' = [phase EXCEPT ![p] = IF queued[p] THEN "fetch" ELSE "idle"]
  /\ queued' = [queued EXCEPT ![p] = FALSE]

-----------------------------------------------------------------------------
(* poll *)

\* fetchPolledAlertBatch: the source answers, or fails, which is a result too.
Fetches(p) ==
  /\ phase[p] = "fetch" /\ phase' = [phase EXCEPT ![p] = "chained"]
  /\ tail' = Append(tail, p)
  /\ UNCHANGED <<vars, queued, throws>>

\* enqueueProcessing: the task before has ended, well or not. It begins by collecting
\* what the push sources look like.
TaskBegins(p) ==
  /\ phase[p] = "chained" /\ p = Head(tail) /\ \A q \in Polled : phase[q] # "task"
  /\ phase' = [phase EXCEPT ![p] = "task"]
  /\ UNCHANGED <<queued, tail, throws>> /\ Poll

\* The alerts are ingested, the ledger pruned, the incidents synced.
TaskEnds(p) ==
  /\ phase[p] = "task" /\ tail' = Tail(tail) /\ PollEnds(p)
  /\ UNCHANGED <<vars, throws>>

\* Mutant: the chain keeps the place of a task that has thrown.
TaskStaysChained(p) ==
  /\ phase[p] = "task" /\ throws < MaxThrows /\ throws' = throws + 1
  /\ phase' = [phase EXCEPT ![p] = "failed"]
  /\ UNCHANGED <<vars, queued, tail>>

\* An ingest or the sync throws.
TaskThrows(p) ==
  /\ phase[p] = "task" /\ throws < MaxThrows /\ throws' = throws + 1
  /\ phase' = [phase EXCEPT ![p] = "failed"] /\ tail' = Tail(tail)
  /\ UNCHANGED <<vars, queued>>

\* The sync in poll()'s catch block.
FailedEnds(p) ==
  /\ phase[p] = "failed" /\ PollEnds(p)
  /\ UNCHANGED <<vars, tail, throws>>

\* The poller is killed, or that sync throws too, which nobody catches.
PollerRestarts ==
  /\ Restarts
  /\ phase' = [p \in Polled |-> "idle"] /\ queued' = [p \in Polled |-> FALSE] /\ tail' = <<>>
  /\ UNCHANGED throws

-----------------------------------------------------------------------------
Polls(p) == Fetches(p) \/ TaskBegins(p) \/ TaskEnds(p) \/ FailedEnds(p)

\* A step of the push sources alone: only polls collect.
SourceStep ==
  /\ \/ Boots \/ ValidationFails \/ RegistrationFails \/ TzStartFails
     \/ \E l \in Listener : ListenerStep(l)
     \/ TzStep \/ TimePasses
  /\ UNCHANGED polls

PollerNext ==
  \/ SourceStep \/ PollerRestarts
  \/ \E p \in Polled : Ticks(p) \/ Polls(p) \/ TaskThrows(p)

PollerSpec == PollerInit /\ [][PollerNext]_pollerVars

\* Start-up, listeners and websocket go on as in FairSpec; a fetch has a
\* timeout, and tasks, their transactions included, come to an end.
PollerFairSpec ==
  /\ PollerSpec
  /\ WF_pollerVars(Boots /\ UNCHANGED polls) /\ WF_pollerVars(TzRecovers /\ UNCHANGED polls)
  /\ \A l \in Listener : WF_pollerVars(Recovers(l) /\ UNCHANGED polls)
  /\ \A p \in Polled : WF_pollerVars(Polls(p))

-----------------------------------------------------------------------------
(* Properties *)

\* A tick that finds a poll running leads to one more without the help of a later tick
\* (poller-app.js:72): no tick is lost in the flag, and a poll that throws holds up neither
\* its source nor the other's tasks (poll-runtime.js:39).
TicksAnswered == \A p \in Polled : queued[p] ~> (phase[p] = "fetch" \/ boot # "done")

-----------------------------------------------------------------------------
(* Inductive strengthening *)

\* A poll that waits for its task, or is in it, has its place in the chain, and only the
\* first one's task runs.
ChainShape ==
  /\ \A p \in Polled : phase[p] \in {"chained", "task"} => \E i \in 1..Len(tail) : tail[i] = p
  /\ \A p \in Polled : phase[p] = "task" => tail[1] = p

PollsInv == PollsTypeOK /\ ChainShape
=============================================================================
