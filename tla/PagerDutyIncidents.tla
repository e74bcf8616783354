------------------------- MODULE PagerDutyIncidents -------------------------
(***************************************************************************)
(* What the poller tells PagerDuty (pagerduty.js, pagerduty-runtime.js).   *)
(* Several calls of syncPagerDutyHealth may be under way at once: polls    *)
(* make one at a time, every change of a realtime source makes another.    *)
(* Each reads what it remembers of an incident before its request and      *)
(* writes it after the answer.                                             *)
(***************************************************************************)
EXTENDS Naturals

CONSTANTS
  Poll, Event, \* bound: calls of syncPagerDutyHealth under way at once, by caller
  Incident,    \* the dedup keys
  Scenes,      \* bound: which calls are made, which incidents they look at, how many faults
  MaxChanges,  \* bound: times a condition changes
  MaxFaults    \* bound: crashes, refusals, answers that never come, writes that fail

Db == "db-unavailable"
Unavailable == "outbox-unavailable"
Uncertain == "outbox-uncertain"
Backlog == "outbox-backlog"
WhatsApp == "whatsapp-disconnected"

\* Decided from the poller's monitor, which a restart empties.
Monitored == {"oref-sources-unavailable", "poll-loop-error", "notifier-stale",
              "telegram-bot-stale", "tzevaadom-disconnected"}
\* Decided after a time out of order that the sync itself measures.
Patient == {Db, WhatsApp}

Sync == Poll \cup Event

ASSUME IncidentAssumption ==
  /\ Poll \cap Event = {}
  /\ Db \in Incident /\ Unavailable \in Incident
  /\ Incident \subseteq Monitored \cup Patient \cup {Unavailable, Uncertain, Backlog}
  /\ Scenes \subseteq [calls: SUBSET Sync, looks: SUBSET Incident, faults: 0..MaxFaults]
  /\ \A c \in Scenes : Db \in c.looks /\ (Uncertain \in c.looks <=> Backlog \in c.looks)
  /\ MaxChanges \in Nat /\ MaxFaults \in Nat

VARIABLES
  scene,   \* which of the Scenes it is
  bad,     \* bad[k]: what a check would find; thresholds included but for Patient
  since,   \* since[k], Patient: ...DisconnectedSince is null, recent or long ago
  state,   \* this.state: "triggered", "resolved"; "unknown" without an entry
  file,    \* what a start would read: nothing, when a write was cut off
  sync,    \* sync[s]: where the call is and what it has not begun
  request, \* request[s][k]: the POST under way
  stray,   \* POSTs whose caller has given up or died, not yet at PagerDuty
  open,    \* open[k]: PagerDuty has an incident open
  doubt,   \* doubt[k]: an answer was lost, perhaps as its caller died, or opposite
           \* POSTs were under way at once (history)
  stale,   \* stale[k]: a start read a file older than what was known of k, because
           \* its last write had failed, and k was not answered since (history)
  changes, faults \* so far

vars == <<scene, bad, since, state, file, sync, request, stray, open, doubt, stale,
          changes, faults>>

Action == {"triggered", "resolved"}
Status == Action \cup {"unknown"}
Unknown == [k \in Incident |-> "unknown"]
Request == [to: Action, at: {"sent", "taken"}]
None == [to |-> "none", at |-> "none"]
NoRequest == [k \in Incident |-> None]

\* The task for WhatsApp first asks its provider, the one for the backlog waits for
\* that for uncertain rows; again: poll() has caught an error, nobody catches another.
Call == [at: {"idle", "db", "dbPost", "stats", "rest"}, again: BOOLEAN,
         asking: BOOLEAN, backlog: Action \cup {"none"}]
At(where, again) == [at |-> where, again |-> again, asking |-> FALSE, backlog |-> "none"]
Idle == At("idle", FALSE)

TypeOK ==
  /\ scene \in Scenes
  /\ bad \in [Incident -> BOOLEAN]
  /\ since \in [Patient -> {"never", "recent", "long"}]
  /\ state \in [Incident -> Status]
  /\ file \in [Incident -> Status]
  /\ sync \in [Sync -> Call]
  /\ request \in [Sync -> [Incident -> Request \cup {None}]]
  /\ stray \subseteq Incident \X Action
  /\ open \in [Incident -> BOOLEAN]
  /\ doubt \in [Incident -> BOOLEAN] /\ stale \in [Incident -> BOOLEAN]
  /\ changes \in 0..MaxChanges /\ faults \in 0..MaxFaults

\* The first start: there is no file, and PagerDuty has not heard of the poller.
Init ==
  /\ scene \in Scenes
  /\ bad = [k \in Incident |-> FALSE]
  /\ since = [k \in Patient |-> "never"]
  /\ state = Unknown /\ file = Unknown
  /\ sync = [s \in Sync |-> Idle] /\ request = [s \in Sync |-> NoRequest]
  /\ stray = {} /\ open = [k \in Incident |-> FALSE]
  /\ doubt = [k \in Incident |-> FALSE] /\ stale = [k \in Incident |-> FALSE]
  /\ changes = 0 /\ faults = 0

Fault == faults < scene.faults /\ faults' = faults + 1

Wanted(active) == IF active THEN "triggered" ELSE "resolved"
Nothing == [k \in Incident |-> "none"]
Only(i, to) == [Nothing EXCEPT ![i] = to]

-----------------------------------------------------------------------------
(* PagerDutyIncidentManager.setIncident, up to its request *)

\* POSTs about k under way but for those of s.
Rivals(s, k) == {request[c][k].to : c \in {d \in Sync \ {s} : request[d][k] # None}}
                  \cup {p[2] : p \in {q \in stray : q[1] = k}}

\* What is remembered as wanted is skipped as "unchanged".
Sends(known, wanted, k) == wanted[k] \notin {"none", known[k]}

\* s, whose requests are kept, sends about the incidents in wanted; lost: answers
\* it will not get.
Ask(s, kept, known, wanted, lost) ==
  /\ request' = [request EXCEPT ![s] = [k \in Incident |->
       IF Sends(known, wanted, k) THEN [to |-> wanted[k], at |-> "sent"] ELSE kept[k]]]
  /\ doubt' = [k \in Incident |->
       \/ doubt[k] \/ k \in lost
       \/ Sends(known, wanted, k) /\ Rivals(s, k) \ {wanted[k]} # {}]

-----------------------------------------------------------------------------
(* syncPagerDutyHealth: the database first, then everything else at once *)

\* A poll calls it at the end of its task, one task at a time; a poll that failed
\* calls it outside of any; a realtime source whenever it notifies.
Begin(s, again) ==
  /\ sync[s] = Idle /\ s \in scene.calls
  /\ again => s \in Poll
  /\ s \in Poll /\ ~again => \A p \in Poll : sync[p].at # "idle" => sync[p].again
  /\ sync' = [sync EXCEPT ![s] = At("db", again)]
  /\ UNCHANGED <<scene, bad, since, state, file, request, stray, open, doubt, stale, changes, faults>>

\* The tasks for what the monitor shows: sources, polls, notifier, bot, streams.
MonitorWish(k) == Wanted(bad[k])

\* syncPagerDutyOutboxAvailability: outboxError is null also where the database check
\* has failed and the outbox was not asked.
AvailabilityWish(outboxError) == Wanted(outboxError)

\* syncPagerDutyOutbox: the backlog waits for the answer about uncertain rows.
OutboxWish(k, stats, known) ==
  IF stats /\ (k = Backlog => ~Sends(known, Only(Uncertain, Wanted(bad[Uncertain])), Uncertain))
  THEN Wanted(bad[k]) ELSE "none"

\* The wishes of the tasks that Promise.allSettled starts together.
Wishes(stats, outboxError, known) ==
  [k \in Incident |->
     IF k \notin scene.looks THEN "none"
     ELSE IF k \in Monitored THEN MonitorWish(k)
     ELSE IF k = Unavailable THEN AvailabilityWish(outboxError)
     ELSE IF k \in {Uncertain, Backlog} THEN OutboxWish(k, stats, known)
     ELSE "none"]

\* The call goes on to these tasks.
Rest(s, kept, known, stats, outboxError, lost) ==
  LET wishes == Wishes(stats, outboxError, known) IN
  /\ Ask(s, kept, known, wishes, lost)
  /\ sync' = [sync EXCEPT ![s] =
       [at |-> "rest", again |-> @.again, asking |-> WhatsApp \in scene.looks,
        backlog |-> IF stats /\ Backlog \in scene.looks /\ wishes[Backlog] = "none"
                    THEN Wanted(bad[Backlog]) ELSE "none"]]

\* Requests go out about the database, or what is known makes them unnecessary.
DbWish(s, kept, known, to, lost) ==
  IF known[Db] # to
  THEN /\ Ask(s, kept, known, Only(Db, to), lost)
       /\ sync' = [sync EXCEPT ![s] = At("dbPost", @.again)]
  ELSE IF to = "resolved"
  THEN /\ Ask(s, kept, known, Nothing, lost)
       /\ sync' = [sync EXCEPT ![s] = At("stats", @.again)]
  ELSE Rest(s, kept, known, FALSE, FALSE, lost)

\* Mutant: the time of a disconnection starts again with every failed check.
ForgetsSince(k) == since' = [since EXCEPT ![k] = IF bad[k] THEN "recent" ELSE "never"]

\* dbDisconnectedSince, whatsappDisconnectedSince
Checked(k) ==
  since' = [since EXCEPT ![k] = IF ~bad[k] THEN "never" ELSE IF @ = "never" THEN "recent" ELSE @]

CheckDb(s) ==
  /\ sync[s].at = "db" /\ Checked(Db)
  /\ IF bad[Db] /\ since'[Db] # "long"
     THEN Rest(s, request[s], state, FALSE, FALSE, {})
     ELSE DbWish(s, request[s], state, Wanted(bad[Db]), {})
  /\ UNCHANGED <<scene, bad, state, file, stray, open, stale, changes, faults>>

OutboxStats(s) ==
  /\ sync[s].at = "stats"
  /\ Rest(s, request[s], state, ~bad[Unavailable], bad[Unavailable], {})
  /\ UNCHANGED <<scene, bad, since, state, file, stray, open, stale, changes, faults>>

\* resolveActiveEvolutionInstance has answered.
AskWhatsApp(s) ==
  /\ sync[s].asking /\ sync' = [sync EXCEPT ![s] = [@ EXCEPT !.asking = FALSE]]
  /\ Checked(WhatsApp)
  /\ Ask(s, request[s], state,
         IF bad[WhatsApp] /\ since'[WhatsApp] # "long" THEN Nothing
         ELSE Only(WhatsApp, Wanted(bad[WhatsApp])), {})
  /\ UNCHANGED <<scene, bad, state, file, stray, open, stale, changes, faults>>

\* All tasks are settled, rejected ones only logged.
EndCall(s) ==
  /\ sync[s].at = "rest" /\ ~sync[s].asking /\ request[s] = NoRequest
  /\ sync' = [sync EXCEPT ![s] = Idle]
  /\ UNCHANGED <<scene, bad, since, state, file, request, stray, open, doubt, stale, changes, faults>>

-----------------------------------------------------------------------------
(* The end of a request *)

\* The process starts anew with what it wrote; known: what it knew before.  Answers to
\* what is under way are lost.  Where the last write failed and left the old file, its
\* older statuses are believed again.
Restart(known, written) ==
  /\ state' = written
  /\ file' = written
  /\ sync' = [s \in Sync |-> Idle] /\ request' = [s \in Sync |-> NoRequest]
  /\ \E late \in SUBSET {p \in Incident \X Action :
                           \E s \in Sync : request[s][p[1]] = [to |-> p[2], at |-> "sent"]} :
       stray' = stray \cup late
  /\ since' = [k \in Patient |-> "never"]
  /\ bad' = [k \in Incident |-> bad[k] /\ k \notin Monitored]
  /\ doubt' = [k \in Incident |-> doubt[k] \/ \E s \in Sync : request[s][k] # None]
  /\ stale' = [k \in Incident |->
       written[k] # "unknown" /\ (stale[k] \/ written[k] # known[k])]

Without(s, k) == [request[s] EXCEPT ![k] = None]

\* The answer about uncertain rows was what the task for the backlog waited for.
LeavesBacklog(s, k) ==
  sync' = IF k = Uncertain THEN [sync EXCEPT ![s] = [@ EXCEPT !.backlog = "none"]] ELSE sync

\* The request of s about k ended well; known includes its answer.
Continues(s, k, known) ==
  IF k = Db /\ request[s][k].to = "resolved"
  THEN /\ Ask(s, Without(s, k), known, Nothing, {})
       /\ sync' = [sync EXCEPT ![s] = At("stats", @.again)]
  ELSE IF k = Db
  THEN Rest(s, Without(s, k), known, FALSE, FALSE, {})
  ELSE /\ Ask(s, Without(s, k), known,
              IF k = Uncertain THEN Only(Backlog, sync[s].backlog) ELSE Nothing, {})
       /\ LeavesBacklog(s, k)

\* The task of k threw.  A catch that takes the failed check for a disconnection
\* takes a failed resolve for one, too.
TaskThrows(s, k, known, lost) ==
  IF k = Db
  THEN /\ IF since[Db] = "long" THEN DbWish(s, Without(s, k), known, "triggered", lost)
          ELSE Rest(s, Without(s, k), known, FALSE, FALSE, lost)
       /\ since' = since
  ELSE IF k = WhatsApp /\ request[s][k].to = "resolved"
  THEN /\ Ask(s, Without(s, k), known,
              IF since[k] = "long" THEN Only(k, "triggered") ELSE Nothing, lost)
       /\ since' = [since EXCEPT ![k] = IF @ = "never" THEN "recent" ELSE @]
       /\ UNCHANGED sync
  ELSE /\ Ask(s, Without(s, k), known, Nothing, lost)
       /\ LeavesBacklog(s, k)
       /\ since' = since

\* The request of s about k threw, or what follows its answer.  Where that was the
\* trigger about the database, syncPagerDutyHealth rejects: a realtime source logs
\* it, poll() calls it again, and a second rejection is nobody's: the process ends.
\* After any answer k is not stale; one that is lost leaves doubt instead.
Throws(s, k, known, written, lost) ==
  LET rejects == k = Db /\ request[s][k].to = "triggered" IN
  IF rejects /\ sync[s].again
  THEN Restart(known, written)
  ELSE /\ IF rejects
          THEN /\ Ask(s, NoRequest, known, Nothing, lost)
               /\ sync' = [sync EXCEPT ![s] = IF s \in Poll THEN At("db", TRUE) ELSE Idle]
               /\ since' = since
          ELSE TaskThrows(s, k, known, lost)
       /\ state' = known /\ file' = written /\ bad' = bad
       /\ stale' = [stale EXCEPT ![k] = @ /\ request[s][k].at = "sent"]
       /\ stray' = stray \cup {<<i, request[s][i].to>> :
                                 i \in {j \in lost : request[s][j].at = "sent"}}

Known(s, k) == [state EXCEPT ![k] = request[s][k].to]

Answered(s, k) ==
  /\ request[s][k].at = "taken"
  /\ Continues(s, k, Known(s, k))
  /\ state' = Known(s, k) /\ file' = Known(s, k)
  /\ stale' = [stale EXCEPT ![k] = FALSE]
  /\ UNCHANGED <<scene, bad, since, stray, open, changes, faults>>

\* Mutant: the state is set whatever PagerDuty answered.
RefusedIsRemembered(s, k) ==
  /\ request[s][k].at = "sent" /\ Fault
  /\ Throws(s, k, Known(s, k), file, {})
  /\ UNCHANGED <<scene, open, changes>>

Refused(s, k) ==
  /\ request[s][k].at = "sent" /\ Fault
  /\ Throws(s, k, state, file, {})
  /\ UNCHANGED <<scene, open, changes>>

\* AbortSignal.timeout: the POST may be taken, or may have been.
GivesUp(s, k) ==
  /\ request[s][k] # None /\ Fault
  /\ Throws(s, k, state, file, {k})
  /\ UNCHANGED <<scene, open, changes>>

\* persist() throws with the state set; what it leaves of the file is not whole.
PersistFails(s, k) ==
  /\ request[s][k].at = "taken" /\ Fault
  /\ \E left \in {file, Unknown} : Throws(s, k, Known(s, k), left, {})
  /\ UNCHANGED <<scene, open, changes>>

\* The process dies, perhaps within persist().
Crash ==
  /\ Fault
  /\ \/ Restart(state, file)
     \/ /\ \E s \in Sync, k \in Incident : request[s][k].at = "taken"
        /\ Restart(state, Unknown)
  /\ UNCHANGED <<scene, open, changes>>

-----------------------------------------------------------------------------
(* PagerDuty, the conditions and the clock: external *)

Takes(s, k) ==
  /\ request[s][k].at = "sent"
  /\ request' = [request EXCEPT ![s][k] = [to |-> @.to, at |-> "taken"]]
  /\ open' = [open EXCEPT ![k] = request[s][k].to = "triggered"]
  /\ UNCHANGED <<scene, bad, since, state, file, sync, stray, doubt, stale, changes, faults>>

StrayTaken(k, to) ==
  /\ <<k, to>> \in stray /\ stray' = stray \ {<<k, to>>}
  /\ open' = [open EXCEPT ![k] = to = "triggered"]
  /\ UNCHANGED <<scene, bad, since, state, file, sync, request, doubt, stale, changes, faults>>

Changes(k) ==
  /\ k \in scene.looks /\ changes < MaxChanges /\ changes' = changes + 1
  /\ bad' = [bad EXCEPT ![k] = ~@]
  /\ UNCHANGED <<scene, since, state, file, sync, request, stray, open, doubt, stale, faults>>

TimePasses(k) ==
  /\ since[k] = "recent" /\ since' = [since EXCEPT ![k] = "long"]
  /\ UNCHANGED <<scene, bad, state, file, sync, request, stray, open, doubt, stale, changes, faults>>

-----------------------------------------------------------------------------
CallStep(s) == CheckDb(s) \/ OutboxStats(s) \/ AskWhatsApp(s) \/ EndCall(s)

AnswerStep(s, k) == Takes(s, k) \/ Answered(s, k)

FaultStep(s, k) == Refused(s, k) \/ GivesUp(s, k) \/ PersistFails(s, k)

Next ==
  \/ \E s \in Sync : (\E again \in BOOLEAN : Begin(s, again)) \/ CallStep(s)
  \/ \E s \in Sync, k \in Incident : AnswerStep(s, k) \/ FaultStep(s, k)
  \/ Crash
  \/ \E k \in Incident, to \in Action : StrayTaken(k, to)
  \/ \E k \in Incident : Changes(k)
  \/ \E k \in Patient : TimePasses(k)

Spec == Init /\ [][Next]_vars

\* Polls go on, a call goes on, PagerDuty answers, thresholds are passed.
Fairness ==
  /\ \A p \in Poll : WF_vars(Begin(p, FALSE))
  /\ \A s \in Sync : WF_vars(CallStep(s))
  /\ \A s \in Sync, k \in Incident : WF_vars(AnswerStep(s, k))
  /\ \A k \in Patient : WF_vars(TimePasses(k))

FairSpec == Spec /\ Fairness

-----------------------------------------------------------------------------
(* Properties *)

\* "unchanged" (pagerduty.js:151) skips a request for ever, so what is remembered must
\* be so: however calls overlap and fail, the remembered status of an incident is
\* PagerDuty's, with three exceptions.  An answer was lost, by a time-out or as the
\* poller died; opposite requests were on their way at once; or a write had failed, a
\* start has read the older file it left, and no answer about the incident came since.
KnownIsTrue ==
  \A k \in Incident :
    /\ state[k] # "unknown" /\ ~doubt[k] /\ ~stale[k]
    /\ \A s \in Sync : request[s][k] = None
    /\ \A to \in Action : <<k, to>> \notin stray
    => open[k] = (state[k] = "triggered")

\* While the database is down nobody looks at the outbox.
Visible(k) ==
  /\ k \in {Unavailable, Uncertain, Backlog} => ~bad[Db]
  /\ k \in {Uncertain, Backlog} => ~bad[Unavailable]

\* Through refused requests, failed writes and restarts of the poller, an incident
\* whose condition stays is opened in the end, and one whose condition stays away is
\* closed, with the exceptions of KnownIsTrue: unless an answer about it was lost, an
\* opposite request crossed another, or what is believed of it is for ever what a start
\* has read from a file that a failed write left old.
IncidentsFollow ==
  \A k \in Incident : <>[](~doubt[k] /\ ~stale[k]) =>
    /\ <>[](bad[k] /\ Visible(k)) => <>[]open[k]
    /\ <>[](~bad[k] /\ Visible(k)) => <>[]~open[k]

-----------------------------------------------------------------------------
(* Inductive strengthening *)

\* What a call can have under way where it is: it has no second request about an incident.
CallShape(s) ==
  /\ sync[s].at \in {"idle", "db", "stats"} => request[s] = NoRequest
  /\ sync[s].at = "dbPost" => \A k \in Incident \ {Db} : request[s][k] = None
  /\ sync[s].at = "rest" => request[s][Db] = None
  /\ sync[s].at # "rest" => ~sync[s].asking /\ sync[s].backlog = "none"
  /\ sync[s].asking /\ WhatsApp \in Incident => request[s][WhatsApp] = None
  /\ sync[s].backlog # "none" /\ Backlog \in Incident => request[s][Backlog] = None

\* Requests about an incident that never crossed want the same, and the last one taken
\* made PagerDuty what it is, which is known after its answer until an old file is read.
Agreed(k) ==
  ~doubt[k] =>
    /\ \A to \in Action : <<k, to>> \notin stray
    /\ \A s, c \in Sync : request[s][k] # None /\ request[c][k] # None =>
         request[s][k].to = request[c][k].to
    /\ \A s \in Sync : request[s][k].at = "taken" => open[k] = (request[s][k].to = "triggered")
    /\ state[k] # "unknown" /\ ~stale[k] =>
         \/ open[k] = (state[k] = "triggered")
         \/ \E s \in Sync : request[s][k].at = "taken"

KnownInv == TypeOK /\ (\A s \in Sync : CallShape(s)) /\ (\A k \in Incident : Agreed(k))

=============================================================================
