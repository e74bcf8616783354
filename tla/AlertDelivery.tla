---------------------------- MODULE AlertDelivery ----------------------------
(***************************************************************************)
(* The path of an alert, from the sources' reports to the chats: the       *)
(* pipeline of the poller (AlertPipeline) on top of the outbox and its     *)
(* workers (OutboxDelivery).  They share the clock and the table: an       *)
(* ingest's enqueue is a transaction of enqueueMany, and goes on with the  *)
(* rows that one answers.                                                  *)
(***************************************************************************)
EXTENDS OutboxHistory

CONSTANTS
  Alert, Source, Polled, Text, Chat, SourceOf, KeyOf, EventAt, Poll, Callback,
  MaxFlight, RareKinds, MaxRare,  \* those of AlertPipeline; Text: its keys
  NoJob

\* buildDeliveryKey: type, text and locations of the alert, and the chat.  A sink without
\* targets is not asked.
ASSUME KeyAssumption == Key = Text \X Chat /\ Chat # {} /\ NoJob \notin Alert \X Chat

\* PipelineAssumption, of the pipeline below.
ASSUME ReportAssumption ==
  /\ Polled \subseteq Source
  /\ SourceOf \in [Alert -> Source] /\ KeyOf \in [Alert -> Text]
  /\ EventAt \in [Alert -> Nat]
  /\ Poll \notin Callback
  /\ MaxFlight \in Nat /\ MaxRare \in Nat
  /\ RareKinds \subseteq {"crash", "torn", "disk", "refused", "lost", "mute"}

VARIABLES
  up, enabled, tail, flight, seen, seenFile, delivered, deliveredFile,
  copies, excused, rare,  \* those of AlertPipeline
  jobOf  \* jobOf[j]: the alert and the chat row j was inserted for (history)

pollerVars ==
  <<up, enabled, tail, flight, seen, seenFile, delivered, deliveredFile, copies, excused, rare>>
deliveryVars == <<historyVars, pollerVars, jobOf>>

\* The rows the pipeline sees are those of the table.
Pipeline ==
  INSTANCE AlertPipeline WITH Key <- Text, Window <- DuplicateWindow, rows <- rowsSeen

DeliveryInit ==
  /\ HistoryInit
  /\ up = FALSE /\ enabled = TRUE
  /\ tail = <<>> /\ flight = [s \in Pipeline!Slot |-> Pipeline!NoIngest]
  /\ seen = {} /\ seenFile = {}
  /\ delivered = [k \in Text |-> Pipeline!Never] /\ deliveredFile = delivered
  /\ copies = [p \in Alert \X Chat |-> 0]
  /\ excused = {} /\ rare = 0
  /\ jobOf = [j \in JobId |-> NoJob]

\* The poller without its outbox.
PollerStep ==
  /\ UNCHANGED <<historyVars, jobOf>>
  /\ Pipeline!PollerStep \/ \E s \in Pipeline!Slot : Pipeline!IngestStep(s)

\* Mutant: a commit is answered with all the chats it was asked for.
InsertedForAll(a) == Chat

\* enqueueMany: the items whose INSERT returned a row.
Inserted(a) ==
  LET K == Pipeline!JobsOf(a)
  IN  {c \in Chat : <<KeyOf[a], c>> \in Insertable(DeleteExpired(table, K), K)}

\* createNotificationOutboxAlertSink.dispatch, with its transaction.
Enqueue(s) ==
  LET a == flight[s].alert
  IN  /\ Pipeline!Answered(s, Inserted(a)) \/ Pipeline!Unanswered(s, Inserted(a))
      /\ \E delay \in Stagger : EnqueueMany(Pipeline!JobsOf(a), delay)
      /\ Remembered
      /\ jobOf' = [j \in JobId |->
           IF nextId <= j /\ j < nextId' THEN <<a, table'[j].key[2]>> ELSE jobOf[j]]

Deliver == WorkerStep /\ now' = now /\ Remembered /\ UNCHANGED <<pollerVars, jobOf>>

TimePasses == Tick /\ Pipeline!Passes /\ Remembered /\ UNCHANGED jobOf

DeliveryNext ==
  PollerStep \/ (\E s \in Pipeline!Slot : Enqueue(s)) \/ Deliver \/ TimePasses

DeliverySpec == DeliveryInit /\ [][DeliveryNext]_deliveryVars

-----------------------------------------------------------------------------
\* Poller, table and workers together are AlertPipeline, whose rows are read off the
\* table: what an ingest is told is what OutboxRows tells it.
KeepsPipeline == Pipeline!Spec

\* However often and by whatever sources an event is reported, and however workers retry,
\* restart and recover, a chat gets one message about it.
OneMessagePerEvent ==
  \A i, j \in JobId :
    /\ jobOf[i] # NoJob /\ jobOf[j] # NoJob
    /\ Pipeline!SameEvent(jobOf[i][1], jobOf[j][1]) /\ jobOf[i][2] = jobOf[j][2]
    => accepted[i] + (IF i = j THEN 0 ELSE accepted[j]) <= 1

\* Inductive, for OneMessagePerEvent: every row inserted for an alert has been counted.
JobsAreCounted ==
  /\ jobOf \in [JobId -> (Alert \X Chat) \cup {NoJob}]
  /\ \A j \in JobId : nextId <= j => jobOf[j] = NoJob
  /\ \A i, j \in JobId : jobOf[i] # NoJob /\ jobOf[j] = jobOf[i] =>
       copies[jobOf[i]] >= (IF i = j THEN 1 ELSE 2)
=============================================================================
