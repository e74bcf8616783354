------------------------- MODULE AlertDelivery_proofs -------------------------
(* The path of an alert for every value of the constants: AlertDelivery implements both of *)
(* its parts, and a chat gets one message about an event.                                  *)
EXTENDS AlertDelivery, OutboxDelivery_proofs

\* The lemmas about the pipeline.
Proved ==
  INSTANCE AlertPipeline_proofs WITH Key <- Text, Window <- DuplicateWindow, rows <- rowsSeen

-----------------------------------------------------------------------------
(* The parts *)

LEMMA JobsAreKeys ==
  ASSUME NEW a \in Alert
  PROVE  Pipeline!JobsOf(a) \in (SUBSET Key) \ {{}}
<1>1. PICK c \in Chat : TRUE BY KeyAssumption
<1>2. KeyOf[a] \in Text BY ReportAssumption
<1>3. <<KeyOf[a], c>> \in {KeyOf[a]} \X Chat BY <1>1
<1>4. {KeyOf[a]} \X Chat \in SUBSET Key BY <1>2, KeyAssumption
<1>. QED BY <1>3, <1>4 DEF Pipeline!JobsOf

\* A step of the path is one of the outbox with its history.
LEMMA OutboxStep ==
  ASSUME \A s \in Pipeline!Slot : Pipeline!At(s, "enqueueing") => flight[s].alert \in Alert,
         [DeliveryNext]_deliveryVars
  PROVE  [HistoryNext]_historyVars
<1>1. CASE PollerStep \/ UNCHANGED deliveryVars
  BY <1>1 DEF PollerStep, deliveryVars
<1>2. ASSUME NEW s \in Pipeline!Slot, Enqueue(s)
      PROVE  HistoryNext
  <2>1. Pipeline!At(s, "enqueueing") /\ now' = now /\ Remembered
    BY <1>2 DEF Enqueue, Pipeline!Answered, Pipeline!Unanswered
  <2>2. Pipeline!JobsOf(flight[s].alert) \in (SUBSET Key) \ {{}}
    BY <2>1, JobsAreKeys
  <2>3. \E delay \in Stagger : EnqueueMany(Pipeline!JobsOf(flight[s].alert), delay)
    BY <1>2 DEF Enqueue
  <2>. QED BY <2>1, <2>2, <2>3 DEF HistoryNext, Act
<1>3. CASE Deliver
  BY <1>3 DEF Deliver, HistoryNext, Act
<1>4. CASE TimePasses
  BY <1>4 DEF TimePasses, Pipeline!Passes, HistoryNext
<1>. QED BY <1>1, <1>2, <1>3, <1>4 DEF DeliveryNext
-----------------------------------------------------------------------------
(* The pipeline sees the rows of the table *)

\* Two instances with the same substitutions are the same.
LEMMA SamePipeline ==
  /\ Proved!Slot = Pipeline!Slot
  /\ UNCHANGED Proved!vars <=> UNCHANGED Pipeline!vars
  /\ Proved!Init <=> Pipeline!Init
  /\ Proved!Next <=> Pipeline!Next
<1>. USE DEF Pipeline!store, Proved!store, Pipeline!outbox, Proved!outbox, Pipeline!vars,
           Proved!vars, Pipeline!Slot, Proved!Slot, Pipeline!Never, Proved!Never,
           Pipeline!NoIngest, Proved!NoIngest, Pipeline!Flying, Proved!Flying,
           Pipeline!Init, Proved!Init, Pipeline!Rare, Proved!Rare, Pipeline!Suppressed,
           Proved!Suppressed, Pipeline!DeliveredBy, Proved!DeliveredBy,
           Pipeline!RememberDelivered, Proved!RememberDelivered, Pipeline!RememberSeen,
           Proved!RememberSeen, Pipeline!JobsOf, Proved!JobsOf, Pipeline!Accepting,
           Proved!Accepting, Pipeline!Counted, Proved!Counted, Pipeline!FirstStage,
           Proved!FirstStage, Pipeline!Enter, Proved!Enter, Pipeline!IngestPolled,
           Proved!IngestPolled, Pipeline!IngestPushed, Proved!IngestPushed, Pipeline!At,
           Proved!At, Pipeline!GoesTo, Proved!GoesTo, Pipeline!Leaves, Proved!Leaves,
           Pipeline!Abort, Proved!Abort, Pipeline!Answered, Proved!Answered,
           Pipeline!Unanswered, Proved!Unanswered, Pipeline!Enqueue, Proved!Enqueue,
           Pipeline!EnqueueLost, Proved!EnqueueLost, Pipeline!EnqueueRefused,
           Proved!EnqueueRefused, Pipeline!RecordDuplicate, Proved!RecordDuplicate,
           Pipeline!RecordFails, Proved!RecordFails, Pipeline!Pass, Proved!Pass,
           Pipeline!Remember, Proved!Remember, Pipeline!RememberFails,
           Proved!RememberFails, Pipeline!Listings, Proved!Listings, Pipeline!Fetch,
           Proved!Fetch, Pipeline!PollEnds, Proved!PollEnds, Pipeline!SetDelivery,
           Proved!SetDelivery, Pipeline!Dies, Proved!Dies, Pipeline!Loads, Proved!Loads,
           Pipeline!Crash, Proved!Crash,
           Pipeline!CrashInWrite, Proved!CrashInWrite, Pipeline!Youngest, Proved!Youngest,
           Pipeline!SeedDelivered, Proved!SeedDelivered, Pipeline!Seeds, Proved!Seeds,
           Pipeline!Start, Proved!Start, Pipeline!StartUnwritable, Proved!StartUnwritable,
           Pipeline!Work, Proved!Work, Pipeline!Passes, Proved!Passes, Pipeline!Tick,
           Proved!Tick, Pipeline!IngestStep, Proved!IngestStep, Pipeline!SlotStep,
           Proved!SlotStep, Pipeline!PollerStep, Proved!PollerStep, Pipeline!WorldStep,
           Proved!WorldStep, Pipeline!Next, Proved!Next, Pipeline!Table!NoRow,
           Proved!Table!NoRow, Pipeline!Table!OpenRow, Proved!Table!OpenRow,
           Pipeline!Table!DoneRow, Proved!Table!DoneRow, Pipeline!Table!Free,
           Proved!Table!Free, Pipeline!Table!Submit, Proved!Table!Submit,
           Pipeline!Table!Settle, Proved!Table!Settle, Pipeline!Table!Reopen,
           Proved!Table!Reopen, Pipeline!Table!Work, Proved!Table!Work
<1>1. Proved!Slot = Pipeline!Slot OBVIOUS
<1>2. UNCHANGED Proved!vars <=> UNCHANGED Pipeline!vars OBVIOUS
<1>3. Proved!Init <=> Pipeline!Init OBVIOUS
<1>4. Proved!Next <=> Pipeline!Next OBVIOUS
<1>. QED BY ONLY <1>1, <1>2, <1>3, <1>4

\* The chats a commit inserts for are those the pipeline takes for free.
LEMMA InsertedAreAccepting ==
  ASSUME TypeOK, HistoryTypeOK, AgeInv, NEW a \in Alert
  PROVE  Inserted(a) = Pipeline!Accepting(a)
<1>. DEFINE K == Pipeline!JobsOf(a)
<1>1. ASSUME NEW c \in Chat
      PROVE  <<KeyOf[a], c>> \in Insertable(DeleteExpired(table, K), K)
               <=> Pipeline!Table!Free(<<KeyOf[a], c>>)
  <2>. DEFINE k == <<KeyOf[a], c>>
  <2>1. k \in K /\ k \in Key
    BY KeyAssumption, ReportAssumption DEF Pipeline!JobsOf
  <2>2. k \in Insertable(DeleteExpired(table, K), K)
          <=> \A j \in JobId : Exists(table, j) /\ table[j].key = k => Expired(table, j)
    BY <2>1 DEF Insertable, DeleteExpired, Exists, NoRow
  <2>3. Rows!Free(k) <=> Pipeline!Table!Free(k)
    BY DEF Rows!Free, Pipeline!Table!Free
  <2>. QED BY <2>1, <2>2, <2>3, FreeIsExpired
<1>. QED BY <1>1 DEF Inserted, Pipeline!Accepting
\* What an ingest's commit leaves in the table is what the pipeline expects of it.
LEMMA EnqueueIsThePipelines ==
  ASSUME TypeOK, TypeOK', HistoryTypeOK, AgeInv, AgeInv', NEW s \in Pipeline!Slot,
         flight[s].alert \in Alert, Enqueue(s)
  PROVE  Pipeline!Enqueue(s) \/ Pipeline!EnqueueLost(s)
<1>. DEFINE a == flight[s].alert
            K == Pipeline!JobsOf(a)
<1>1. now' = now /\ Remembered
  BY DEF Enqueue, Pipeline!Answered, Pipeline!Unanswered
<1>2. PICK delay \in Stagger : EnqueueMany(K, delay)
  BY DEF Enqueue
<1>3. K \in (SUBSET Key) \ {{}}
  BY JobsAreKeys
<1>4. KeyInv'
  BY DEF AgeInv
<1>5. Rows!Submit(K)
  BY <1>1, <1>2, <1>3, <1>4, EnqueueSeen
<1>6. Pipeline!Table!Submit(K)
  BY <1>5, KeyAssumption
     DEF Rows!Submit, Rows!Free, Rows!OpenRow,
         Pipeline!Table!Submit, Pipeline!Table!Free, Pipeline!Table!OpenRow
<1>7. Inserted(a) = Pipeline!Accepting(a)
  BY InsertedAreAccepting
<1>8. Pipeline!Answered(s, Inserted(a)) \/ Pipeline!Unanswered(s, Inserted(a))
  BY DEF Enqueue
<1>. QED BY <1>6, <1>7, <1>8 DEF Pipeline!Enqueue, Pipeline!EnqueueLost

LEMMA DeliverIsThePipelines ==
  ASSUME TypeOK, TypeOK', HistoryTypeOK, AgeInv, AgeInv', Deliver
  PROVE  [Pipeline!Next]_(Pipeline!vars)
<1>1. WorkerStep /\ now' = now /\ Remembered /\ UNCHANGED pollerVars
  BY DEF Deliver
<1>2. rowsSeen' = rowsSeen \/ Rows!Work
  BY <1>1, WorkSeen DEF AgeInv
<1>3. CASE rowsSeen' = rowsSeen
  BY <1>1, <1>3 DEF pollerVars, Pipeline!vars, Pipeline!store, Pipeline!outbox
<1>4. CASE Rows!Work
  <2>1. Pipeline!Table!Work
    BY <1>4, KeyAssumption
       DEF Rows!Work, Rows!Settle, Rows!Reopen, Rows!DoneRow, Rows!OpenRow,
           Pipeline!Table!Work, Pipeline!Table!Settle, Pipeline!Table!Reopen,
           Pipeline!Table!DoneRow, Pipeline!Table!OpenRow
  <2>2. Pipeline!Work
    BY <1>1, <2>1 DEF Pipeline!Work, Pipeline!store, pollerVars
  <2>. QED BY <2>2 DEF Pipeline!Next, Pipeline!WorldStep
<1>. QED BY <1>2, <1>3, <1>4

\* Every step of the path is one of the pipeline, on the rows read off the table.
LEMMA PipelineStep ==
  ASSUME TypeOK, TypeOK', HistoryTypeOK, AgeInv, AgeInv',
         \A s \in Pipeline!Slot : Pipeline!At(s, "enqueueing") => flight[s].alert \in Alert,
         [DeliveryNext]_deliveryVars
  PROVE  [Pipeline!Next]_(Pipeline!vars)
<1>1. CASE UNCHANGED deliveryVars
  <2>1. UNCHANGED <<table, nextId, now, settledAt, inserted>>
    BY <1>1 DEF deliveryVars, historyVars, vars
  <2>2. rowsSeen' = rowsSeen
    BY <2>1 DEF rowsSeen, RowOf, StatusOf, Terminal, Exists
  <2>. QED BY <1>1, <2>1, <2>2
       DEF deliveryVars, pollerVars, Pipeline!vars, Pipeline!store, Pipeline!outbox
<1>2. CASE PollerStep
  BY <1>2 DEF PollerStep, Pipeline!Next, Pipeline!SlotStep
<1>3. ASSUME NEW s \in Pipeline!Slot, Enqueue(s)
      PROVE  Pipeline!Next
  <2>1. flight[s].alert \in Alert
    BY <1>3 DEF Enqueue, Pipeline!Answered, Pipeline!Unanswered
  <2>2. Pipeline!Enqueue(s) \/ Pipeline!EnqueueLost(s)
    BY <1>3, <2>1, EnqueueIsThePipelines
  <2>. QED BY <2>2 DEF Pipeline!Next, Pipeline!SlotStep
<1>4. CASE Deliver
  BY <1>4, DeliverIsThePipelines
<1>5. CASE TimePasses
  <2>1. rowsSeen' = rowsSeen
    BY <1>5, ClockSeen DEF TimePasses
  <2>2. Pipeline!Tick
    BY <1>5, <2>1 DEF TimePasses, Pipeline!Tick
  <2>. QED BY <2>2 DEF Pipeline!Next, Pipeline!WorldStep
<1>. QED BY <1>1, <1>2, <1>3, <1>4, <1>5 DEF DeliveryNext

-----------------------------------------------------------------------------
(* What holds of the path as a whole *)

PathInv == TypeOK /\ HistoryTypeOK /\ AgeInv /\ Proved!TypeInv

LEMMA FlightHasAlert ==
  ASSUME PathInv
  PROVE  \A s \in Pipeline!Slot : Pipeline!At(s, "enqueueing") => flight[s].alert \in Alert
BY Proved!SlotTypes, SamePipeline, ReportAssumption, OutboxAssumption, HistoryAssumption
   DEF PathInv, Proved!TypeInv, Pipeline!At, Pipeline!Flying, Proved!Flying,
       Pipeline!NoIngest, Proved!NoIngest

LEMMA PathStep ==
  ASSUME PathInv, [DeliveryNext]_deliveryVars
  PROVE  /\ [HistoryNext]_historyVars /\ [Pipeline!Next]_(Pipeline!vars)
         /\ PathInv'
<1>1. \A s \in Pipeline!Slot : Pipeline!At(s, "enqueueing") => flight[s].alert \in Alert
  BY FlightHasAlert
<1>2. [HistoryNext]_historyVars
  BY <1>1, OutboxStep
<1>3. TypeOK /\ HistoryTypeOK /\ AgeInv
  BY DEF PathInv
<1>4. TypeOK'
  BY <1>2, <1>3, HistoryIsNext, TypeStep
<1>5. HistoryTypeOK'
  BY <1>2, <1>3, HistoryTypeStep
<1>6. AgeInv'
  BY <1>2, <1>3, <1>4, AgeStep
<1>7. [Pipeline!Next]_(Pipeline!vars)
  BY <1>1, <1>3, <1>4, <1>6, PipelineStep
<1>8. Proved!TypeInv'
  <2>1. [Proved!Next]_(Proved!vars)
    BY <1>7, SamePipeline
  <2>. QED BY <2>1, Proved!TypeStep, ReportAssumption, OutboxAssumption, HistoryAssumption
           DEF PathInv
<1>. QED BY <1>2, <1>4, <1>5, <1>6, <1>7, <1>8 DEF PathInv
LEMMA PathStart ==
  ASSUME DeliveryInit
  PROVE  HistoryInit /\ Pipeline!Init /\ PathInv
<1>1. HistoryInit BY DEF DeliveryInit
<1>2. Rows!Init BY <1>1, RowsStart
<1>3. Pipeline!Init
  BY <1>2, KeyAssumption
     DEF DeliveryInit, Rows!Init, Rows!NoRow, Pipeline!Init, Pipeline!Table!NoRow
<1>4. TypeOK /\ HistoryTypeOK /\ AgeInv
  BY <1>1, AgesAtTheStart
<1>5. Proved!TypeInv
  <2>1. Proved!Init BY <1>3, SamePipeline
  <2>. QED BY <2>1, Proved!TypeInit, ReportAssumption, OutboxAssumption, HistoryAssumption
<1>. QED BY <1>1, <1>3, <1>4, <1>5 DEF PathInv

\* The path is one of the outbox: what is proved of OutboxDelivery holds of it.
THEOREM PathKeepsOutbox == DeliverySpec => HistorySpec
<1>1. DeliveryInit => HistoryInit /\ PathInv
  BY PathStart
<1>2. PathInv /\ [DeliveryNext]_deliveryVars => [HistoryNext]_historyVars /\ PathInv'
  BY PathStep
<1>. QED BY <1>1, <1>2, PTL DEF DeliverySpec, HistorySpec

\* To those who enqueue, the table of the path is OutboxRows.
THEOREM PathKeepsRows == DeliverySpec => KeepsRows
BY PathKeepsOutbox, OutboxKeepsRows, PTL

\* The path is one of the pipeline, on rows read off the table: whatever AlertPipeline
\* guarantees on the outbox it assumes, it guarantees on the table and its workers.
THEOREM PathKeepsPipeline == DeliverySpec => KeepsPipeline
<1>1. DeliveryInit => Pipeline!Init /\ PathInv
  BY PathStart
<1>2. PathInv /\ [DeliveryNext]_deliveryVars => [Pipeline!Next]_(Pipeline!vars) /\ PathInv'
  BY PathStep
<1>. QED BY <1>1, <1>2, PTL DEF DeliverySpec, KeepsPipeline, Pipeline!Spec
-----------------------------------------------------------------------------
(* One message per event *)

LEMMA CopiesTypes == PathInv => copies \in [Alert \X Chat -> Nat]
BY DEF PathInv, Proved!TypeInv, Proved!TypeOK

\* Only a commit counts.
LEMMA OthersCountNothing ==
  ASSUME TypeOK, PollerStep \/ Deliver \/ TimePasses
  PROVE  copies' = copies /\ jobOf' = jobOf /\ nextId' = nextId
<1>1. CASE PollerStep
  <2>1. Pipeline!PollerStep => copies' = copies
    BY DEF Pipeline!PollerStep, Pipeline!IngestPolled, Pipeline!Enter, Pipeline!PollEnds,
           Pipeline!SetDelivery, Pipeline!Crash, Pipeline!Dies, Pipeline!Fetch,
           Pipeline!Start, Pipeline!StartUnwritable, Pipeline!Seeds, Pipeline!outbox
  <2>2. ASSUME NEW s \in Pipeline!Slot, Pipeline!IngestStep(s) PROVE copies' = copies
    BY <2>2
       DEF Pipeline!IngestStep, Pipeline!IngestPushed, Pipeline!Enter,
           Pipeline!EnqueueRefused, Pipeline!RecordDuplicate, Pipeline!RecordFails,
           Pipeline!Pass, Pipeline!Remember, Pipeline!RememberFails,
           Pipeline!CrashInWrite, Pipeline!Dies, Pipeline!outbox
  <2>. QED BY <1>1, <2>1, <2>2 DEF PollerStep, historyVars, vars
<1>2. CASE Deliver
  <2>1. ASSUME NEW w \in Worker, LoopStep(w) \/ Crash(w) PROVE nextId' = nextId
    BY <2>1 DEF LoopStep, Recover, ReserveBatch, FinishTick, Restart, Crash
  <2>2. ASSUME NEW w \in Worker, NEW j \in JobId, JobStep(w, j) \/ JobFault(w, j)
        PROVE  nextId' = nextId
    BY <2>2, JobStepTouches DEF OnlyTouches
  <2>. QED BY <1>2, <2>1, <2>2 DEF Deliver, WorkerStep, pollerVars
<1>3. CASE TimePasses
  BY <1>3 DEF TimePasses, Pipeline!Passes, Tick
<1>. QED BY <1>1, <1>2, <1>3

\* A commit draws an id of its own for every chat it inserts a row for, and counts it.
LEMMA EnqueueCounts ==
  ASSUME TypeOK, NEW s, flight[s].alert \in Alert, Enqueue(s)
  PROVE  LET a == flight[s].alert
         IN  /\ nextId' \in Int /\ nextId <= nextId'
             /\ \A j \in JobId : nextId <= j /\ j < nextId' =>
                  \E c \in Inserted(a) : jobOf'[j] = <<a, c>>
             /\ \A i, j \in JobId :
                  /\ nextId <= i /\ i < nextId' /\ nextId <= j /\ j < nextId'
                  /\ jobOf'[i] = jobOf'[j]
                  => i = j
             /\ \A j \in JobId : ~(nextId <= j /\ j < nextId') => jobOf'[j] = jobOf[j]
             /\ copies' = [p \in Alert \X Chat |->
                  IF p[1] = a /\ p[2] \in Inserted(a) THEN copies[p] + 1 ELSE copies[p]]
<1>. DEFINE a == flight[s].alert
            K == Pipeline!JobsOf(a)
            cleaned == DeleteExpired(table, K)
            fresh == Insertable(cleaned, K)
            ids == nextId..(nextId + Cardinality(fresh) - 1)
<1>1. copies' = [p \in Alert \X Chat |->
        IF p[1] = a /\ p[2] \in Inserted(a) THEN copies[p] + 1 ELSE copies[p]]
  BY DEF Enqueue, Pipeline!Answered, Pipeline!Unanswered, Pipeline!Counted
<1>2. PICK delay \in Stagger : EnqueueMany(K, delay)
  BY DEF Enqueue
<1>3. PICK keyAt \in [ids -> fresh] :
        /\ \A i, j \in ids : keyAt[i] = keyAt[j] => i = j
        /\ table' = InsertJobs(cleaned, keyAt, delay)
  BY <1>2 DEF EnqueueMany
<1>4. nextId' = nextId + Cardinality(fresh)
  BY <1>2 DEF EnqueueMany
<1>5. fresh \subseteq K /\ Cardinality(fresh) \in Nat
  <2>1. K \in SUBSET Key BY JobsAreKeys
  <2>. QED BY <2>1, FreshIsFinite DEF Insertable
<1>6. nextId \in Nat
  BY OutboxAssumption DEF TypeOK
<1>7. \A j \in JobId : nextId <= j /\ j < nextId' <=> j \in ids
  BY <1>4, <1>5, <1>6 DEF JobId
<1>8. ASSUME NEW j \in JobId, j \in ids
      PROVE  /\ jobOf'[j] = <<a, keyAt[j][2]>> /\ keyAt[j] = <<KeyOf[a], keyAt[j][2]>>
             /\ keyAt[j][2] \in Inserted(a)
  <2>1. keyAt[j] \in fresh /\ keyAt[j] \in {KeyOf[a]} \X Chat
    BY <1>3, <1>5, <1>8 DEF Pipeline!JobsOf
  <2>2. table'[j].key = keyAt[j]
    BY <1>3, <1>8 DEF InsertJobs, PendingRow, NoRow
  <2>3. jobOf'[j] = <<a, table'[j].key[2]>>
    BY <1>7, <1>8 DEF Enqueue
  <2>. QED BY <2>1, <2>2, <2>3 DEF Inserted
<1>9. \A j \in JobId : j \notin ids => jobOf'[j] = jobOf[j]
  BY <1>7 DEF Enqueue
<1>10. ASSUME NEW i \in JobId, NEW j \in JobId, i \in ids, j \in ids, jobOf'[i] = jobOf'[j]
       PROVE  i = j
  <2>1. keyAt[i][2] = keyAt[j][2] BY <1>8, <1>10
  <2>2. keyAt[i] = keyAt[j] BY <1>8, <1>10, <2>1
  <2>. QED BY <1>3, <1>10, <2>2
<1>. QED BY <1>1, <1>4, <1>5, <1>6, <1>7, <1>8, <1>9, <1>10
LEMMA CountingStart ==
  ASSUME DeliveryInit
  PROVE  JobsAreCounted
<1>1. \A j \in JobId : jobOf[j] = NoJob
  BY DEF DeliveryInit
<1>2. jobOf \in [JobId -> (Alert \X Chat) \cup {NoJob}]
  BY DEF DeliveryInit
<1>. QED BY <1>1, <1>2 DEF JobsAreCounted

LEMMA CountingStep ==
  ASSUME PathInv, JobsAreCounted, [DeliveryNext]_deliveryVars
  PROVE  JobsAreCounted'
<1>1. ASSUME copies' = copies, jobOf' = jobOf, nextId' = nextId PROVE JobsAreCounted'
  BY <1>1 DEF JobsAreCounted
<1>2. ASSUME NEW s \in Pipeline!Slot, Enqueue(s) PROVE JobsAreCounted'
  <2>. DEFINE a == flight[s].alert
              New(j) == nextId <= j /\ j < nextId'
  <2>1. a \in Alert
    BY <1>2, FlightHasAlert DEF Enqueue, Pipeline!Answered, Pipeline!Unanswered
  <2>2. /\ nextId' \in Int /\ nextId <= nextId'
        /\ \A j \in JobId : New(j) => \E c \in Inserted(a) : jobOf'[j] = <<a, c>>
        /\ \A i, j \in JobId : New(i) /\ New(j) /\ jobOf'[i] = jobOf'[j] => i = j
        /\ \A j \in JobId : ~New(j) => jobOf'[j] = jobOf[j]
        /\ copies' = [p \in Alert \X Chat |->
             IF p[1] = a /\ p[2] \in Inserted(a) THEN copies[p] + 1 ELSE copies[p]]
    BY <1>2, <2>1, EnqueueCounts DEF PathInv
  <2>. HIDE DEF New
  <2>3. Inserted(a) \subseteq Chat BY DEF Inserted
  <2>4. jobOf' \in [JobId -> (Alert \X Chat) \cup {NoJob}]
    <3>1. \A j \in JobId : jobOf'[j] \in (Alert \X Chat) \cup {NoJob}
      BY <2>1, <2>2, <2>3 DEF JobsAreCounted
    <3>2. \E f : jobOf' = [j \in JobId |-> f[j]]
      <4>1. jobOf' = [j \in JobId |-> jobOf'[j]]
        BY <1>2 DEF Enqueue
      <4>. QED BY <4>1
    <3>. QED BY <3>1, <3>2
  <2>5. \A j \in JobId : nextId' <= j => jobOf'[j] = NoJob
    <3>1. nextId \in Nat BY OutboxAssumption DEF PathInv, TypeOK
    <3>. QED BY <2>2, <3>1 DEF JobsAreCounted, JobId, New
  <2>6. ASSUME NEW p \in Alert \X Chat
        PROVE  /\ copies'[p] >= copies[p] /\ copies[p] \in Nat /\ copies'[p] \in Nat
               /\ \A j \in JobId : New(j) /\ jobOf'[j] = p => copies'[p] >= copies[p] + 1
    <3>1. copies[p] \in Nat BY CopiesTypes
    <3>2. ASSUME NEW j \in JobId, New(j), jobOf'[j] = p PROVE p[1] = a /\ p[2] \in Inserted(a)
      BY <2>2, <3>2
    <3>3. copies'[p] = IF p[1] = a /\ p[2] \in Inserted(a) THEN copies[p] + 1 ELSE copies[p]
      BY <2>2
    <3>. QED BY <3>1, <3>2, <3>3
  <2>7. ASSUME NEW i \in JobId, NEW j \in JobId, jobOf'[i] # NoJob, jobOf'[j] = jobOf'[i]
        PROVE  copies'[jobOf'[i]] >= (IF i = j THEN 1 ELSE 2)
    <3>. DEFINE p == jobOf'[i]
    <3>1. p \in Alert \X Chat BY <2>4, <2>7
    <3>2. CASE ~New(i) /\ ~New(j)
      <4>1. jobOf[i] = p /\ jobOf[j] = p BY <2>2, <2>7, <3>2
      <4>2. copies[p] >= (IF i = j THEN 1 ELSE 2) BY <2>7, <4>1 DEF JobsAreCounted
      <4>3. copies'[p] >= copies[p] /\ copies[p] \in Nat /\ copies'[p] \in Nat BY <2>6, <3>1
      <4>. QED BY <4>2, <4>3
    <3>3. CASE New(i) /\ New(j)
      <4>1. i = j BY <2>2, <2>7, <3>3
      <4>2. copies'[p] >= copies[p] + 1 /\ copies[p] \in Nat /\ copies'[p] \in Nat
        BY <2>6, <3>1, <3>3
      <4>. QED BY <4>1, <4>2
    <3>4. ASSUME NEW h \in {i, j}, ~New(h), NEW g \in {i, j}, New(g) PROVE copies'[p] >= 2
      <4>1. jobOf[h] = p BY <2>2, <2>7, <3>4
      <4>2. copies[p] >= 1 BY <2>7, <4>1 DEF JobsAreCounted
      <4>3. copies'[p] >= copies[p] + 1 /\ copies[p] \in Nat /\ copies'[p] \in Nat
        BY <2>6, <2>7, <3>1, <3>4
      <4>. QED BY <4>2, <4>3
    <3>5. CASE i = j
      BY <3>2, <3>3, <3>5
    <3>6. CASE i # j
      BY <3>2, <3>3, <3>4, <3>6
    <3>. QED BY <3>5, <3>6
  <2>. QED BY <2>4, <2>5, <2>7 DEF JobsAreCounted
<1>3. CASE PollerStep \/ Deliver \/ TimePasses
  BY <1>1, <1>3, OthersCountNothing DEF PathInv
<1>4. CASE UNCHANGED deliveryVars
  BY <1>1, <1>4 DEF deliveryVars, pollerVars, historyVars, vars
<1>. QED BY <1>2, <1>3, <1>4 DEF DeliveryNext

\* What AlertPipeline needs to enqueue an event once, and the workers to send a row once.
CarefulPath ==
  /\ 2 * MaxFlight < DuplicateWindow
  /\ RareKinds \subseteq {"refused", "mute"}
  /\ ~MayOverrun /\ HonestReports

LEMMA PathAlways ==
  DeliverySpec => [](PathInv /\ JobsAreCounted) /\ Proved!Spec
<1>1. DeliveryInit => PathInv /\ JobsAreCounted /\ Proved!Init
  BY PathStart, CountingStart, SamePipeline
<1>2. PathInv /\ JobsAreCounted /\ [DeliveryNext]_deliveryVars => PathInv' /\ JobsAreCounted'
  BY PathStep, CountingStep
<1>3. PathInv /\ [DeliveryNext]_deliveryVars => [Proved!Next]_(Proved!vars)
  BY PathStep, SamePipeline
<1>. QED BY <1>1, <1>2, <1>3, PTL DEF DeliverySpec, Proved!Spec

LEMMA PathSendsOnce ==
  ASSUME CarefulPath
  PROVE  DeliverySpec => []AtMostOnce
<1>1. Spec => []AtMostOnce
  BY DeliveredAtMostOnce DEF CarefulPath
<1>2. HistoryInit => Init BY DEF HistoryInit
<1>3. [HistoryNext]_historyVars => [Next]_vars BY HistoryIsNext
<1>4. HistorySpec => Spec BY <1>2, <1>3, PTL DEF HistorySpec, Spec
<1>. QED BY <1>1, <1>4, PathKeepsOutbox, PTL

\* Of the rows inserted for an event and a chat there is one, and it is sent once.
LEMMA OneRowOneMessage ==
  PathInv /\ JobsAreCounted /\ Proved!OncePerEvent /\ AtMostOnce => OneMessagePerEvent
<1>. SUFFICES ASSUME PathInv, JobsAreCounted, Proved!OncePerEvent, AtMostOnce,
                     NEW i \in JobId, NEW j \in JobId,
                     jobOf[i] # NoJob, jobOf[j] # NoJob,
                     Pipeline!SameEvent(jobOf[i][1], jobOf[j][1]), jobOf[i][2] = jobOf[j][2]
              PROVE  accepted[i] + (IF i = j THEN 0 ELSE accepted[j]) <= 1
  BY DEF OneMessagePerEvent
<1>1. accepted[i] \in Nat /\ accepted[i] <= 1
  BY DEF PathInv, TypeOK, AtMostOnce
<1>2. i = j
  <2>1. jobOf[i] \in Alert \X Chat /\ jobOf[j] \in Alert \X Chat
    BY DEF JobsAreCounted
  <2>2. PICK a \in Alert, b \in Alert, c \in Chat : jobOf[i] = <<a, c>> /\ jobOf[j] = <<b, c>>
    BY <2>1
  <2>3. copies[<<a, c>>] \in Nat /\ copies[<<b, c>>] \in Nat
    BY CopiesTypes
  <2>4. copies[<<a, c>>] >= 1 /\ copies[<<b, c>>] >= 1
    BY <2>2 DEF JobsAreCounted
  <2>5. a = b /\ i # j => copies[<<a, c>>] >= 2
    BY <2>2 DEF JobsAreCounted
  <2>6. copies[<<a, c>>] + (IF a = b THEN 0 ELSE copies[<<b, c>>]) <= 1
    BY <2>2 DEF Proved!OncePerEvent, Proved!SameEvent, Pipeline!SameEvent
  <2>. QED BY <2>3, <2>4, <2>5, <2>6
<1>. QED BY <1>1, <1>2

\* However often, by whatever sources and however overlapping an event is reported, and
\* however workers crash, retry and recover, a chat gets one message about it; with one
\* chat, ingests shorter than half the window, no lost memory, leases that are kept and
\* senders that do not call an accepted message failed.
THEOREM EventIsDeliveredOnce ==
  ASSUME CarefulPath, Proved!OneChat
  PROVE  DeliverySpec => []OneMessagePerEvent
<1>1. Proved!Careful
  BY DEF CarefulPath, Proved!Careful
<1>2. Proved!Spec => []Proved!OncePerEvent
  BY <1>1, Proved!PipelineEnqueuesOnce, ReportAssumption, OutboxAssumption, HistoryAssumption
<1>. QED BY <1>2, PathAlways, PathSendsOnce, OneRowOneMessage, PTL

\* The same for every one of any number of chats, if waves with one text are apart and
\* alerts are let through promptly.
THEOREM EventIsDeliveredOncePerChat ==
  ASSUME CarefulPath, Proved!WavesApart
  PROVE  DeliverySpec /\ []Pipeline!Prompt => []OneMessagePerEvent
<1>1. Proved!Careful
  BY DEF CarefulPath, Proved!Careful
<1>2. Proved!Spec /\ []Proved!Prompt => []Proved!OncePerEvent
  BY <1>1, Proved!PipelineEnqueuesOncePerChat, ReportAssumption, OutboxAssumption,
     HistoryAssumption
<1>3. Pipeline!Prompt => Proved!Prompt
  BY DEF Pipeline!Prompt, Proved!Prompt, Pipeline!At, Proved!At, Pipeline!Flying,
         Proved!Flying, Pipeline!NoIngest, Proved!NoIngest, Pipeline!Slot, Proved!Slot
<1>. QED BY <1>2, <1>3, PathAlways, PathSendsOnce, OneRowOneMessage, PTL
=============================================================================
