------------------------ MODULE OutboxDelivery_proofs ------------------------
(* Theorems about OutboxDelivery for every value of its constants, and that it implements  *)
(* DeliveryContract and OutboxRows.                                                         *)
EXTENDS OutboxContract, OutboxHistory, FiniteSetTheorems, TLAPS

-----------------------------------------------------------------------------
(* The statements of the table map tables to tables. *)

LEMMA ConstantTypes ==
  /\ NoRow \in Row /\ NoTask \in Task
  /\ -DuplicateWindow \in Int /\ 0 \in -DuplicateWindow..RetryCap
  /\ \A n \in 0..MaxAttempts : NextAttempt(n) \in 0..MaxAttempts
  /\ \A n : RetryDelay(n) \in 1..RetryCap
<1>1. -DuplicateWindow \in Int /\ 0 \in -DuplicateWindow..RetryCap
  BY OutboxAssumption
<1>2. NoRow \in Row
  BY <1>1, OutboxAssumption DEF NoRow, Row, Status
<1>3. NoTask \in Task
  BY OutboxAssumption DEF NoTask, Task, Stage, Result
<1>4. \A n \in 0..MaxAttempts : NextAttempt(n) \in 0..MaxAttempts
  BY OutboxAssumption DEF NextAttempt
<1>5. \A n : RetryDelay(n) \in 1..RetryCap
  <2>1. RetryCap \in 1..RetryCap
    BY OutboxAssumption
  <2>. QED BY <2>1, Zenon DEF RetryDelay
<1>. QED BY <1>1, <1>2, <1>3, <1>4, <1>5

\* DELETE and INSERT keep the table well typed.
LEMMA EnqueueType ==
  ASSUME NEW t \in [JobId -> Row], NEW K \in SUBSET Key,
         NEW ids, NEW keyAt \in [ids -> Key], NEW d \in 0..RetryCap
  PROVE  /\ DeleteExpired(t, K) \in [JobId -> Row]
         /\ InsertJobs(DeleteExpired(t, K), keyAt, d) \in [JobId -> Row]
<1>1. DeleteExpired(t, K) \in [JobId -> Row]
  BY ConstantTypes DEF DeleteExpired
<1>2. ASSUME NEW k \in Key PROVE PendingRow(k, d) \in Row
  <2>1. d \in -DuplicateWindow..RetryCap BY OutboxAssumption
  <2>2. "pending" \in Status BY DEF Status
  <2>. QED BY <2>1, <2>2, ConstantTypes DEF PendingRow, Row
<1>. QED BY <1>1, <1>2 DEF InsertJobs

LEMMA RowTypes ==
  /\ \A r \in Row : Undecided(r) \in Row
  /\ \A r \in Row, s \in Status, d \in -DuplicateWindow..RetryCap : Settled(r, s, d) \in Row
  /\ \A r \in Row : AgedRow(r) \in Row
<1>0. 0 \in 0..LeaseTimeout BY OutboxAssumption
<1>2. \A r \in Row : Undecided(r) \in Row
  BY <1>0 DEF Undecided, Row, Status
<1>3. \A r \in Row, s \in Status, d \in -DuplicateWindow..RetryCap : Settled(r, s, d) \in Row
  BY <1>0 DEF Settled, Row
<1>4. \A r \in Row : AgedRow(r) \in Row
  <2>. SUFFICES ASSUME NEW r \in Row, r.status # "absent" PROVE AgedRow(r) \in Row
    BY DEF AgedRow
  <2>1. r.due \in -DuplicateWindow..RetryCap /\ r.lease \in 0..LeaseTimeout
    BY DEF Row
  <2>2. (IF r.due > -DuplicateWindow THEN r.due - 1 ELSE r.due) \in -DuplicateWindow..RetryCap
    BY <2>1, OutboxAssumption
  <2>3. (IF r.status = "processing" /\ r.lease < LeaseTimeout THEN r.lease + 1 ELSE r.lease)
           \in 0..LeaseTimeout
    BY <2>1, OutboxAssumption
  <2>. QED BY <2>2, <2>3 DEF AgedRow, Row
<1>. QED BY <1>2, <1>3, <1>4

\* So do the statements over the whole table: reservation, recovery, ageing.
LEMMA SweepType ==
  ASSUME NEW t \in [JobId -> Row]
  PROVE  /\ \A w \in Worker : Reserve(t, w) \in [JobId -> Row]
         /\ RecoverStale(t) \in [JobId -> Row]
         /\ Aged(t) \in [JobId -> Row]
<1>0. 0 \in 0..LeaseTimeout BY OutboxAssumption
<1>1. \A w \in Worker : Reserve(t, w) \in [JobId -> Row]
  BY <1>0, ConstantTypes DEF Reserve, Row, Status
<1>5. RecoverStale(t) \in [JobId -> Row]
  BY RowTypes DEF RecoverStale
<1>6. Aged(t) \in [JobId -> Row]
  BY RowTypes DEF Aged
<1>. QED BY <1>1, <1>5, <1>6

\* And the marks of one job.
LEMMA MarkType ==
  ASSUME NEW t \in [JobId -> Row], NEW j \in JobId
  PROVE  /\ MarkDispatchStarted(t, j) \in [JobId -> Row]
         /\ MarkSent(t, j) \in [JobId -> Row]
         /\ MarkDeadLettered(t, j) \in [JobId -> Row]
         /\ MarkUncertain(t, j) \in [JobId -> Row]
         /\ \A n : MarkFailed(t, j, RetryDelay(n)) \in [JobId -> Row]
<1>7. MarkDispatchStarted(t, j) \in [JobId -> Row]
  BY DEF MarkDispatchStarted, Row
<1>8. MarkUncertain(t, j) \in [JobId -> Row]
  BY RowTypes DEF MarkUncertain
<1>9. /\ MarkSent(t, j) \in [JobId -> Row]
      /\ MarkDeadLettered(t, j) \in [JobId -> Row]
  BY RowTypes, ConstantTypes DEF MarkSent, MarkDeadLettered, Status
<1>10. \A n : MarkFailed(t, j, RetryDelay(n)) \in [JobId -> Row]
  <2>1. \A n : RetryDelay(n) \in -DuplicateWindow..RetryCap
    <3>1. \A d \in 1..RetryCap : d \in -DuplicateWindow..RetryCap
      BY OutboxAssumption
    <3>. QED BY <3>1, ConstantTypes
  <2>. QED BY RowTypes, <2>1 DEF MarkFailed, Status
<1>. QED BY <1>7, <1>8, <1>9, <1>10

-----------------------------------------------------------------------------
(* Type correctness *)

\* The keys an alert inserts are finitely many, so the sequence moves by a number.
LEMMA FreshIsFinite ==
  ASSUME NEW K \in SUBSET Key, NEW t
  PROVE  /\ Insertable(t, K) \subseteq Key
         /\ Cardinality(Insertable(t, K)) \in Nat
<1>1. Insertable(t, K) \subseteq Key
  BY DEF Insertable
<1>. QED BY <1>1, FS_Subset, FS_CardinalityType, OutboxAssumption

LEMMA TaskTypes ==
  ASSUME TypeOK, NEW w \in Worker, NEW j \in JobId
  PROVE  /\ \A s \in Stage, r \in Result : Goto(w, j, s, r) => task' \in [Worker -> [JobId -> Task]]
         /\ Done(w, j) => task' \in [Worker -> [JobId -> Task]]
<1>1. \A s \in Stage, r \in Result : Goto(w, j, s, r) => task' \in [Worker -> [JobId -> Task]]
  <2>. SUFFICES ASSUME NEW s \in Stage, NEW r \in Result, Goto(w, j, s, r)
                PROVE  task' \in [Worker -> [JobId -> Task]]
    OBVIOUS
  <2>1. task[w][j] \in Task
    BY DEF TypeOK
  <2>2. [task[w][j] EXCEPT !.stage = s, !.result = r] \in Task
    BY <2>1 DEF Task
  <2>. QED BY <2>2 DEF Goto, TypeOK
<1>2. Done(w, j) => task' \in [Worker -> [JobId -> Task]]
  BY ConstantTypes DEF Done, TypeOK
<1>. QED BY <1>1, <1>2

LEMMA TypeStep == TypeOK /\ [Next]_vars => TypeOK'
<1>. SUFFICES ASSUME TypeOK, [Next]_vars PROVE TypeOK'
  OBVIOUS
<1>. USE DEF TypeOK
<1>1. ASSUME NEW K \in (SUBSET Key) \ {{}}, NEW delay \in Stagger, EnqueueMany(K, delay)
      PROVE  TypeOK'
  <2>. DEFINE cleaned == DeleteExpired(table, K)
              fresh == Insertable(cleaned, K)
              ids == nextId..(nextId + Cardinality(fresh) - 1)
  <2>1. fresh \subseteq Key /\ Cardinality(fresh) \in Nat
    BY FreshIsFinite
  <2>2. nextId' \in 1..(MaxJobs + 1)
    BY <1>1, <2>1, OutboxAssumption DEF EnqueueMany
  <2>3. PICK keyAt \in [ids -> fresh] : table' = InsertJobs(cleaned, keyAt, delay)
    BY <1>1 DEF EnqueueMany
  <2>4. keyAt \in [ids -> Key] /\ delay \in 0..RetryCap
    BY <2>1, DeliveryAssumption
  <2>5. table' \in [JobId -> Row]
    BY <2>3, <2>4, EnqueueType
  <2>. QED BY <1>1, <2>2, <2>5 DEF EnqueueMany
<1>2. ASSUME NEW w \in Worker, Recover(w) PROVE TypeOK'
  BY <1>2, SweepType DEF Recover
<1>3. ASSUME NEW w \in Worker, ReserveBatch(w) PROVE TypeOK'
  <2>1. Reserve(table, w) \in [JobId -> Row]
    BY SweepType
  <2>2. \A j \in JobId : [stage |-> "queued", result |-> "none", key |-> table[j].key,
                          attempts |-> Reserve(table, w)[j].attempts] \in Task
    BY <2>1 DEF Task, Row, Stage, Result
  <2>3. task' \in [Worker -> [JobId -> Task]]
    BY <1>3, <2>2 DEF ReserveBatch
  <2>. QED BY <1>3, <2>1, <2>3 DEF ReserveBatch
<1>4. ASSUME NEW w \in Worker, FinishTick(w) \/ Restart(w) PROVE TypeOK'
  BY <1>4 DEF FinishTick, Restart
<1>5. ASSUME NEW w \in Worker, Crash(w) PROVE TypeOK'
  <2>1. DuplicateWindow \in 0..DuplicateWindow
    BY OutboxAssumption
  <2>2. gate' \in [Worker -> [Key -> 0..DuplicateWindow]]
    BY <1>5, <2>1 DEF Crash, LoadEntries
  <2>. QED BY <1>5, <2>2, ConstantTypes, DeliveryAssumption DEF Crash, LoadEntries
<1>6. ASSUME NEW w \in Worker, NEW j \in JobId, JobStep(w, j) PROVE TypeOK'
  <2>1. CASE RefuseTransport(w, j)
    BY <2>1, TaskTypes DEF RefuseTransport, Stage, Result
  <2>2. CASE StartDispatch(w, j)
    BY <2>2, TaskTypes, MarkType DEF StartDispatch, Stage, Result
  <2>3. CASE ProviderAccepts(w, j)
    BY <2>3, TaskTypes DEF ProviderAccepts, Stage, Result
  <2>4. CASE SendFails(w, j)
    BY <2>4, TaskTypes DEF SendFails, Stage, Result
  <2>5. CASE SendReturns(w, j)
    <3>. PICK r \in AcceptedReports :
           /\ Goto(w, j, IF r = "ok" THEN "persist" ELSE "settle",
                         IF r = "persist_error" THEN "transient" ELSE r)
           /\ gate' = IF r \in {"ok", "persist_error"} /\ task[w][j].key \in Gated
                      THEN [gate EXCEPT ![w][task[w][j].key] = 0]
                      ELSE gate
      BY <2>5 DEF SendReturns
    <3>. DEFINE stage == IF r = "ok" THEN "persist" ELSE "settle"
                result == IF r = "persist_error" THEN "transient" ELSE r
    <3>1. task' \in [Worker -> [JobId -> Task]]
      <4>1. stage \in Stage /\ result \in Result
        BY DeliveryAssumption DEF Stage, Result
      <4>2. Goto(w, j, stage, result)
        OBVIOUS
      <4>. HIDE DEF stage, result
      <4>. QED BY <4>1, <4>2, TaskTypes
    <3>2. 0 \in 0..DuplicateWindow /\ Gated \subseteq Key
      BY OutboxAssumption, DeliveryAssumption
    <3>3. gate' \in [Worker -> [Key -> 0..DuplicateWindow]]
      BY <3>2
    <3>. QED BY <2>5, <3>1, <3>3 DEF SendReturns
  <2>6. CASE PersistSent(w, j)
    BY <2>6, TaskTypes, MarkType DEF PersistSent
  <2>7. CASE Settle(w, j)
    BY <2>7, TaskTypes, MarkType DEF Settle, Transition, Verdict
  <2>. QED BY <1>6, <2>1, <2>2, <2>3, <2>4, <2>5, <2>6, <2>7 DEF JobStep
<1>7. ASSUME NEW w \in Worker, NEW j \in JobId, JobFault(w, j) PROVE TypeOK'
  <2>1. faults' \in 0..MaxFaults
    BY <1>7, DeliveryAssumption DEF JobFault, DispatchMarkFails, PersistFails, SettleLost
  <2>2. CASE DispatchMarkFails(w, j)
    BY <2>1, <2>2, TaskTypes, MarkType DEF DispatchMarkFails, Stage, Result
  <2>3. CASE PersistFails(w, j)
    BY <2>1, <2>3, TaskTypes, MarkType DEF PersistFails, Stage, Result
  <2>4. CASE SettleLost(w, j)
    BY <2>1, <2>4, TaskTypes DEF SettleLost
  <2>. QED BY <1>7, <2>2, <2>3, <2>4 DEF JobFault
<1>8. ASSUME Tick PROVE TypeOK'
  <2>1. table' \in [JobId -> Row]
    BY <1>8, SweepType DEF Tick
  <2>2. gate' \in [Worker -> [Key -> 0..DuplicateWindow]]
    BY <1>8, OutboxAssumption DEF Tick
  <2>. QED BY <1>8, <2>1, <2>2 DEF Tick
<1>9. CASE UNCHANGED vars
  BY <1>9 DEF vars
<1>. QED
  BY <1>1, <1>2, <1>3, <1>4, <1>5, <1>6, <1>7, <1>8, <1>9 DEF Next, Act, WorkerStep, LoopStep

\* Every variable keeps its type: rows are rows, the clock differences stay within
\* their windows and a worker's copies are tasks.
THEOREM TypeCorrect == Spec => []TypeOK
<1>1. Init => TypeOK
  BY ConstantTypes, OutboxAssumption, DeliveryAssumption DEF Init, TypeOK
<1>. QED BY <1>1, TypeStep, PTL DEF Spec

-----------------------------------------------------------------------------
(* One live row per key *)

\* Table u has the rows of t, each as it was or moved to another status.
SameRows(t, u) ==
  \A i \in JobId :
    \/ u[i] = t[i]
    \/ /\ Exists(t, i) /\ Exists(u, i) /\ u[i].key = t[i].key
       /\ u[i].status \in {"pending", "failed", "sent", "dead_lettered"} => ~u[i].dispatched

LEMMA StatementKeepsRows ==
  ASSUME TypeOK, RowShape
  PROVE  /\ \A w \in Worker : SameRows(table, Reserve(table, w))
         /\ SameRows(table, RecoverStale(table))
         /\ SameRows(table, Aged(table))
         /\ \A j \in JobId :
              /\ SameRows(table, MarkDispatchStarted(table, j))
              /\ SameRows(table, MarkSent(table, j))
              /\ SameRows(table, MarkDeadLettered(table, j))
              /\ SameRows(table, MarkUncertain(table, j))
              /\ \A d : SameRows(table, MarkFailed(table, j, d))
<1>. USE DEF TypeOK, SameRows, Exists
<1>1. \A w \in Worker : SameRows(table, Reserve(table, w))
  BY DEF Reserve, Picked, Reservable, Row
<1>2. SameRows(table, RecoverStale(table))
  BY DEF RecoverStale, StaleDispatch, Undecided, Row
<1>3. SameRows(table, Aged(table))
  BY DEF Aged, AgedRow, Row, RowShape
<1>4. ASSUME NEW j \in JobId
      PROVE  /\ SameRows(table, MarkDispatchStarted(table, j))
             /\ SameRows(table, MarkUncertain(table, j))
  BY DEF MarkDispatchStarted, MarkUncertain, Undecided, Row
<1>5. ASSUME NEW j \in JobId, NEW s \in {"sent", "dead_lettered", "failed"}, NEW d,
             Exists(table, j)
      PROVE  SameRows(table, [table EXCEPT ![j] = Settled(@, s, d)])
  <2>1. /\ Settled(table[j], s, d).status = s
        /\ Settled(table[j], s, d).key = table[j].key
        /\ ~Settled(table[j], s, d).dispatched
    BY DEF Settled, Row
  <2>. DEFINE u == [table EXCEPT ![j] = Settled(@, s, d)]
  <2>2. u[j] = Settled(table[j], s, d) /\ \A i \in JobId : i # j => u[i] = table[i]
    OBVIOUS
  <2>3. s # "absent"
    OBVIOUS
  <2>. HIDE DEF u
  <2>4. SameRows(table, u)
    BY <1>5, <2>1, <2>2, <2>3
  <2>. QED BY <2>4 DEF u
<1>6. \A i \in JobId : table[i] = table[i]
  OBVIOUS
<1>7. ASSUME NEW j \in JobId
      PROVE  /\ SameRows(table, MarkSent(table, j))
             /\ SameRows(table, MarkDeadLettered(table, j))
             /\ \A d : SameRows(table, MarkFailed(table, j, d))
  BY <1>5, <1>6 DEF MarkSent, MarkDeadLettered, MarkFailed
<1>. QED BY <1>1, <1>2, <1>3, <1>4, <1>7

LEMMA SameRowsKeepKeys ==
  ASSUME TypeOK, TypeOK', KeyInv, nextId' = nextId, SameRows(table, table')
  PROVE  KeyInv'
<1>. USE ConstantTypes DEF SameRows, Exists, TypeOK, NoRow
<1>1. RowShape'
  BY DEF KeyInv, RowShape
<1>2. OneRowPerKey'
  BY DEF KeyInv, RowShape, OneRowPerKey
<1>. QED BY <1>1, <1>2 DEF KeyInv

\* An enqueue deletes expired rows and inserts rows for keys that have none left.
LEMMA EnqueueKeepsKeys ==
  ASSUME TypeOK, TypeOK', KeyInv, NEW K \in (SUBSET Key) \ {{}}, NEW delay \in Stagger,
         EnqueueMany(K, delay)
  PROVE  KeyInv'
<1>. DEFINE cleaned == DeleteExpired(table, K)
            fresh == Insertable(cleaned, K)
            ids == nextId..(nextId + Cardinality(fresh) - 1)
<1>0. fresh \subseteq Key /\ Cardinality(fresh) \in Nat
  BY FreshIsFinite
<1>1. PICK keyAt \in [ids -> fresh] :
        /\ \A i, j \in ids : keyAt[i] = keyAt[j] => i = j
        /\ table' = InsertJobs(cleaned, keyAt, delay)
  BY DEF EnqueueMany
<1>2. nextId' = nextId + Cardinality(fresh)
  BY DEF EnqueueMany
<1>3. ASSUME NEW i \in JobId
      PROVE  \/ i \in ids /\ table'[i] = PendingRow(keyAt[i], delay)
             \/ i \notin ids /\ table'[i] = table[i] /\ cleaned[i] = table[i]
             \/ i \notin ids /\ table'[i] = NoRow
  BY <1>1 DEF InsertJobs, DeleteExpired
<1>4. ASSUME NEW i \in ids
      PROVE  /\ PendingRow(keyAt[i], delay).status = "pending"
             /\ PendingRow(keyAt[i], delay).key = keyAt[i]
             /\ ~PendingRow(keyAt[i], delay).dispatched
             /\ keyAt[i] \in fresh /\ keyAt[i] \in Key
  BY <1>0, <1>1 DEF PendingRow, NoRow
<1>5. NoRow.status = "absent" /\ ~NoRow.dispatched
  BY DEF NoRow
<1>6. RowShape'
  <2>. SUFFICES ASSUME NEW i \in JobId
                PROVE  /\ table'[i].status = "absent" => table'[i] = NoRow
                       /\ Exists(table', i) => table'[i].key \in Key /\ i < nextId'
                       /\ table'[i].status \in {"pending", "failed", "sent", "dead_lettered"}
                            => ~table'[i].dispatched
    BY DEF RowShape
  <2>1. nextId' >= nextId /\ \A n \in ids : n < nextId'
    BY <1>0, <1>2 DEF TypeOK
  <2>. HIDE DEF ids, fresh, cleaned
  <2>2. CASE i \in ids /\ table'[i] = PendingRow(keyAt[i], delay)
    BY <1>4, <2>1, <2>2 DEF Exists
  <2>3. CASE table'[i] = table[i]
    BY <2>1, <2>3 DEF KeyInv, RowShape, Exists, TypeOK, JobId
  <2>4. CASE table'[i] = NoRow
    BY <2>4, <1>5 DEF Exists
  <2>. QED BY <1>3, <2>2, <2>3, <2>4
<1>7. OneRowPerKey'
  <2>. SUFFICES ASSUME NEW i \in JobId, NEW j \in JobId,
                       Exists(table', i), table'[i].key = table'[j].key
                PROVE  i = j
    BY DEF OneRowPerKey
  <2>1. Exists(table', j)
    BY <1>6, OutboxAssumption DEF RowShape, Exists, NoRow
  <2>2. \A n \in JobId, m \in ids : cleaned[n] = table[n] /\ Exists(table, n) => table[n].key # keyAt[m]
    BY <1>4 DEF Insertable, Exists
  <2>. HIDE DEF ids, fresh, cleaned
  <2>3. CASE i \in ids
    <3>1. table'[i].key = keyAt[i] BY <2>3, <1>3, <1>4
    <3>2. CASE j \in ids
      <4>1. table'[j].key = keyAt[j] BY <3>2, <1>3, <1>4
      <4>2. keyAt[i] = keyAt[j] BY <3>1, <4>1
      <4>. QED BY <4>2, <2>3, <3>2, <1>1
    <3>3. CASE j \notin ids
      BY <3>1, <3>3, <2>1, <2>2, <2>3, <1>3, <1>5 DEF Exists
    <3>. QED BY <3>2, <3>3
  <2>4. CASE i \notin ids
    <3>1. table'[i] = table[i] /\ cleaned[i] = table[i] /\ Exists(table, i)
      BY <2>4, <1>3, <1>5 DEF Exists
    <3>2. CASE j \in ids
      <4>1. table'[j].key = keyAt[j] BY <3>2, <1>3, <1>4
      <4>. QED BY <3>1, <3>2, <4>1, <2>2
    <3>3. CASE j \notin ids
      BY <3>1, <3>3, <2>1, <1>3, <1>5 DEF Exists, KeyInv, OneRowPerKey
    <3>. QED BY <3>2, <3>3
  <2>. QED BY <2>3, <2>4
<1>. QED BY <1>6, <1>7 DEF KeyInv

\* Every step but an enqueue is a statement of the table, or leaves it alone.
LEMMA OtherStepsKeepRows ==
  ASSUME TypeOK, RowShape,
         \/ \E w \in Worker : LoopStep(w) \/ Crash(w)
         \/ \E w \in Worker, j \in JobId : JobStep(w, j) \/ JobFault(w, j)
         \/ Tick
         \/ UNCHANGED vars
  PROVE  SameRows(table, table') /\ nextId' = nextId
<1>0. nextId' = nextId
  BY DEF LoopStep, Recover, ReserveBatch, FinishTick, Restart, Crash, JobStep,
         RefuseTransport, StartDispatch, ProviderAccepts, SendFails, SendReturns,
         PersistSent, Settle, JobFault, DispatchMarkFails, PersistFails, SettleLost,
         Tick, vars
<1>1. ASSUME table' = table PROVE SameRows(table, table')
  BY <1>1 DEF SameRows
<1>2. ASSUME NEW w \in Worker, LoopStep(w) \/ Crash(w) PROVE SameRows(table, table')
  BY <1>1, <1>2, StatementKeepsRows
     DEF LoopStep, Recover, ReserveBatch, FinishTick, Restart, Crash
<1>3. ASSUME NEW w \in Worker, NEW j \in JobId, JobStep(w, j) PROVE SameRows(table, table')
  <2>1. CASE Settle(w, j)
    BY <2>1, StatementKeepsRows DEF Settle, Transition, Verdict
  <2>2. CASE ~Settle(w, j)
    BY <1>1, <1>3, <2>2, StatementKeepsRows
       DEF JobStep, RefuseTransport, StartDispatch, ProviderAccepts, SendFails,
           SendReturns, PersistSent
  <2>. QED BY <2>1, <2>2
<1>4. ASSUME NEW w \in Worker, NEW j \in JobId, JobFault(w, j) PROVE SameRows(table, table')
  BY <1>1, <1>4, StatementKeepsRows DEF JobFault, DispatchMarkFails, PersistFails, SettleLost
<1>5. ASSUME Tick PROVE SameRows(table, table')
  BY <1>5, StatementKeepsRows DEF Tick
<1>6. ASSUME UNCHANGED vars PROVE SameRows(table, table')
  BY <1>1, <1>6 DEF vars
<1>. QED BY <1>0, <1>2, <1>3, <1>4, <1>5, <1>6

LEMMA KeyStep == TypeOK /\ KeyInv /\ [Next]_vars => KeyInv'
<1>. SUFFICES ASSUME TypeOK, KeyInv, [Next]_vars PROVE KeyInv'
  OBVIOUS
<1>0. TypeOK' BY TypeStep
<1>1. CASE \E K \in (SUBSET Key) \ {{}}, delay \in Stagger : EnqueueMany(K, delay)
  BY <1>0, <1>1, EnqueueKeepsKeys
<1>2. CASE ~ \E K \in (SUBSET Key) \ {{}}, delay \in Stagger : EnqueueMany(K, delay)
  BY <1>0, <1>2, OtherStepsKeepRows, SameRowsKeepKeys DEF Next, Act, WorkerStep, KeyInv
<1>. QED BY <1>1, <1>2

LEMMA KeysFromTheStart == Spec => []KeyInv
<1>1. Init => KeyInv
  BY OutboxAssumption DEF Init, KeyInv, RowShape, OneRowPerKey, Exists, NoRow
<1>. QED BY <1>1, TypeCorrect, KeyStep, PTL DEF Spec

\* The outbox holds at most one row per delivery key, however enqueues, expiry,
\* retries, recoveries, crashes and overrun leases interleave.
THEOREM OneRow == Spec => []OneRowPerKey
<1>1. KeyInv => OneRowPerKey
  BY DEF KeyInv
<1>. QED BY <1>1, KeysFromTheStart, PTL

-----------------------------------------------------------------------------
(* What the outbox guarantees of workers that keep to their lease, for every  *)
(* value of the other constants: leases are exclusive, and, when an accepted  *)
(* message is never reported as a plain failure, delivery is at most once.    *)

-----------------------------------------------------------------------------
(* Exclusive leases *)

\* A step that touches row j and worker w's work on it, and nothing else.
OnlyTouches(w, j) ==
  /\ phase' = phase /\ nextId' = nextId
  /\ \A i \in JobId \ {j} : table'[i] = table[i] /\ \A v \in Worker : task'[v][i] = task[v][i]
  /\ \A v \in Worker \ {w} : task'[v][j] = task[v][j]

LEMMA JobStepTouches ==
  ASSUME TypeOK, NEW w \in Worker, NEW j \in JobId, JobStep(w, j) \/ JobFault(w, j)
  PROVE  OnlyTouches(w, j)
<1>. USE DEF TypeOK, OnlyTouches
<1>1. \A s, r : Goto(w, j, s, r) =>
        /\ \A i \in JobId \ {j}, v \in Worker : task'[v][i] = task[v][i]
        /\ \A v \in Worker \ {w} : task'[v][j] = task[v][j]
  BY DEF Goto
<1>2. Done(w, j) =>
        /\ \A i \in JobId \ {j}, v \in Worker : task'[v][i] = task[v][i]
        /\ \A v \in Worker \ {w} : task'[v][j] = task[v][j]
  BY DEF Done
<1>3. \A i \in JobId \ {j} :
        /\ MarkDispatchStarted(table, j)[i] = table[i]
        /\ MarkSent(table, j)[i] = table[i]
        /\ MarkDeadLettered(table, j)[i] = table[i]
        /\ MarkUncertain(table, j)[i] = table[i]
        /\ \A d : MarkFailed(table, j, d)[i] = table[i]
  BY DEF MarkDispatchStarted, MarkSent, MarkDeadLettered, MarkUncertain, MarkFailed
<1>. HIDE DEF TypeOK
<1>4. CASE RefuseTransport(w, j) BY <1>1, <1>4 DEF RefuseTransport
<1>5. CASE StartDispatch(w, j) BY <1>1, <1>3, <1>5 DEF StartDispatch
<1>6. CASE ProviderAccepts(w, j) BY <1>1, <1>6 DEF ProviderAccepts
<1>7. CASE SendFails(w, j) BY <1>1, <1>7 DEF SendFails
<1>8. CASE SendReturns(w, j) BY <1>1, <1>8, Zenon DEF SendReturns
<1>9. CASE PersistSent(w, j) BY <1>2, <1>3, <1>9 DEF PersistSent
<1>10. CASE Settle(w, j) BY <1>2, <1>3, <1>10 DEF Settle, Transition, Verdict
<1>11. CASE DispatchMarkFails(w, j) BY <1>1, <1>3, <1>11 DEF DispatchMarkFails
<1>12. CASE PersistFails(w, j) BY <1>1, <1>3, <1>12 DEF PersistFails
<1>13. CASE SettleLost(w, j) BY <1>2, <1>13 DEF SettleLost
<1>. QED BY <1>4, <1>5, <1>6, <1>7, <1>8, <1>9, <1>10, <1>11, <1>12, <1>13 DEF JobStep, JobFault

\* Such a step needs checking for that worker and row only: no other worker
\* holds the row, and other rows are as they were.
LEMMA LocalStep ==
  ASSUME TypeOK, LeaseInv, KeyInv', NEW w \in Worker, NEW j \in JobId,
         OnlyTouches(w, j), Active(w, j), Held(w, j)',
         table'[j].status = "failed" => table'[j].attempts < MaxAttempts
  PROVE  LeaseInv'
<1>1. ASSUME NEW v \in Worker, NEW i \in JobId PROVE Held(v, i)'
  <2>1. CASE i # j
    <3>1. table'[i] = table[i] /\ task'[v][i] = task[v][i] /\ phase' = phase /\ nextId' = nextId
      BY <2>1 DEF OnlyTouches
    <3>. QED BY <3>1 DEF LeaseInv, Held, StageShape, Active, CopyAgrees, UnexpiredLease, Exists
  <2>2. CASE i = j /\ v # w
    <3>1. ~Active(v, j) /\ task'[v][j] = task[v][j]
      BY <2>2 DEF LeaseInv, ExclusiveLease, OnlyTouches
    <3>. QED BY <2>2, <3>1 DEF LeaseInv, Held, StageShape, Active
  <2>. QED BY <2>1, <2>2
<1>2. ExclusiveLease'
  BY DEF ExclusiveLease, LeaseInv, Active, OnlyTouches
<1>3. RetryLeavesAttempts'
  BY DEF RetryLeavesAttempts, LeaseInv, OnlyTouches
<1>. QED BY <1>1, <1>2, <1>3 DEF LeaseInv

\* What Goto and Done leave in the task they write.
LEMMA TaskAfter ==
  ASSUME TypeOK, NEW w \in Worker, NEW j \in JobId
  PROVE  /\ \A s, r : Goto(w, j, s, r) =>
              /\ task'[w][j].stage = s /\ task'[w][j].result = r
              /\ task'[w][j].key = task[w][j].key
              /\ task'[w][j].attempts = task[w][j].attempts
         /\ Done(w, j) => task'[w][j] = NoTask
<1>1. ASSUME NEW s, NEW r, Goto(w, j, s, r)
      PROVE  /\ task'[w][j].stage = s /\ task'[w][j].result = r
             /\ task'[w][j].key = task[w][j].key
             /\ task'[w][j].attempts = task[w][j].attempts
  <2>1. task'[w][j] = [task[w][j] EXCEPT !.stage = s, !.result = r]
    BY <1>1 DEF Goto, TypeOK
  <2>2. task[w][j] \in Task
    BY DEF TypeOK
  <2>. QED BY <2>1, <2>2 DEF Task
<1>2. Done(w, j) => task'[w][j] = NoTask
  BY DEF Done, TypeOK
<1>. QED BY <1>1, <1>2

\* What the marks leave in the row they write.
LEMMA RowAfter ==
  ASSUME TypeOK, NEW j \in JobId
  PROVE  /\ LET r == MarkDispatchStarted(table, j)[j]
            IN  /\ r.status = table[j].status /\ r.key = table[j].key
                /\ r.attempts = table[j].attempts /\ r.lease = table[j].lease
                /\ r.by = table[j].by /\ r.due = table[j].due
                /\ table[j].status = "processing" => r.dispatched
                /\ table[j].dispatched => r.dispatched
         /\ ~Exists(table, j) => \A d :
              /\ MarkSent(table, j) = table /\ MarkDeadLettered(table, j) = table
              /\ MarkUncertain(table, j) = table /\ MarkFailed(table, j, d) = table
         /\ Exists(table, j) => LET r == MarkUncertain(table, j)[j]
            IN  /\ r.status = "uncertain" /\ r.key = table[j].key
                /\ r.attempts = table[j].attempts /\ r.due = table[j].due
         /\ Exists(table, j) => LET r == MarkSent(table, j)[j]
            IN  /\ r.status = "sent" /\ r.key = table[j].key
                /\ r.attempts = table[j].attempts /\ r.due = 0
         /\ Exists(table, j) => LET r == MarkDeadLettered(table, j)[j]
            IN  r.status = "dead_lettered" /\ r.key = table[j].key
         /\ Exists(table, j) => \A d : LET r == MarkFailed(table, j, d)[j]
            IN  /\ r.status = "failed" /\ r.key = table[j].key
                /\ r.attempts = table[j].attempts
<1>. USE DEF TypeOK
<1>1. LET r == MarkDispatchStarted(table, j)[j]
      IN  /\ r.status = table[j].status /\ r.key = table[j].key
          /\ r.attempts = table[j].attempts /\ r.lease = table[j].lease
          /\ r.by = table[j].by /\ r.due = table[j].due
          /\ table[j].status = "processing" => r.dispatched
          /\ table[j].dispatched => r.dispatched
  BY DEF MarkDispatchStarted, Row
<1>2. ~Exists(table, j) => \A d :
        /\ MarkSent(table, j) = table /\ MarkDeadLettered(table, j) = table
        /\ MarkUncertain(table, j) = table /\ MarkFailed(table, j, d) = table
  BY DEF MarkSent, MarkDeadLettered, MarkUncertain, MarkFailed
<1>3. Exists(table, j) => LET r == MarkUncertain(table, j)[j]
      IN  /\ r.status = "uncertain" /\ r.key = table[j].key
          /\ r.attempts = table[j].attempts /\ r.due = table[j].due
  BY DEF MarkUncertain, Undecided, Row
<1>4. ASSUME NEW s, NEW d
      PROVE  LET r == Settled(table[j], s, d)
             IN  /\ r.status = s /\ r.key = table[j].key
                 /\ r.attempts = table[j].attempts /\ r.due = d
  BY DEF Settled, Row
<1>5. Exists(table, j) => \A d :
        /\ MarkSent(table, j)[j] = Settled(table[j], "sent", 0)
        /\ MarkDeadLettered(table, j)[j] = Settled(table[j], "dead_lettered", 0)
        /\ MarkFailed(table, j, d)[j] = Settled(table[j], "failed", d)
  BY DEF MarkSent, MarkDeadLettered, MarkFailed
<1>. HIDE DEF TypeOK
<1>6. Exists(table, j) => LET r == MarkSent(table, j)[j]
      IN  /\ r.status = "sent" /\ r.key = table[j].key
          /\ r.attempts = table[j].attempts /\ r.due = 0
  BY <1>4, <1>5
<1>7. Exists(table, j) => LET r == MarkDeadLettered(table, j)[j]
      IN  r.status = "dead_lettered" /\ r.key = table[j].key
  BY <1>4, <1>5
<1>8. Exists(table, j) => \A d : LET r == MarkFailed(table, j, d)[j]
      IN  /\ r.status = "failed" /\ r.key = table[j].key
          /\ r.attempts = table[j].attempts
  BY <1>4, <1>5
<1>. QED BY <1>1, <1>2, <1>3, <1>6, <1>7, <1>8

\* The worker's own work stays in order along processReservedJob.
LEMMA JobStepKeepsLease ==
  ASSUME TypeOK, TypeOK', LeaseInv, KeyInv',
         NEW w \in Worker, NEW j \in JobId, JobStep(w, j) \/ JobFault(w, j)
  PROVE  LeaseInv'
<1>1. OnlyTouches(w, j)
  BY JobStepTouches
<1>2. Active(w, j)
  BY DEF JobStep, JobFault, RefuseTransport, StartDispatch, ProviderAccepts, SendFails,
         SendReturns, PersistSent, Settle, DispatchMarkFails, PersistFails, SettleLost, Active
<1>3. Held(w, j) /\ CopyAgrees(w, j) /\ phase[w] = "busy" /\ j < nextId
  BY <1>2 DEF LeaseInv, Held
<1>4. Done(w, j) => Held(w, j)'
  BY TaskAfter DEF Held, StageShape, Active, NoTask
<1>5. ASSUME NEW s \in Stage, NEW r, Goto(w, j, s, r),
             \/ s \in {"queued", "sending", "accepted"} /\ r = "none"
             \/ s = "persist" /\ r \in {"ok", "skipped"}
             \/ s = "settle" /\ r \in {"ambiguous", "transient", "permanent", "postsend"},
             CopyAgrees(w, j)'
      PROVE  Held(w, j)'
  BY <1>1, <1>3, <1>5, TaskAfter DEF Held, StageShape, OnlyTouches
<1>6. ASSUME NEW s, NEW r, Goto(w, j, s, r), table[j].status = "processing",
             table' \in {table, MarkDispatchStarted(table, j)},
             UnexpiredLease(w, j)
      PROVE  CopyAgrees(w, j)'
  BY <1>3, <1>6, TaskAfter, RowAfter DEF CopyAgrees, UnexpiredLease, Exists
<1>7. task[w][j].stage # "settle" => UnexpiredLease(w, j)
  BY <1>3 DEF CopyAgrees
<1>8. table' \in {table, MarkDispatchStarted(table, j)} /\ table[j].status = "processing"
        => table'[j].status # "failed"
  BY RowAfter
<1>9. CASE RefuseTransport(w, j) \/ ProviderAccepts(w, j) \/ SendFails(w, j)
  <2>1. UnexpiredLease(w, j) /\ table' = table
    BY <1>7, <1>9 DEF RefuseTransport, ProviderAccepts, SendFails
  <2>2. Held(w, j)'
    BY <1>5, <1>6, <1>9, <2>1
       DEF RefuseTransport, ProviderAccepts, SendFails, UnexpiredLease, Stage
  <2>. QED BY <1>1, <1>2, <1>8, <2>1, <2>2, LocalStep DEF UnexpiredLease
<1>10. CASE StartDispatch(w, j) \/ DispatchMarkFails(w, j)
  <2>1. UnexpiredLease(w, j) /\ table' \in {table, MarkDispatchStarted(table, j)}
    BY <1>7, <1>10 DEF StartDispatch, DispatchMarkFails
  <2>2. Held(w, j)'
    BY <1>5, <1>6, <1>10, <2>1 DEF StartDispatch, DispatchMarkFails, UnexpiredLease, Stage
  <2>. QED BY <1>1, <1>2, <1>8, <2>1, <2>2, LocalStep DEF UnexpiredLease
<1>11. CASE SendReturns(w, j)
  <2>1. UnexpiredLease(w, j) /\ table' = table
    BY <1>7, <1>11 DEF SendReturns
  <2>2. PICK r \in AcceptedReports :
          Goto(w, j, IF r = "ok" THEN "persist" ELSE "settle",
                     IF r = "persist_error" THEN "transient" ELSE r)
    BY <1>11 DEF SendReturns
  <2>3. Held(w, j)'
    BY <1>5, <1>6, <2>1, <2>2, DeliveryAssumption DEF UnexpiredLease, Stage
  <2>. QED BY <1>1, <1>2, <1>8, <2>1, <2>3, LocalStep DEF UnexpiredLease
<1>12. CASE PersistSent(w, j)
  <2>1. UnexpiredLease(w, j)
    BY <1>7, <1>12 DEF PersistSent
  <2>2. table'[j].status = "sent"
    BY <1>12, <2>1, RowAfter DEF PersistSent, UnexpiredLease, Exists
  <2>. QED BY <1>1, <1>2, <1>4, <1>12, <2>2, LocalStep DEF PersistSent
<1>13. CASE PersistFails(w, j)
  <2>1. UnexpiredLease(w, j) /\ table' \in {table, MarkSent(table, j)}
    BY <1>7, <1>13 DEF PersistFails
  <2>2. PICK r \in {"postsend", "ambiguous", "transient"} : Goto(w, j, "settle", r)
    BY <1>13 DEF PersistFails
  <2>3. table'[j] = table[j] \/ /\ table'[j].status = "sent" /\ table'[j].key = table[j].key
                                /\ table'[j].attempts = table[j].attempts
    BY <2>1, RowAfter DEF UnexpiredLease, Exists
  <2>4. CopyAgrees(w, j)'
    BY <1>3, <2>1, <2>2, <2>3, TaskAfter DEF CopyAgrees, UnexpiredLease, Exists
  <2>5. Held(w, j)'
    BY <1>5, <2>2, <2>4 DEF Stage
  <2>. QED BY <1>1, <1>2, <2>1, <2>3, <2>5, LocalStep DEF UnexpiredLease
<1>14. CASE Settle(w, j)
  <2>1. table'[j].status = "failed" => table'[j].attempts < MaxAttempts
    <3>1. CASE ~Exists(table, j)
      BY <1>14, <3>1, RowAfter DEF Settle, Transition, Verdict, Exists
    <3>2. CASE Exists(table, j)
      <4>1. CASE Verdict(task[w][j]) = "failed"
        <5>1. ~(task[w][j].attempts >= MaxAttempts)
          BY <4>1 DEF Verdict
        <5>2. task[w][j].attempts < MaxAttempts
          BY <5>1, OutboxAssumption DEF TypeOK, Task
        <5>3. task[w][j].attempts = table[j].attempts
          BY <1>3, <3>2 DEF CopyAgrees
        <5>. QED BY <1>14, <3>2, <4>1, <5>2, <5>3, RowAfter DEF Settle, Transition
      <4>2. CASE Verdict(task[w][j]) # "failed"
        BY <1>14, <3>2, <4>2, RowAfter DEF Settle, Transition, Verdict
      <4>. QED BY <4>1, <4>2
    <3>. QED BY <3>1, <3>2
  <2>. QED BY <1>1, <1>2, <1>4, <1>14, <2>1, LocalStep DEF Settle
<1>15. CASE SettleLost(w, j)
  BY <1>1, <1>2, <1>4, <1>15, LocalStep DEF SettleLost, LeaseInv, RetryLeavesAttempts
<1>. QED BY <1>9, <1>10, <1>11, <1>12, <1>13, <1>14, <1>15 DEF JobStep, JobFault

\* What an enqueue does to a row: nothing, or it deletes a row settled for a whole
\* window, or it draws a new id.
LEMMA EnqueuedRows ==
  ASSUME TypeOK, NEW K \in (SUBSET Key) \ {{}}, NEW delay \in Stagger, EnqueueMany(K, delay)
  PROVE  /\ nextId' >= nextId
         /\ \A i \in JobId :
              IF i >= nextId /\ i < nextId'
              THEN table'[i].status = "pending" /\ table'[i].key \in Key
              ELSE table'[i] = table[i] \/ (Expired(table, i) /\ table'[i] = NoRow)
<1>. DEFINE cleaned == DeleteExpired(table, K)
            fresh == Insertable(cleaned, K)
            ids == nextId..(nextId + Cardinality(fresh) - 1)
<1>1. fresh \subseteq Key /\ Cardinality(fresh) \in Nat
  BY FreshIsFinite
<1>2. PICK keyAt \in [ids -> fresh] : table' = InsertJobs(cleaned, keyAt, delay)
  BY DEF EnqueueMany
<1>3. nextId' = nextId + Cardinality(fresh)
  BY DEF EnqueueMany
<1>4. ASSUME NEW i \in JobId
      PROVE  IF i \in ids
             THEN table'[i] = PendingRow(keyAt[i], delay) /\ keyAt[i] \in Key
             ELSE table'[i] = table[i] \/ (Expired(table, i) /\ table'[i] = NoRow)
  BY <1>1, <1>2 DEF InsertJobs, DeleteExpired
<1>5. \A k : PendingRow(k, delay).status = "pending" /\ PendingRow(k, delay).key = k
  BY DEF PendingRow, NoRow
<1>6. \A i \in JobId : i \in ids <=> i >= nextId /\ i < nextId'
  BY <1>1, <1>3 DEF TypeOK, JobId
<1>7. nextId' >= nextId
  BY <1>1, <1>3 DEF TypeOK
<1>. QED BY <1>4, <1>5, <1>6, <1>7

LEMMA EnqueueKeepsLease ==
  ASSUME TypeOK, TypeOK', LeaseInv, KeyInv',
         NEW K \in (SUBSET Key) \ {{}}, NEW delay \in Stagger, EnqueueMany(K, delay)
  PROVE  LeaseInv'
<1>0. /\ nextId' >= nextId
      /\ \A i \in JobId :
           \/ table'[i] = table[i]
           \/ Expired(table, i) /\ table'[i] = NoRow
           \/ i >= nextId /\ i < nextId' /\ table'[i].status = "pending"
  BY EnqueuedRows
<1>1. task' = task /\ phase' = phase
  BY DEF EnqueueMany
<1>2. ASSUME NEW w \in Worker, NEW j \in JobId PROVE Held(w, j)'
  <2>. SUFFICES ASSUME Active(w, j)
                PROVE  CopyAgrees(w, j)' /\ phase'[w] = "busy" /\ j < nextId'
    BY <1>1 DEF Held, LeaseInv, StageShape, Active
  <2>1. CopyAgrees(w, j) /\ phase[w] = "busy" /\ j < nextId
    BY DEF LeaseInv, Held
  <2>2. j < nextId' /\ ~(j >= nextId)
    BY <1>0, <2>1 DEF TypeOK, JobId
  <2>3. table'[j] = table[j] \/ (Expired(table, j) /\ table'[j] = NoRow)
    BY <1>0, <2>2
  <2>4. CASE table'[j] = table[j]
    BY <1>1, <2>1, <2>2, <2>4 DEF CopyAgrees, UnexpiredLease, Exists
  <2>5. CASE Expired(table, j) /\ table'[j] = NoRow
    <3>1. task[w][j].stage = "settle"
      BY <2>1, <2>5 DEF CopyAgrees, UnexpiredLease, Expired
    <3>. QED BY <1>1, <2>1, <2>2, <2>5, <3>1 DEF CopyAgrees, Exists, NoRow
  <2>. QED BY <2>3, <2>4, <2>5
<1>3. ExclusiveLease'
  BY <1>1 DEF LeaseInv, ExclusiveLease, Active
<1>4. RetryLeavesAttempts'
  BY <1>0 DEF LeaseInv, RetryLeavesAttempts, NoRow
<1>. QED BY <1>2, <1>3, <1>4 DEF LeaseInv

\* A worker that holds a row, or has just seen it sent, keeps it: neither recovery
\* nor another worker's reservation can take it.
LEMMA HeldIsOutOfReach ==
  ASSUME TypeOK, LeaseInv, NEW w \in Worker, NEW j \in JobId, Active(w, j)
  PROVE  ~StaleDispatch(table, j) /\ ~Reservable(table, j)
<1>1. CopyAgrees(w, j)
  BY DEF LeaseInv, Held
<1>2. table[j].lease < LeaseTimeout => ~(table[j].lease >= LeaseTimeout)
  BY OutboxAssumption DEF TypeOK, Row
<1>. QED BY <1>1, <1>2 DEF CopyAgrees, UnexpiredLease, StaleDispatch, Reservable

LEMMA LoopKeepsLease ==
  ASSUME TypeOK, TypeOK', LeaseInv, KeyInv', NEW w \in Worker, LoopStep(w) \/ Crash(w)
  PROVE  LeaseInv'
<1>0. ASSUME NEW v \in Worker, NEW i \in JobId, task'[v][i] = task[v][i], nextId' = nextId,
             Active(v, i) => table'[i] = table[i] /\ phase'[v] = "busy"
      PROVE  Held(v, i)'
  BY <1>0 DEF LeaseInv, Held, StageShape, Active, CopyAgrees, UnexpiredLease, Exists
<1>1. CASE Recover(w)
  <2>1. \A i \in JobId : StaleDispatch(table, i) => table'[i].status = "uncertain"
    <3>1. \A i \in JobId : StaleDispatch(table, i) => table'[i] = Undecided(table[i])
      BY <1>1 DEF Recover, RecoverStale
    <3>2. \A r \in Row : Undecided(r).status = "uncertain"
      BY DEF Undecided, Row
    <3>. QED BY <3>1, <3>2 DEF TypeOK
  <2>2. \A i \in JobId : ~StaleDispatch(table, i) => table'[i] = table[i]
    BY <1>1 DEF Recover, RecoverStale
  <2>3. \A v \in Worker, i \in JobId : Active(v, i) => phase[v] = "busy" /\ v # w
    BY <1>1 DEF Recover, LeaseInv, Held
  <2>4. \A v \in Worker, i \in JobId : Held(v, i)'
    BY <1>0, <1>1, <2>2, <2>3, HeldIsOutOfReach DEF Recover, TypeOK
  <2>5. ExclusiveLease' /\ RetryLeavesAttempts'
    BY <1>1, <2>1, <2>2 DEF Recover, LeaseInv, ExclusiveLease, Active, RetryLeavesAttempts
  <2>. QED BY <2>4, <2>5 DEF LeaseInv
<1>2. CASE ReserveBatch(w)
  <2>. DEFINE jobs == Picked(table)
  <2>1. \A i \in JobId : i \notin jobs =>
          table'[i] = table[i] /\ \A v \in Worker : task'[v][i] = task[v][i]
    BY <1>2 DEF ReserveBatch, Reserve, TypeOK
  <2>2. \A i \in jobs :
          /\ table'[i].status = "processing" /\ table'[i].lease = 0 /\ table'[i].by = w
          /\ table'[i].key = table[i].key
    <3>. SUFFICES ASSUME NEW i \in JobId, i \in jobs
                  PROVE  /\ table'[i].status = "processing" /\ table'[i].lease = 0
                         /\ table'[i].by = w /\ table'[i].key = table[i].key
      BY DEF Picked
    <3>1. table'[i] = [table[i] EXCEPT !.status = "processing", !.lease = 0, !.by = w,
                                      !.attempts = NextAttempt(@)]
      BY <1>2 DEF ReserveBatch, Reserve
    <3>2. table[i] \in Row
      BY DEF TypeOK
    <3>. QED BY <3>1, <3>2 DEF Row
  <2>3. \A i \in jobs :
          /\ task'[w][i] = [stage |-> "queued", result |-> "none", key |-> table[i].key,
                            attempts |-> table'[i].attempts]
          /\ \A v \in Worker \ {w} : task'[v][i] = task[v][i]
    BY <1>2 DEF ReserveBatch, Picked, TypeOK
  <2>4. \A v \in Worker, i \in JobId : Active(v, i) => i \notin jobs
    BY HeldIsOutOfReach DEF Picked
  <2>5. \A v \in Worker, i \in JobId : Active(v, i) => v # w /\ phase[v] = "busy"
    BY <1>2 DEF ReserveBatch, LeaseInv, Held
  <2>6. phase' = [phase EXCEPT ![w] = IF jobs = {} THEN "idle" ELSE "busy"] /\ nextId' = nextId
    BY <1>2 DEF ReserveBatch
  <2>7. \A i \in jobs : i \in JobId /\ Reservable(table, i)
    BY DEF Picked
  <2>. HIDE DEF jobs
  <2>8. \A v \in Worker, i \in JobId : ~(v = w /\ i \in jobs) => Held(v, i)'
    <3>. SUFFICES ASSUME NEW v \in Worker, NEW i \in JobId, ~(v = w /\ i \in jobs)
                  PROVE  Held(v, i)'
      OBVIOUS
    <3>1. task'[v][i] = task[v][i]
      BY <2>1, <2>3
    <3>2. Active(v, i) => table'[i] = table[i] /\ phase'[v] = "busy"
      BY <2>1, <2>4, <2>5, <2>6 DEF TypeOK
    <3>. QED BY <1>0, <2>6, <3>1, <3>2
  <2>9. \A i \in jobs : Held(w, i)'
    <3>. SUFFICES ASSUME NEW i \in jobs PROVE Held(w, i)'
      OBVIOUS
    <3>1. Exists(table, i)
      BY <2>7 DEF Reservable, Exists
    <3>2. i < nextId' /\ phase'[w] = "busy"
      BY <2>6, <2>7, <3>1 DEF LeaseInv, KeyInv, RowShape, TypeOK
    <3>3. /\ task'[w][i].stage = "queued" /\ task'[w][i].result = "none"
          /\ task'[w][i].key = table[i].key /\ task'[w][i].attempts = table'[i].attempts
      <4>1. task'[w][i] = [stage |-> "queued", result |-> "none", key |-> table[i].key,
                           attempts |-> table'[i].attempts]
        BY <2>3
      <4>. QED BY <4>1
    <3>4. UnexpiredLease(w, i)'
      BY <2>2, OutboxAssumption DEF UnexpiredLease
    <3>5. CopyAgrees(w, i)'
      BY <2>2, <3>3, <3>4 DEF CopyAgrees
    <3>. QED BY <3>2, <3>3, <3>5 DEF Held, StageShape
  <2>10. ExclusiveLease'
    <3>. SUFFICES ASSUME NEW u \in Worker, NEW v \in Worker, NEW i \in JobId,
                         Active(u, i)', Active(v, i)'
                  PROVE  u = v
      BY DEF ExclusiveLease
    <3>1. CASE i \in jobs
      <4>1. \A x \in Worker \ {w} : ~Active(x, i)'
        BY <2>3, <2>4, <3>1 DEF Active
      <4>. QED BY <4>1
    <3>2. CASE i \notin jobs
      BY <2>1, <3>2 DEF LeaseInv, ExclusiveLease, Active
    <3>. QED BY <3>1, <3>2
  <2>11. RetryLeavesAttempts'
    BY <2>1, <2>2 DEF LeaseInv, RetryLeavesAttempts
  <2>. QED BY <2>8, <2>9, <2>10, <2>11 DEF LeaseInv
<1>3. CASE FinishTick(w) \/ Restart(w)
  <2>1. \A v \in Worker, i \in JobId : Held(v, i)'
    BY <1>0, <1>3 DEF FinishTick, Restart, LeaseInv, Held, TypeOK
  <2>. QED BY <1>3, <2>1
           DEF FinishTick, Restart, LeaseInv, ExclusiveLease, Active, RetryLeavesAttempts
<1>4. CASE Crash(w)
  <2>1. \A i \in JobId : task'[w][i] = NoTask /\ \A v \in Worker \ {w} : task'[v][i] = task[v][i]
    BY <1>4 DEF Crash, TypeOK
  <2>2. \A v \in Worker, i \in JobId : Held(v, i)'
    <3>1. \A i \in JobId : Held(w, i)'
      BY <2>1 DEF Held, StageShape, Active, NoTask
    <3>2. \A v \in Worker \ {w}, i \in JobId : Held(v, i)'
      BY <1>0, <1>4, <2>1 DEF Crash, LeaseInv, Held, TypeOK
    <3>. QED BY <3>1, <3>2
  <2>3. ExclusiveLease'
    BY <2>1 DEF LeaseInv, ExclusiveLease, Active, NoTask
  <2>. QED BY <1>4, <2>2, <2>3 DEF Crash, LeaseInv, RetryLeavesAttempts
<1>. QED BY <1>1, <1>2, <1>3, <1>4 DEF LoopStep

\* Time passes without expiring the lease of a worker still at its row.
LEMMA TickKeepsLease ==
  ASSUME ~MayOverrun, TypeOK, LeaseInv, KeyInv', Tick
  PROVE  LeaseInv'
<1>1. /\ task' = task /\ phase' = phase /\ nextId' = nextId /\ Timely
      /\ table' = [j \in JobId |-> AgedRow(table[j])]
  BY DEF Tick, Aged
<1>2. ASSUME NEW j \in JobId
      PROVE  /\ table'[j].status = table[j].status /\ table'[j].key = table[j].key
             /\ table'[j].attempts = table[j].attempts /\ table'[j].by = table[j].by
             /\ table'[j].lease <= table[j].lease + 1
             /\ table'[j].lease \in Nat
  <2>1. table[j] \in Row /\ table'[j] = AgedRow(table[j])
    BY <1>1 DEF TypeOK
  <2>2. \A d, l : LET r == [table[j] EXCEPT !.due = d, !.lease = l]
                 IN  /\ r.status = table[j].status /\ r.key = table[j].key
                     /\ r.attempts = table[j].attempts /\ r.by = table[j].by
                     /\ r.lease = l
    BY <2>1 DEF Row
  <2>3. PICK d, l : /\ table'[j] = [table[j] EXCEPT !.due = d, !.lease = l]
                    /\ l \in {table[j].lease, table[j].lease + 1}
    <3>1. CASE table[j].status = "absent"
      <4>1. table'[j] = [table[j] EXCEPT !.due = table[j].due, !.lease = table[j].lease]
        BY <2>1, <3>1 DEF AgedRow, Row
      <4>. QED BY <4>1
    <3>2. CASE table[j].status # "absent"
      BY <2>1, <3>2 DEF AgedRow
    <3>. QED BY <3>1, <3>2
  <2>4. table[j].lease \in Nat
    BY <2>1, OutboxAssumption DEF Row
  <2>. QED BY <2>2, <2>3, <2>4
<1>3. ASSUME NEW w \in Worker, NEW j \in JobId, Active(w, j), UnexpiredLease(w, j)
      PROVE  UnexpiredLease(w, j)'
  <2>1. table[j].lease + 1 < LeaseTimeout
    BY <1>1, <1>3 DEF Timely, HoldsLease, UnexpiredLease
  <2>2. table'[j].lease < LeaseTimeout
    BY <1>2, <2>1, OutboxAssumption DEF TypeOK, Row
  <2>. QED BY <1>2, <1>3, <2>2 DEF UnexpiredLease
<1>4. \A w \in Worker, j \in JobId : Held(w, j)'
  BY <1>1, <1>2, <1>3 DEF LeaseInv, Held, StageShape, Active, CopyAgrees, Exists
<1>5. ExclusiveLease' /\ RetryLeavesAttempts'
  BY <1>1, <1>2 DEF LeaseInv, ExclusiveLease, Active, RetryLeavesAttempts
<1>. QED BY <1>4, <1>5 DEF LeaseInv

LEMMA LeaseStep ==
  ASSUME ~MayOverrun
  PROVE  TypeOK /\ LeaseInv /\ [Next]_vars => LeaseInv'
<1>. SUFFICES ASSUME TypeOK, LeaseInv, [Next]_vars PROVE LeaseInv'
  OBVIOUS
<1>1. TypeOK' /\ KeyInv'
  BY TypeStep, KeyStep DEF LeaseInv
<1>2. CASE UNCHANGED vars
  BY <1>2 DEF vars, LeaseInv, KeyInv, RowShape, OneRowPerKey, Held, StageShape, Active,
     CopyAgrees, UnexpiredLease, ExclusiveLease, RetryLeavesAttempts, Exists
<1>. QED
  BY <1>1, <1>2, EnqueueKeepsLease, LoopKeepsLease, JobStepKeepsLease, TickKeepsLease DEF Next, Act, WorkerStep

LEMMA LeaseFromTheStart ==
  ASSUME ~MayOverrun
  PROVE  Spec => []LeaseInv
<1>1. Init => LeaseInv
  BY OutboxAssumption
     DEF Init, LeaseInv, KeyInv, RowShape, OneRowPerKey, Held, StageShape, Active,
         ExclusiveLease, RetryLeavesAttempts, Exists, NoRow, NoTask
<1>. QED BY <1>1, TypeCorrect, LeaseStep, PTL DEF Spec

\* When no job outlasts its lease, no row is ever in the hands of two workers, for
\* any number of workers, rows and keys, and although no mark checks its owner.
THEOREM LeasesAreExclusive ==
  ASSUME ~MayOverrun
  PROVE  Spec => []ExclusiveLease
<1>1. LeaseInv => ExclusiveLease
  BY DEF LeaseInv
<1>. QED BY <1>1, LeaseFromTheStart, PTL

\* Under the same assumption a row waits for a retry only while it may have one.
THEOREM RetriesAreBounded ==
  ASSUME ~MayOverrun
  PROVE  Spec => []RetryLeavesAttempts
<1>1. LeaseInv => RetryLeavesAttempts
  BY DEF LeaseInv
<1>. QED BY <1>1, LeaseFromTheStart, PTL

-----------------------------------------------------------------------------
(* At most once.  The senders of this section report an accepted message as "ok" *)
(* or with an error isAmbiguousSendError recognises.                             *)

HonestReports == AcceptedReports \subseteq {"ok", "ambiguous"}

\* Row i goes on backing a gate that remembers its delivery.
StillBacks(i) ==
  Exists(table, i) /\ accepted[i] = 1 =>
    /\ Exists(table', i) /\ table'[i].key = table[i].key /\ accepted'[i] = 1
    /\ table'[i].status = "sent" => table'[i] = table[i] \/ table'[i].due = 0

LEMMA GateKept ==
  ASSUME TypeOK, AcceptInv, gate' = gate, \A i \in JobId : StillBacks(i)
  PROVE  \A w \in Worker, k \in Key : GateBacked(w, k)'
<1>. SUFFICES ASSUME NEW w \in Worker, NEW k \in Key, gate[w][k] < DuplicateWindow
              PROVE  \E j \in JobId :
                       /\ Exists(table', j) /\ table'[j].key = k /\ accepted'[j] = 1
                       /\ table'[j].status = "sent" => 0 - table'[j].due <= gate[w][k]
  BY DEF GateBacked
<1>1. PICK j \in JobId :
        /\ Exists(table, j) /\ table[j].key = k /\ accepted[j] = 1
        /\ table[j].status = "sent" => 0 - table[j].due <= gate[w][k]
  BY DEF AcceptInv, GateBacked
<1>2. gate[w][k] >= 0
  BY OutboxAssumption DEF TypeOK
<1>. QED BY <1>1, <1>2 DEF StillBacks

LEMMA LocalAcceptance ==
  ASSUME TypeOK, LeaseInv, AcceptInv, NEW w \in Worker, NEW j \in JobId,
         OnlyTouches(w, j), Active(w, j), \A i \in JobId \ {j} : accepted'[i] = accepted[i],
         RowAcceptance(j)', TaskAcceptance(w, j)'
  PROVE  \A i \in JobId : RowAcceptance(i)' /\ \A v \in Worker : TaskAcceptance(v, i)'
<1>. SUFFICES ASSUME NEW i \in JobId, NEW v \in Worker
              PROVE  RowAcceptance(i)' /\ TaskAcceptance(v, i)'
  OBVIOUS
<1>1. CASE i # j
  BY <1>1 DEF AcceptInv, RowAcceptance, TaskAcceptance, OnlyTouches
<1>2. CASE i = j /\ v # w
  <2>1. task'[v][j] = task[v][j] /\ ~Active(v, j)
    BY <1>2 DEF OnlyTouches, LeaseInv, ExclusiveLease
  <2>2. task'[v][j] = NoTask
    BY <2>1 DEF LeaseInv, Held, StageShape, Active
  <2>. QED BY <1>2, <2>2 DEF TaskAcceptance, NoTask
<1>3. CASE i = j /\ v = w
  BY <1>3
<1>. QED BY <1>1, <1>2, <1>3

\* The gate lets every job through that got past the outbox.
LEMMA NotSuppressed ==
  ASSUME TypeOK, LeaseInv, AcceptInv, NEW w \in Worker, NEW j \in JobId,
         task[w][j].stage = "queued"
  PROVE  ~Suppressed(w, task[w][j].key)
<1>. DEFINE k == task[w][j].key
<1>1. \A i \in JobId : task[w][i].stage \in {"queued", "sending", "accepted"} =>
        Exists(table, i) /\ table[i].key = task[w][i].key
  BY DEF LeaseInv, Held, Active, CopyAgrees, UnexpiredLease, Exists
<1>2. k \in Key /\ accepted[j] = 0
  BY <1>1 DEF LeaseInv, KeyInv, RowShape, AcceptInv, TaskAcceptance
<1>3. ~(gate[w][k] < DuplicateWindow)
  BY <1>1, <1>2 DEF AcceptInv, GateBacked, LeaseInv, KeyInv, OneRowPerKey
<1>4. ~ \E i \in JobId : task[w][i].key = k /\ task[w][i].stage \in {"sending", "accepted"}
  BY <1>1 DEF LeaseInv, KeyInv, OneRowPerKey
<1>. QED BY <1>3, <1>4 DEF Suppressed

\* A step whose table statement moves row j alone and whose gate is unchanged.
LEMMA JobStepAcceptance ==
  ASSUME TypeOK, LeaseInv, AcceptInv, NEW w \in Worker, NEW j \in JobId,
         OnlyTouches(w, j), Active(w, j), accepted' = accepted, gate' = gate,
         RowAcceptance(j)', TaskAcceptance(w, j)', StillBacks(j)
  PROVE  AcceptInv'
<1>1. \A i \in JobId : StillBacks(i)
  BY DEF StillBacks, OnlyTouches, Exists
<1>. QED BY <1>1, LocalAcceptance, GateKept DEF AcceptInv

LEMMA JobStepKeepsAcceptance ==
  ASSUME HonestReports, TypeOK, LeaseInv, AcceptInv,
         NEW w \in Worker, NEW j \in JobId, JobStep(w, j) \/ JobFault(w, j)
  PROVE  AcceptInv'
<1>1. OnlyTouches(w, j) /\ nextId' = nextId
  BY JobStepTouches DEF OnlyTouches
<1>2. Active(w, j)
  BY DEF JobStep, JobFault, RefuseTransport, StartDispatch, ProviderAccepts, SendFails,
         SendReturns, PersistSent, Settle, DispatchMarkFails, PersistFails, SettleLost, Active
<1>3. Held(w, j) /\ CopyAgrees(w, j) /\ RowAcceptance(j) /\ TaskAcceptance(w, j)
  BY <1>2 DEF LeaseInv, Held, AcceptInv
<1>4. task[w][j].stage # "settle" =>
        /\ table[j].status = "processing" /\ Exists(table, j)
        /\ task[w][j].key = table[j].key
  BY <1>3 DEF CopyAgrees, UnexpiredLease, Exists
<1>5. CASE RefuseTransport(w, j)
  <2>1. table' = table /\ accepted' = accepted /\ gate' = gate /\ accepted[j] = 0
        /\ task'[w][j].stage = "settle" /\ task'[w][j].result = "permanent"
    BY <1>3, <1>5, TaskAfter DEF RefuseTransport, TaskAcceptance
  <2>2. RowAcceptance(j)' /\ TaskAcceptance(w, j)' /\ StillBacks(j)
    BY <1>1, <1>3, <2>1 DEF RowAcceptance, TaskAcceptance, StillBacks, Exists
  <2>. QED BY <1>1, <1>2, <2>1, <2>2, JobStepAcceptance
<1>6. CASE StartDispatch(w, j)
  <2>1. /\ accepted' = accepted /\ gate' = gate /\ accepted[j] = 0
        /\ table' = MarkDispatchStarted(table, j) /\ task[w][j].stage = "queued"
    BY <1>3, <1>6 DEF StartDispatch, TaskAcceptance
  <2>2. task'[w][j].stage = "sending" /\ task'[w][j].result = "none"
    BY <1>6, <2>1, NotSuppressed, TaskAfter DEF StartDispatch
  <2>3. table'[j].status = "processing" /\ table'[j].dispatched
    BY <1>4, <2>1, RowAfter
  <2>4. RowAcceptance(j)' /\ TaskAcceptance(w, j)' /\ StillBacks(j)
    BY <1>1, <1>3, <2>1, <2>2, <2>3 DEF RowAcceptance, TaskAcceptance, StillBacks, Exists
  <2>. QED BY <1>1, <1>2, <2>1, <2>4, JobStepAcceptance
<1>7. CASE DispatchMarkFails(w, j)
  <2>1. /\ accepted' = accepted /\ gate' = gate /\ accepted[j] = 0
        /\ table' \in {table, MarkDispatchStarted(table, j)} /\ task[w][j].stage = "queued"
    BY <1>3, <1>7 DEF DispatchMarkFails, TaskAcceptance
  <2>2. task'[w][j].stage = "settle" /\ task'[w][j].result \in {"ambiguous", "transient"}
    BY <1>7, TaskAfter DEF DispatchMarkFails
  <2>3. table'[j].status = "processing"
    BY <1>4, <2>1, RowAfter
  <2>4. RowAcceptance(j)' /\ TaskAcceptance(w, j)' /\ StillBacks(j)
    BY <1>1, <1>3, <2>1, <2>2, <2>3 DEF RowAcceptance, TaskAcceptance, StillBacks, Exists
  <2>. QED BY <1>1, <1>2, <2>1, <2>4, JobStepAcceptance
<1>8. CASE ProviderAccepts(w, j)
  <2>1. /\ table' = table /\ gate' = gate /\ accepted[j] = 0 /\ table[j].dispatched
        /\ accepted' = [accepted EXCEPT ![j] = @ + 1] /\ task[w][j].stage = "sending"
    BY <1>3, <1>8 DEF ProviderAccepts, TaskAcceptance
  <2>2. accepted'[j] = 1 /\ \A i \in JobId \ {j} : accepted'[i] = accepted[i]
    BY <2>1 DEF TypeOK
  <2>3. task'[w][j].stage = "accepted" /\ task'[w][j].result = "none"
    BY <1>8, TaskAfter DEF ProviderAccepts
  <2>4. j < nextId /\ nextId \in Nat /\ j \in Nat
    BY <1>2 DEF LeaseInv, Held, TypeOK, JobId
  <2>5. RowAcceptance(j)' /\ TaskAcceptance(w, j)'
    BY <1>1, <1>4, <2>1, <2>2, <2>3, <2>4 DEF RowAcceptance, TaskAcceptance
  <2>6. \A i \in JobId : StillBacks(i)
    BY <2>1, <2>2 DEF StillBacks, Exists
  <2>. QED BY <1>1, <1>2, <2>1, <2>2, <2>5, <2>6, LocalAcceptance, GateKept DEF AcceptInv
<1>9. CASE SendFails(w, j)
  <2>1. /\ table' = table /\ accepted' = accepted /\ gate' = gate /\ accepted[j] = 0
        /\ task'[w][j].stage = "settle" /\ task'[w][j].result \in {"ambiguous", "transient"}
    BY <1>3, <1>9, TaskAfter DEF SendFails, TaskAcceptance
  <2>2. RowAcceptance(j)' /\ TaskAcceptance(w, j)' /\ StillBacks(j)
    BY <1>1, <1>3, <2>1 DEF RowAcceptance, TaskAcceptance, StillBacks, Exists
  <2>. QED BY <1>1, <1>2, <2>1, <2>2, JobStepAcceptance
<1>10. CASE SendReturns(w, j)
  <2>1. /\ table' = table /\ accepted' = accepted /\ accepted[j] = 1
        /\ task[w][j].stage = "accepted"
    BY <1>3, <1>10 DEF SendReturns, TaskAcceptance
  <2>2. PICK r \in {"ok", "ambiguous"} :
          /\ Goto(w, j, IF r = "ok" THEN "persist" ELSE "settle",
                        IF r = "persist_error" THEN "transient" ELSE r)
          /\ gate' = IF r \in {"ok", "persist_error"} /\ task[w][j].key \in Gated
                     THEN [gate EXCEPT ![w][task[w][j].key] = 0] ELSE gate
    BY <1>10 DEF SendReturns, HonestReports
  <2>3. /\ task'[w][j].stage \in {"persist", "settle"}
        /\ task'[w][j].result \in {"ok", "ambiguous"}
    BY <2>2, TaskAfter
  <2>4. RowAcceptance(j)' /\ TaskAcceptance(w, j)' /\ StillBacks(j)
    BY <1>1, <1>3, <2>1, <2>3 DEF RowAcceptance, TaskAcceptance, StillBacks, Exists
  <2>5. \A i \in JobId : RowAcceptance(i)' /\ \A v \in Worker : TaskAcceptance(v, i)'
    BY <1>1, <1>2, <2>1, <2>4, LocalAcceptance
  <2>6. ASSUME NEW v \in Worker, NEW k \in Key PROVE GateBacked(v, k)'
    <3>1. gate'[v][k] = gate[v][k] \/ (gate'[v][k] = 0 /\ v = w /\ k = task[w][j].key)
      BY <2>2 DEF TypeOK
    <3>2. CASE gate'[v][k] = gate[v][k]
      BY <2>1, <3>2 DEF AcceptInv, GateBacked, Exists
    <3>3. CASE gate'[v][k] = 0 /\ k = task[w][j].key
      BY <1>4, <2>1, <3>3 DEF GateBacked, Exists
    <3>. QED BY <3>1, <3>2, <3>3
  <2>. QED BY <2>5, <2>6 DEF AcceptInv
<1>11. CASE PersistSent(w, j)
  <2>1. /\ table' = MarkSent(table, j) /\ accepted' = accepted /\ gate' = gate
        /\ accepted[j] = 1 /\ task'[w][j] = NoTask /\ task[w][j].stage = "persist"
    BY <1>3, <1>11, TaskAfter DEF PersistSent, TaskAcceptance
  <2>2. table'[j].status = "sent" /\ table'[j].key = table[j].key /\ table'[j].due = 0
    BY <1>4, <2>1, RowAfter
  <2>3. RowAcceptance(j)' /\ TaskAcceptance(w, j)' /\ StillBacks(j)
    BY <1>1, <1>3, <2>1, <2>2 DEF RowAcceptance, TaskAcceptance, StillBacks, Exists, NoTask
  <2>. QED BY <1>1, <1>2, <2>1, <2>3, JobStepAcceptance
<1>12. CASE PersistFails(w, j)
  <2>1. /\ table' \in {table, MarkSent(table, j)} /\ accepted' = accepted /\ gate' = gate
        /\ accepted[j] = 1 /\ task[w][j].stage = "persist"
    BY <1>3, <1>12 DEF PersistFails, TaskAcceptance
  <2>2. task[w][j].result = "ok"
    BY <1>3, <2>1 DEF Held, StageShape, TaskAcceptance, NoTask
  <2>3. task'[w][j].stage = "settle" /\ task'[w][j].result = "postsend"
    BY <1>12, <2>2, TaskAfter DEF PersistFails
  <2>4. \/ table'[j] = table[j]
        \/ table'[j].status = "sent" /\ table'[j].key = table[j].key /\ table'[j].due = 0
    BY <1>4, <2>1, RowAfter
  <2>5. RowAcceptance(j)' /\ TaskAcceptance(w, j)' /\ StillBacks(j)
    BY <1>1, <1>3, <2>1, <2>3, <2>4 DEF RowAcceptance, TaskAcceptance, StillBacks, Exists
  <2>. QED BY <1>1, <1>2, <2>1, <2>5, JobStepAcceptance
<1>13. CASE Settle(w, j)
  <2>1. /\ table' = Transition(table, j, task[w][j]) /\ accepted' = accepted /\ gate' = gate
        /\ task'[w][j] = NoTask /\ task[w][j].stage = "settle"
    BY <1>13, TaskAfter DEF Settle
  <2>2. TaskAcceptance(w, j)'
    BY <2>1 DEF TaskAcceptance, NoTask
  <2>3. CASE ~Exists(table, j)
    <3>1. table' = table
      BY <2>1, <2>3, RowAfter DEF Transition, Verdict
    <3>2. RowAcceptance(j)' /\ StillBacks(j)
      BY <1>1, <1>3, <2>1, <3>1 DEF RowAcceptance, StillBacks, Exists
    <3>. QED BY <1>1, <1>2, <2>1, <2>2, <3>2, JobStepAcceptance
  <2>4. CASE Exists(table, j) /\ task[w][j].result \in {"postsend", "ambiguous"}
    <3>1. table'[j].status = "uncertain" /\ table'[j].key = table[j].key
      BY <2>1, <2>4, RowAfter DEF Transition, Verdict
    <3>2. RowAcceptance(j)' /\ StillBacks(j)
      BY <1>1, <1>3, <2>1, <3>1 DEF RowAcceptance, StillBacks, Exists
    <3>. QED BY <1>1, <1>2, <2>1, <2>2, <3>2, JobStepAcceptance
  <2>5. CASE Exists(table, j) /\ task[w][j].result \in {"transient", "permanent"}
    <3>1. accepted[j] = 0
      BY <1>3, <2>5 DEF TaskAcceptance
    <3>2. table'[j].status \in {"failed", "dead_lettered"} /\ table'[j].key = table[j].key
      BY <2>1, <2>5, RowAfter DEF Transition, Verdict
    <3>3. RowAcceptance(j)' /\ StillBacks(j)
      BY <1>1, <1>3, <2>1, <3>1, <3>2 DEF RowAcceptance, StillBacks, Exists
    <3>. QED BY <1>1, <1>2, <2>1, <2>2, <3>3, JobStepAcceptance
  <2>6. task[w][j].result \in {"ambiguous", "transient", "permanent", "postsend"}
    BY <1>3, <2>1 DEF Held, StageShape, NoTask
  <2>. QED BY <2>3, <2>4, <2>5, <2>6
<1>14. CASE SettleLost(w, j)
  <2>1. table' = table /\ accepted' = accepted /\ gate' = gate /\ task'[w][j] = NoTask
    BY <1>14, TaskAfter DEF SettleLost
  <2>2. RowAcceptance(j)' /\ TaskAcceptance(w, j)' /\ StillBacks(j)
    BY <1>1, <1>3, <2>1 DEF RowAcceptance, TaskAcceptance, StillBacks, Exists, NoTask
  <2>. QED BY <1>1, <1>2, <2>1, <2>2, JobStepAcceptance
<1>. QED BY <1>5, <1>6, <1>7, <1>8, <1>9, <1>10, <1>11, <1>12, <1>13, <1>14 DEF JobStep, JobFault

\* An expired row no longer backs a gate: its memory is as old.
LEMMA EnqueueKeepsAcceptance ==
  ASSUME TypeOK, TypeOK', LeaseInv, AcceptInv,
         NEW K \in (SUBSET Key) \ {{}}, NEW delay \in Stagger, EnqueueMany(K, delay)
  PROVE  AcceptInv'
<1>0. /\ nextId' >= nextId
      /\ \A i \in JobId :
           \/ table'[i] = table[i]
           \/ Expired(table, i) /\ table'[i] = NoRow
           \/ i >= nextId /\ i < nextId' /\ table'[i].status = "pending"
  BY EnqueuedRows
<1>1. task' = task /\ gate' = gate /\ accepted' = accepted
  BY DEF EnqueueMany
<1>2. nextId \in Nat /\ nextId' \in Nat /\ \A i \in JobId : i \in Nat
  BY DEF TypeOK, JobId
<1>3. ASSUME NEW i \in JobId PROVE RowAcceptance(i)'
  <2>1. RowAcceptance(i) /\ (i >= nextId' => i >= nextId)
    BY <1>0, <1>2 DEF AcceptInv
  <2>2. CASE table'[i] = table[i]
    BY <1>1, <2>1, <2>2 DEF RowAcceptance
  <2>3. CASE table'[i] = NoRow
    BY <1>1, <2>1, <2>3 DEF RowAcceptance, NoRow
  <2>4. CASE i >= nextId /\ table'[i].status = "pending"
    BY <1>1, <2>1, <2>4 DEF RowAcceptance
  <2>. QED BY <1>0, <2>2, <2>3, <2>4
<1>4. ASSUME NEW w \in Worker, NEW j \in JobId PROVE TaskAcceptance(w, j)'
  <2>1. TaskAcceptance(w, j)
    BY DEF AcceptInv
  <2>2. CASE task[w][j].stage = "sending"
    <3>1. table[j].status = "processing" /\ j < nextId
      BY <2>2 DEF LeaseInv, Held, Active, CopyAgrees, UnexpiredLease
    <3>2. ~Expired(table, j) /\ ~(j >= nextId)
      BY <1>2, <3>1 DEF Expired
    <3>3. table'[j] = table[j]
      BY <1>0, <3>2
    <3>. QED BY <1>1, <2>1, <3>3 DEF TaskAcceptance
  <2>3. CASE task[w][j].stage # "sending"
    BY <1>1, <2>1, <2>3 DEF TaskAcceptance
  <2>. QED BY <2>2, <2>3
<1>5. ASSUME NEW w \in Worker, NEW k \in Key, gate[w][k] < DuplicateWindow
      PROVE  GateBacked(w, k)'
  <2>1. PICK j \in JobId :
          /\ Exists(table, j) /\ table[j].key = k /\ accepted[j] = 1
          /\ table[j].status = "sent" => 0 - table[j].due <= gate[w][k]
    BY <1>5 DEF AcceptInv, GateBacked
  <2>2. ~Expired(table, j)
    <3>1. CASE table[j].status = "sent"
      <4>1. table[j].due \in Int /\ gate[w][k] \in Int /\ DuplicateWindow \in Int
        BY OutboxAssumption DEF TypeOK, Row
      <4>. QED BY <1>5, <2>1, <3>1, <4>1 DEF Expired
    <3>2. CASE table[j].status # "sent"
      BY <2>1, <3>2 DEF Expired, AcceptInv, RowAcceptance
    <3>. QED BY <3>1, <3>2
  <2>3. ~(j >= nextId)
    BY <2>1 DEF AcceptInv, RowAcceptance
  <2>4. table'[j] = table[j]
    BY <1>0, <2>2, <2>3
  <2>. QED BY <1>1, <2>1, <2>4 DEF GateBacked, Exists
<1>6. \A w \in Worker, k \in Key : GateBacked(w, k)'
  BY <1>1, <1>5 DEF GateBacked
<1>. QED BY <1>3, <1>4, <1>6 DEF AcceptInv

LEMMA LoopKeepsAcceptance ==
  ASSUME TypeOK, LeaseInv, AcceptInv, NEW w \in Worker, LoopStep(w) \/ Crash(w)
  PROVE  AcceptInv'
<1>0. /\ accepted' = accepted /\ nextId' = nextId
      /\ LoopStep(w) => gate' = gate
  BY DEF LoopStep, Recover, ReserveBatch, FinishTick, Restart, Crash
<1>1. CASE Recover(w)
  <2>1. task' = task /\ gate' = gate
    BY <1>1 DEF Recover
  <2>2. ASSUME NEW i \in JobId
        PROVE  \/ table'[i] = table[i]
               \/ /\ table'[i].status = "uncertain" /\ table'[i].key = table[i].key
                  /\ StaleDispatch(table, i)
    <3>1. table'[i] = IF StaleDispatch(table, i) THEN Undecided(table[i]) ELSE table[i]
      BY <1>1 DEF Recover, RecoverStale
    <3>2. Undecided(table[i]).status = "uncertain" /\ Undecided(table[i]).key = table[i].key
      BY DEF Undecided, TypeOK, Row
    <3>. QED BY <3>1, <3>2
  <2>3. \A i \in JobId : RowAcceptance(i)' /\ StillBacks(i)
    BY <1>0, <2>2 DEF AcceptInv, RowAcceptance, StillBacks, Exists
  <2>4. \A v \in Worker, i \in JobId : TaskAcceptance(v, i)'
    BY <1>0, <2>1, <2>2, HeldIsOutOfReach DEF AcceptInv, TaskAcceptance, Active
  <2>. QED BY <2>1, <2>3, <2>4, GateKept DEF AcceptInv
<1>2. CASE ReserveBatch(w)
  <2>. DEFINE jobs == Picked(table)
  <2>1. \A i \in JobId : i \notin jobs =>
          table'[i] = table[i] /\ \A v \in Worker : task'[v][i] = task[v][i]
    BY <1>2 DEF ReserveBatch, Reserve, TypeOK
  <2>2. ASSUME NEW i \in JobId, i \in jobs
        PROVE  /\ table'[i].status = "processing" /\ table'[i].key = table[i].key
               /\ accepted[i] = 0
    <3>1. table'[i] = [table[i] EXCEPT !.status = "processing", !.lease = 0, !.by = w,
                                      !.attempts = NextAttempt(@)]
      BY <1>2, <2>2 DEF ReserveBatch, Reserve
    <3>2. table[i] \in Row /\ Reservable(table, i)
      BY <2>2 DEF TypeOK, Picked
    <3>3. accepted[i] = 0
      BY <3>2 DEF Reservable, AcceptInv, RowAcceptance
    <3>. QED BY <3>1, <3>2, <3>3 DEF Row
  <2>3. ASSUME NEW i \in JobId, i \in jobs
        PROVE  /\ task'[w][i].stage = "queued" /\ task'[w][i].result = "none"
               /\ \A v \in Worker \ {w} : task'[v][i] = task[v][i]
    BY <1>2, <2>3 DEF ReserveBatch, TypeOK
  <2>4. \A v \in Worker, i \in JobId : i \in jobs => ~Active(v, i)
    BY HeldIsOutOfReach DEF Picked
  <2>. HIDE DEF jobs
  <2>5. \A i \in JobId : RowAcceptance(i)' /\ StillBacks(i)
    BY <1>0, <2>1, <2>2 DEF AcceptInv, RowAcceptance, StillBacks, Exists
  <2>6. ASSUME NEW v \in Worker, NEW i \in JobId PROVE TaskAcceptance(v, i)'
    <3>1. CASE i \notin jobs
      BY <1>0, <2>1, <3>1 DEF AcceptInv, TaskAcceptance
    <3>2. CASE i \in jobs /\ v = w
      BY <1>0, <2>2, <2>3, <3>2 DEF TaskAcceptance
    <3>3. CASE i \in jobs /\ v # w
      <4>1. task'[v][i] = task[v][i] /\ ~Active(v, i)
        BY <2>3, <2>4, <3>3
      <4>. QED BY <1>0, <4>1 DEF AcceptInv, TaskAcceptance, Active
    <3>. QED BY <3>1, <3>2, <3>3
  <2>7. gate' = gate
    BY <1>2 DEF ReserveBatch
  <2>. QED BY <2>5, <2>6, <2>7, GateKept DEF AcceptInv
<1>3. CASE FinishTick(w) \/ Restart(w) \/ Crash(w)
  <2>1. table' = table
    BY <1>3 DEF FinishTick, Restart, Crash
  <2>2. \A v \in Worker, i \in JobId : task'[v][i] \in {task[v][i], NoTask}
    BY <1>3 DEF FinishTick, Restart, Crash, TypeOK
  <2>3. \A i \in JobId : RowAcceptance(i)'
    BY <1>0, <2>1 DEF AcceptInv, RowAcceptance
  <2>4. \A v \in Worker, i \in JobId : TaskAcceptance(v, i)'
    BY <1>0, <2>1, <2>2 DEF AcceptInv, TaskAcceptance, NoTask
  <2>5. ASSUME NEW v \in Worker, NEW k \in Key PROVE GateBacked(v, k)'
    <3>1. gate'[v][k] = gate[v][k] \/ ~(gate'[v][k] < DuplicateWindow)
      <4>1. CASE gate' = gate
        BY <4>1
      <4>2. CASE Crash(w)
        <5>1. PICK lost \in SUBSET Key :
                gate' = [gate EXCEPT ![w] = [q \in Key |-> IF q \in lost THEN DuplicateWindow
                                                           ELSE @[q]]]
          BY <4>2 DEF Crash, LoadEntries
        <5>2. gate'[v][k] \in {gate[v][k], DuplicateWindow}
          BY <5>1 DEF TypeOK
        <5>. QED BY <5>2, OutboxAssumption
      <4>. QED BY <1>3, <4>1, <4>2 DEF FinishTick, Restart
    <3>. QED BY <1>0, <2>1, <3>1 DEF AcceptInv, GateBacked, Exists
  <2>. QED BY <2>3, <2>4, <2>5 DEF AcceptInv
<1>. QED BY <1>1, <1>2, <1>3 DEF LoopStep

\* Rows and gates age together.
LEMMA TickKeepsAcceptance ==
  ASSUME TypeOK, AcceptInv, Tick
  PROVE  AcceptInv'
<1>0. /\ accepted' = accepted /\ nextId' = nextId /\ task' = task
      /\ \A j \in JobId : table'[j] = AgedRow(table[j]) /\ table[j] \in Row
      /\ \A w \in Worker, k \in Key :
           gate'[w][k] = IF gate[w][k] < DuplicateWindow THEN gate[w][k] + 1 ELSE gate[w][k]
  BY DEF Tick, Aged, TypeOK
<1>1. ASSUME NEW j \in JobId
      PROVE  /\ table'[j].status = table[j].status /\ table'[j].key = table[j].key
             /\ table'[j].dispatched = table[j].dispatched
             /\ \/ table'[j].due = table[j].due
                \/ table'[j].due = table[j].due - 1
             /\ table[j].due <= -DuplicateWindow => table'[j].due = table[j].due
  <2>1. \A d, l : LET r == [table[j] EXCEPT !.due = d, !.lease = l]
                 IN  /\ r.status = table[j].status /\ r.key = table[j].key
                     /\ r.dispatched = table[j].dispatched /\ r.due = d
    BY <1>0 DEF Row
  <2>2. table[j].due \in Int /\ -DuplicateWindow \in Int
    BY <1>0, OutboxAssumption DEF Row
  <2>3. CASE table[j].status = "absent"
    BY <1>0, <2>3 DEF AgedRow
  <2>4. CASE table[j].status # "absent"
    <3>1. PICK l : table'[j] = [table[j] EXCEPT
                     !.due = IF table[j].due > -DuplicateWindow THEN table[j].due - 1
                             ELSE table[j].due, !.lease = l]
      BY <1>0, <2>4 DEF AgedRow
    <3>2. PICK d : /\ table'[j] = [table[j] EXCEPT !.due = d, !.lease = l]
                   /\ d = IF table[j].due > -DuplicateWindow THEN table[j].due - 1
                          ELSE table[j].due
      BY <3>1
    <3>. QED BY <2>1, <2>2, <3>2
  <2>. QED BY <2>3, <2>4
<1>2. \A j \in JobId : RowAcceptance(j)'
  BY <1>0, <1>1 DEF AcceptInv, RowAcceptance
<1>3. \A w \in Worker, j \in JobId : TaskAcceptance(w, j)'
  BY <1>0, <1>1 DEF AcceptInv, TaskAcceptance
<1>4. ASSUME NEW w \in Worker, NEW k \in Key PROVE GateBacked(w, k)'
  <2>. SUFFICES ASSUME gate'[w][k] < DuplicateWindow
                PROVE  \E j \in JobId :
                         /\ Exists(table', j) /\ table'[j].key = k /\ accepted'[j] = 1
                         /\ table'[j].status = "sent" => 0 - table'[j].due <= gate'[w][k]
    BY DEF GateBacked
  <2>1. gate[w][k] \in Int /\ DuplicateWindow \in Int
    BY OutboxAssumption DEF TypeOK
  <2>2. gate[w][k] < DuplicateWindow /\ gate'[w][k] = gate[w][k] + 1
    BY <1>0, <2>1
  <2>3. PICK j \in JobId :
          /\ Exists(table, j) /\ table[j].key = k /\ accepted[j] = 1
          /\ table[j].status = "sent" => 0 - table[j].due <= gate[w][k]
    BY <2>2 DEF AcceptInv, GateBacked
  <2>4. table[j].due \in Int
    BY OutboxAssumption DEF TypeOK, Row
  <2>. QED BY <1>0, <1>1, <2>1, <2>2, <2>3, <2>4 DEF Exists
<1>. QED BY <1>2, <1>3, <1>4 DEF AcceptInv

LEMMA AcceptanceFromTheStart ==
  ASSUME ~MayOverrun, HonestReports
  PROVE  Spec => []AcceptInv
<1>1. Init => AcceptInv
  BY OutboxAssumption
     DEF Init, AcceptInv, RowAcceptance, TaskAcceptance, GateBacked, NoRow, NoTask
<1>2. TypeOK /\ LeaseInv /\ TypeOK' /\ AcceptInv /\ [Next]_vars => AcceptInv'
  <2>1. CASE UNCHANGED vars
    BY <2>1 DEF vars, AcceptInv, RowAcceptance, TaskAcceptance, GateBacked, Exists
  <2>. QED BY <2>1, EnqueueKeepsAcceptance, LoopKeepsAcceptance, JobStepKeepsAcceptance,
              TickKeepsAcceptance DEF Next, Act, WorkerStep
<1>. QED BY <1>1, <1>2, TypeCorrect, LeaseFromTheStart, PTL DEF Spec

\* With workers that keep to their lease and honest reports, no sequence of
\* crashes, lost statements, retries and recoveries delivers a job twice.
THEOREM DeliveredAtMostOnce ==
  ASSUME ~MayOverrun, HonestReports
  PROVE  Spec => []AtMostOnce
<1>1. TypeOK /\ AcceptInv => AtMostOnce
  BY DEF AcceptInv, RowAcceptance, AtMostOnce
<1>. QED BY <1>1, TypeCorrect, AcceptanceFromTheStart, PTL

\* Then also the outbox tells the truth: sent rows were accepted by the provider,
\* and rows waiting, failed or given up were not.
THEOREM VerdictsAreTruthful ==
  ASSUME ~MayOverrun, HonestReports
  PROVE  Spec => []TruthfulVerdict
<1>1. AcceptInv => TruthfulVerdict
  BY DEF AcceptInv, RowAcceptance, TruthfulVerdict
<1>. QED BY <1>1, AcceptanceFromTheStart, PTL

\* And the in-process gate of the WhatsApp sender never swallows a job the outbox
\* handed out: whatever it remembers still has its row in the outbox.
THEOREM GateIsRedundant ==
  ASSUME ~MayOverrun, HonestReports
  PROVE  Spec => []GateNeverSwallows
<1>1. AcceptInv => GateNeverSwallows
  BY DEF AcceptInv, TaskAcceptance, GateNeverSwallows
<1>. QED BY <1>1, AcceptanceFromTheStart, PTL

LEMMA SettledStep ==
  ASSUME TypeOK, LeaseInv, AcceptInv, [Next]_vars, NEW j \in JobId
  PROVE  SettledRowStays(j)
<1>. USE DEF SettledRowStays
<1>0. table'[j].status = table[j].status => SettledRowStays(j)
  OBVIOUS
<1>1. ASSUME NEW K \in (SUBSET Key) \ {{}}, NEW delay \in Stagger, EnqueueMany(K, delay)
      PROVE  SettledRowStays(j)
  <2>1. \/ table'[j] = table[j]
        \/ Expired(table, j) /\ table'[j] = NoRow
        \/ j >= nextId
    BY <1>1, EnqueuedRows
  <2>2. Exists(table, j) => ~(j >= nextId)
    BY DEF LeaseInv, KeyInv, RowShape, TypeOK, JobId
  <2>. QED BY <2>1, <2>2 DEF Exists, Expired, NoRow
<1>2. ASSUME NEW w \in Worker, LoopStep(w) \/ Crash(w) PROVE SettledRowStays(j)
  <2>1. CASE Recover(w)
    BY <2>1 DEF Recover, RecoverStale, StaleDispatch
  <2>2. CASE ReserveBatch(w)
    BY <2>2 DEF ReserveBatch, Reserve, Picked, Reservable
  <2>3. CASE FinishTick(w) \/ Restart(w) \/ Crash(w)
    BY <1>0, <2>3 DEF FinishTick, Restart, Crash
  <2>. QED BY <1>2, <2>1, <2>2, <2>3 DEF LoopStep
<1>3. ASSUME NEW w \in Worker, NEW i \in JobId, JobStep(w, i) \/ JobFault(w, i)
      PROVE  SettledRowStays(j)
  <2>1. CASE i # j
    BY <1>0, <1>3, <2>1, JobStepTouches DEF OnlyTouches
  <2>2. CASE i = j /\ task[w][j].stage # "settle"
    <3>1. Active(w, j)
      BY <1>3, <2>2
         DEF JobStep, JobFault, RefuseTransport, StartDispatch, ProviderAccepts, SendFails,
             SendReturns, PersistSent, Settle, DispatchMarkFails, PersistFails, SettleLost,
             Active
    <3>. QED BY <2>2, <3>1 DEF LeaseInv, Held, CopyAgrees, UnexpiredLease
  <2>3. CASE i = j /\ task[w][j].stage = "settle"
    <3>1. table' \in {table, Transition(table, j, task[w][j])}
      BY <1>3, <2>3
         DEF JobStep, JobFault, RefuseTransport, StartDispatch, ProviderAccepts, SendFails,
             SendReturns, PersistSent, Settle, DispatchMarkFails, PersistFails, SettleLost
    <3>2. table[j].status \in {"processing", "sent", "absent"}
      BY <2>3 DEF LeaseInv, Held, Active, CopyAgrees, UnexpiredLease
    <3>3. CASE table[j].status = "sent"
      <4>1. accepted[j] = 1
        BY <3>3 DEF AcceptInv, RowAcceptance
      <4>2. task[w][j].result \in {"ambiguous", "postsend"}
        BY <2>3, <4>1 DEF LeaseInv, Held, StageShape, AcceptInv, TaskAcceptance, NoTask
      <4>3. Transition(table, j, task[w][j]) = MarkUncertain(table, j)
        BY <4>2 DEF Transition, Verdict
      <4>. QED BY <3>1, <3>3, <4>3, RowAfter DEF Exists
    <3>. QED BY <3>2, <3>3
  <2>. QED BY <2>1, <2>2, <2>3
<1>4. CASE Tick
  BY <1>0, <1>4 DEF Tick, Aged, AgedRow, TypeOK, Row
<1>5. CASE UNCHANGED vars
  BY <1>0, <1>5 DEF vars
<1>. QED BY <1>1, <1>2, <1>3, <1>4, <1>5 DEF Next, Act, WorkerStep

\* What has been settled stays settled: no late answer, retry or recovery brings a
\* sent, uncertain or dead-lettered row back to life.
THEOREM SettledForGood ==
  ASSUME ~MayOverrun, HonestReports
  PROVE  Spec => SettledStaysSettled
<1>1. TypeOK /\ LeaseInv /\ AcceptInv /\ [Next]_vars =>
        [\A j \in JobId : SettledRowStays(j)]_table
  BY SettledStep
<1>. QED BY <1>1, TypeCorrect, LeaseFromTheStart, AcceptanceFromTheStart, PTL
            DEF Spec, SettledStaysSettled

-----------------------------------------------------------------------------
(* What a sent row stands for, whatever senders report and leases allow. *)

\* A message for k was taken, by a job that has or had the key.
Reached(k) ==
  k \in Gated /\ \E i \in JobId : accepted[i] > 0 /\ table[i].key \in {k, NoKey}

\* A copy keeps its row's key, and is persisted only when its chat was reached.
CopyReached(w, j) ==
  /\ StageShape(task[w][j])
  /\ Active(w, j) =>
       /\ phase[w] = "busy" /\ j < nextId
       /\ task[w][j].key \in Key /\ table[j].key \in {task[w][j].key, NoKey}
  /\ task[w][j].stage = "accepted" => accepted[j] > 0
  /\ task[w][j].stage = "persist" => accepted[j] > 0 \/ Reached(task[w][j].key)

OneCopyPerKey ==
  \A w \in Worker, i, j \in JobId :
    Active(w, i) /\ Active(w, j) /\ task[w][i].key = task[w][j].key => i = j

GatesRemember == \A w \in Worker, k \in Key : gate[w][k] < DuplicateWindow => Reached(k)

AcceptedOld == \A j \in JobId : accepted[j] > 0 => j < nextId

ReachInv ==
  /\ \A w \in Worker, j \in JobId : CopyReached(w, j)
  /\ OneCopyPerKey /\ GatesRemember /\ AcceptedOld /\ SentReachedChat

LEMMA AcceptedGrows ==
  ASSUME TypeOK, [Next]_vars
  PROVE  /\ \A i \in JobId : accepted[i] > 0 => accepted'[i] > 0
         /\ \A i \in JobId : accepted'[i] = accepted[i] \/ \E w \in Worker : Active(w, i)
<1>1. CASE accepted' = accepted BY <1>1
<1>2. ASSUME NEW w \in Worker, NEW j \in JobId, ProviderAccepts(w, j)
      PROVE  /\ \A i \in JobId : accepted[i] > 0 => accepted'[i] > 0
             /\ \A i \in JobId : accepted'[i] = accepted[i] \/ Active(w, i)
  <2>1. accepted' = [accepted EXCEPT ![j] = @ + 1] /\ Active(w, j) /\ accepted[j] \in Nat
    BY <1>2 DEF ProviderAccepts, TypeOK, Active
  <2>. QED BY <2>1 DEF TypeOK
<1>3. accepted' = accepted \/ \E w \in Worker, j \in JobId : ProviderAccepts(w, j)
  <2>1. ASSUME NEW w \in Worker, NEW j \in JobId, JobStep(w, j) \/ JobFault(w, j)
        PROVE  accepted' = accepted \/ ProviderAccepts(w, j)
    BY <2>1 DEF JobStep, JobFault, RefuseTransport, StartDispatch, SendFails, SendReturns,
                PersistSent, Settle, DispatchMarkFails, PersistFails, SettleLost
  <2>2. ASSUME NEW w \in Worker, LoopStep(w) \/ Crash(w) PROVE accepted' = accepted
    BY <2>2 DEF LoopStep, Recover, ReserveBatch, FinishTick, Restart, Crash
  <2>3. ASSUME NEW K, NEW delay, EnqueueMany(K, delay) PROVE accepted' = accepted
    BY <2>3 DEF EnqueueMany
  <2>4. Tick \/ UNCHANGED vars => accepted' = accepted BY DEF Tick, vars
  <2>. QED BY <2>1, <2>2, <2>3, <2>4 DEF Next, Act, WorkerStep
<1>. QED BY <1>1, <1>2, <1>3

LEMMA OldKeys ==
  ASSUME TypeOK, KeyInv, [Next]_vars
  PROVE  /\ nextId' >= nextId
         /\ \A i \in JobId : i < nextId => table'[i].key \in {table[i].key, NoKey}
<1>0. nextId \in Nat BY DEF TypeOK
<1>1. CASE \E K \in (SUBSET Key) \ {{}}, delay \in Stagger : EnqueueMany(K, delay)
  <2>1. PICK K \in (SUBSET Key) \ {{}}, delay \in Stagger : EnqueueMany(K, delay) BY <1>1
  <2>2. /\ nextId' >= nextId
        /\ \A i \in JobId : ~(i >= nextId) => table'[i] = table[i] \/ table'[i] = NoRow
    BY <2>1, EnqueuedRows
  <2>. QED BY <1>0, <2>2 DEF NoRow, JobId
<1>2. CASE ~ \E K \in (SUBSET Key) \ {{}}, delay \in Stagger : EnqueueMany(K, delay)
  <2>1. SameRows(table, table') /\ nextId' = nextId
    BY <1>2, OtherStepsKeepRows DEF Next, Act, WorkerStep, KeyInv
  <2>. QED BY <1>0, <2>1 DEF SameRows
<1>. QED BY <1>1, <1>2

LEMMA ReachedStays ==
  ASSUME TypeOK, KeyInv, AcceptedOld, [Next]_vars, NEW k, Reached(k)
  PROVE  Reached(k)'
<1>1. PICK i \in JobId : accepted[i] > 0 /\ table[i].key \in {k, NoKey} BY DEF Reached
<1>2. table'[i].key \in {k, NoKey} BY <1>1, OldKeys DEF AcceptedOld
<1>. QED BY <1>1, <1>2, AcceptedGrows DEF Reached

LEMMA AcceptedOldStep ==
  ASSUME TypeOK, TypeOK', KeyInv, ReachInv, [Next]_vars
  PROVE  AcceptedOld'
<1>. SUFFICES ASSUME NEW j \in JobId, accepted'[j] > 0 PROVE j < nextId' BY DEF AcceptedOld
<1>1. j < nextId BY AcceptedGrows DEF ReachInv, AcceptedOld, CopyReached
<1>. QED BY <1>1, OldKeys DEF TypeOK, JobId

\* A row is newly sent only where its copy is persisted.
LEMMA NewlySent ==
  ASSUME TypeOK, KeyInv, [Next]_vars, NEW j \in JobId, table'[j].status = "sent"
  PROVE  /\ Exists(table, j) /\ table'[j].key = table[j].key
         /\ table[j].status = "sent" \/ \E w \in Worker : task[w][j].stage = "persist"
<1>1. CASE \E K \in (SUBSET Key) \ {{}}, delay \in Stagger : EnqueueMany(K, delay)
  <2>1. PICK K \in (SUBSET Key) \ {{}}, delay \in Stagger : EnqueueMany(K, delay) BY <1>1
  <2>2. table'[j].status = "pending" \/ table'[j] = table[j] \/ table'[j] = NoRow
    BY <2>1, EnqueuedRows
  <2>. QED BY <2>2 DEF NoRow, Exists
<1>2. CASE ~ \E K \in (SUBSET Key) \ {{}}, delay \in Stagger : EnqueueMany(K, delay)
  <2>1. SameRows(table, table') BY <1>2, OtherStepsKeepRows DEF Next, Act, WorkerStep, KeyInv
  <2>2. Exists(table, j) /\ table'[j].key = table[j].key BY <2>1 DEF SameRows, Exists
  <2>3. ASSUME NEW w \in Worker, LoopStep(w) \/ Crash(w) PROVE table[j].status = "sent"
    <3>1. CASE Recover(w)
      BY <3>1 DEF Recover, RecoverStale, StaleDispatch, Undecided, TypeOK, Row
    <3>2. CASE ReserveBatch(w)
      BY <3>2 DEF ReserveBatch, Reserve, TypeOK, Row
    <3>3. CASE table' = table BY <3>3
    <3>. QED BY <2>3, <3>1, <3>2, <3>3 DEF LoopStep, FinishTick, Restart, Crash
  <2>4. ASSUME NEW w \in Worker, NEW i \in JobId, JobStep(w, i) \/ JobFault(w, i)
        PROVE  table[j].status = "sent" \/ task[w][j].stage = "persist"
    <3>1. CASE i # j BY <2>4, <3>1, JobStepTouches DEF OnlyTouches
    <3>2. CASE i = j /\ Settle(w, j)
      BY <2>2, <3>2, RowAfter DEF Settle, Transition, Verdict
    <3>3. CASE i = j /\ (PersistSent(w, j) \/ PersistFails(w, j))
      BY <3>3 DEF PersistSent, PersistFails
    <3>4. CASE i = j /\ (StartDispatch(w, j) \/ DispatchMarkFails(w, j))
      BY <3>4, RowAfter DEF StartDispatch, DispatchMarkFails
    <3>5. CASE table' = table BY <3>5
    <3>. QED BY <2>4, <3>1, <3>2, <3>3, <3>4, <3>5
           DEF JobStep, JobFault, RefuseTransport, ProviderAccepts, SendFails, SendReturns, SettleLost
  <2>5. CASE Tick
    <3>1. table'[j] = AgedRow(table[j]) BY <2>5 DEF Tick, Aged
    <3>. QED BY <2>2, <3>1 DEF AgedRow, TypeOK, Row
  <2>6. CASE UNCHANGED vars BY <2>2, <2>6 DEF vars
  <2>. QED BY <1>2, <2>2, <2>3, <2>4, <2>5, <2>6 DEF Next, Act, WorkerStep
<1>. QED BY <1>1, <1>2

LEMMA SentStep ==
  ASSUME TypeOK, KeyInv, ReachInv, [Next]_vars
  PROVE  SentReachedChat'
<1>. SUFFICES ASSUME NEW j \in JobId, table'[j].status = "sent"
              PROVE  accepted'[j] > 0 \/ Reached(table[j].key)'
  BY NewlySent DEF SentReachedChat, Reached
<1>1. Exists(table, j) /\ table[j].key \in Key BY NewlySent DEF KeyInv, RowShape
<1>2. accepted[j] > 0 \/ Reached(table[j].key)
  <2>1. CASE table[j].status = "sent" BY <2>1 DEF ReachInv, SentReachedChat, Reached
  <2>2. ASSUME NEW w \in Worker, task[w][j].stage = "persist"
        PROVE  accepted[j] > 0 \/ Reached(table[j].key)
    BY <1>1, <2>2, OutboxAssumption DEF ReachInv, CopyReached, Active
  <2>. QED BY <2>1, <2>2, NewlySent
<1>3. Reached(table[j].key) => Reached(table[j].key)'
  <2>1. ASSUME NEW k, Reached(k) PROVE Reached(k)' BY <2>1, ReachedStays DEF ReachInv
  <2>. QED BY <1>1, <2>1, NewlySent
<1>. QED BY <1>2, <1>3, AcceptedGrows

\* A copy that is left alone stays right.
LEMMA CopyLeft ==
  ASSUME TypeOK, KeyInv, ReachInv, [Next]_vars, NEW w \in Worker, NEW j \in JobId,
         task'[w][j] = task[w][j], Active(w, j) => phase'[w] = phase[w]
  PROVE  CopyReached(w, j)'
<1>1. CopyReached(w, j) BY DEF ReachInv
<1>2. Active(w, j) => table'[j].key \in {task[w][j].key, NoKey} /\ j < nextId'
  <2>1. nextId \in Nat /\ nextId' \in Nat BY TypeStep DEF TypeOK
  <2>2. j < nextId => table'[j].key \in {table[j].key, NoKey} /\ j < nextId' BY <2>1, OldKeys DEF JobId
  <2>. QED BY <1>1, <2>2 DEF CopyReached
<1>3. accepted[j] > 0 => accepted'[j] > 0 BY AcceptedGrows
<1>4. ASSUME Reached(task[w][j].key) PROVE Reached(task[w][j].key)'
  <2>1. ASSUME NEW k, Reached(k) PROVE k \in Gated /\ \E i \in JobId : accepted'[i] > 0 /\ table'[i].key \in {k, NoKey}
    BY <2>1, ReachedStays DEF ReachInv, Reached
  <2>. QED BY <1>4, <2>1 DEF Reached
<1>. QED BY <1>1, <1>2, <1>3, <1>4 DEF CopyReached, Active, Reached

\* A step that writes no copy and no gate.
LEMMA QuietReach ==
  ASSUME TypeOK, KeyInv, ReachInv, [Next]_vars, task' = task,
         \A w \in Worker, j \in JobId : Active(w, j) => phase'[w] = phase[w],
         \A w \in Worker, k \in Key : gate'[w][k] < DuplicateWindow => gate[w][k] < DuplicateWindow
  PROVE  ReachInv'
<1>1. \A w \in Worker, j \in JobId : CopyReached(w, j)' BY CopyLeft
<1>2. OneCopyPerKey' BY DEF ReachInv, OneCopyPerKey, Active
<1>3. GatesRemember'
  <2>1. ASSUME NEW k, Reached(k) PROVE Reached(k)' BY <2>1, ReachedStays DEF ReachInv
  <2>. QED BY <2>1 DEF ReachInv, GatesRemember
<1>. QED BY <1>1, <1>2, <1>3, TypeStep, AcceptedOldStep, SentStep DEF ReachInv

\* Where a copy goes on to another stage.
LEMMA GotoReach ==
  ASSUME TypeOK, KeyInv, ReachInv, [Next]_vars, NEW w \in Worker, NEW j \in JobId,
         OnlyTouches(w, j), Active(w, j), NEW s, NEW r, Goto(w, j, s, r),
         \/ s \in {"sending", "accepted"} /\ r = "none"
         \/ s = "persist" /\ r \in {"ok", "skipped"}
         \/ s = "settle" /\ r \in {"ambiguous", "transient", "permanent", "postsend"},
         s = "accepted" => accepted'[j] > 0,
         s = "persist" => accepted[j] > 0 \/ Reached(task[w][j].key)
  PROVE  CopyReached(w, j)' /\ task'[w][j].key = task[w][j].key
<1>1. task'[w][j].stage = s /\ task'[w][j].result = r /\ task'[w][j].key = task[w][j].key
  BY TaskAfter
<1>2. CopyReached(w, j) /\ phase' = phase BY DEF ReachInv, OnlyTouches
<1>3. table'[j].key \in {task[w][j].key, NoKey} /\ j < nextId'
  <2>1. nextId \in Nat /\ nextId' \in Nat BY TypeStep DEF TypeOK
  <2>2. j < nextId => table'[j].key \in {table[j].key, NoKey} /\ j < nextId' BY <2>1, OldKeys DEF JobId
  <2>. QED BY <1>2, <2>2 DEF CopyReached
<1>4. accepted[j] > 0 => accepted'[j] > 0 BY AcceptedGrows
<1>5. Reached(task[w][j].key) => Reached(task[w][j].key)'
  <2>1. ASSUME NEW k, Reached(k) PROVE Reached(k)' BY <2>1, ReachedStays DEF ReachInv
  <2>. QED BY <1>1, <2>1
<1>. QED BY <1>1, <1>2, <1>3, <1>4, <1>5 DEF CopyReached, StageShape, Active

LEMMA JobReach ==
  ASSUME TypeOK, KeyInv, ReachInv, [Next]_vars, NEW w \in Worker, NEW j \in JobId,
         JobStep(w, j) \/ JobFault(w, j)
  PROVE  ReachInv'
<1>1. OnlyTouches(w, j) BY JobStepTouches
<1>2. Active(w, j)
  BY DEF JobStep, JobFault, RefuseTransport, StartDispatch, ProviderAccepts, SendFails,
         SendReturns, PersistSent, Settle, DispatchMarkFails, PersistFails, SettleLost, Active
<1>3. CopyReached(w, j) BY DEF ReachInv
<1>4. Done(w, j) => CopyReached(w, j)' /\ ~Active(w, j)'
  BY TaskAfter DEF CopyReached, StageShape, Active, NoTask
<1>5. (CopyReached(w, j)' /\ task'[w][j].key = task[w][j].key) \/ (CopyReached(w, j)' /\ ~Active(w, j)')
  <2>1. CASE RefuseTransport(w, j)
    BY <1>1, <1>2, <2>1, GotoReach DEF RefuseTransport
  <2>2. CASE StartDispatch(w, j)
    <3>1. CASE Suppressed(w, task[w][j].key)
      <4>1. task[w][j].key \in Key BY <1>2, <1>3 DEF CopyReached
      <4>2. ~ \E i \in JobId : /\ task[w][i].key = task[w][j].key
                               /\ task[w][i].stage \in {"sending", "accepted"}
        BY <1>2, <2>2 DEF ReachInv, OneCopyPerKey, StartDispatch, Active
      <4>3. Reached(task[w][j].key)
        BY <3>1, <4>1, <4>2 DEF Suppressed, ReachInv, GatesRemember
      <4>. QED BY <1>1, <1>2, <2>2, <3>1, <4>3, GotoReach DEF StartDispatch
    <3>2. CASE ~Suppressed(w, task[w][j].key)
      BY <1>1, <1>2, <2>2, <3>2, GotoReach DEF StartDispatch
    <3>. QED BY <3>1, <3>2
  <2>3. CASE ProviderAccepts(w, j)
    <3>1. accepted' = [accepted EXCEPT ![j] = @ + 1] /\ accepted[j] \in Nat
      BY <2>3 DEF ProviderAccepts, TypeOK
    <3>2. accepted'[j] > 0 BY <3>1 DEF TypeOK
    <3>. QED BY <1>1, <1>2, <2>3, <3>2, GotoReach DEF ProviderAccepts
  <2>4. CASE SendFails(w, j)
    BY <1>1, <1>2, <2>4, GotoReach DEF SendFails
  <2>5. CASE SendReturns(w, j)
    <3>1. accepted[j] > 0 BY <1>3, <2>5 DEF SendReturns, CopyReached
    <3>2. PICK r \in AcceptedReports :
            Goto(w, j, IF r = "ok" THEN "persist" ELSE "settle",
                       IF r = "persist_error" THEN "transient" ELSE r)
      BY <2>5, Zenon DEF SendReturns
    <3>3. r \in {"ok", "ambiguous", "transient", "persist_error"} BY <3>2, DeliveryAssumption
    <3>. QED BY <1>1, <1>2, <3>1, <3>2, <3>3, GotoReach
  <2>6. CASE PersistSent(w, j) \/ Settle(w, j) \/ SettleLost(w, j)
    BY <1>4, <2>6 DEF PersistSent, Settle, SettleLost
  <2>7. CASE DispatchMarkFails(w, j)
    BY <1>1, <1>2, <2>7, GotoReach DEF DispatchMarkFails
  <2>8. CASE PersistFails(w, j)
    BY <1>1, <1>2, <2>8, GotoReach DEF PersistFails
  <2>. QED BY <2>1, <2>2, <2>3, <2>4, <2>5, <2>6, <2>7, <2>8 DEF JobStep, JobFault
<1>6. \A v \in Worker, i \in JobId : v # w \/ i # j => task'[v][i] = task[v][i] /\ phase' = phase
  BY <1>1 DEF OnlyTouches
<1>7. \A v \in Worker, i \in JobId : CopyReached(v, i)'
  <2>1. ASSUME NEW v \in Worker, NEW i \in JobId, v # w \/ i # j PROVE CopyReached(v, i)'
    BY <1>6, <2>1, CopyLeft
  <2>. QED BY <1>5, <2>1
<1>8. OneCopyPerKey'
  <2>1. \A v \in Worker, i \in JobId :
          Active(v, i)' => Active(v, i) /\ task'[v][i].key = task[v][i].key
    BY <1>2, <1>5, <1>6 DEF Active
  <2>. QED BY <2>1 DEF ReachInv, OneCopyPerKey
<1>9. GatesRemember'
  <2>1. ASSUME NEW k, Reached(k) PROVE Reached(k)' BY <2>1, ReachedStays DEF ReachInv
  <2>2. CASE gate' = gate BY <2>1, <2>2 DEF ReachInv, GatesRemember
  <2>3. CASE /\ SendReturns(w, j) /\ task[w][j].key \in Gated
             /\ gate' = [gate EXCEPT ![w][task[w][j].key] = 0]
    <3>1. accepted[j] > 0 BY <1>3, <2>3 DEF SendReturns, CopyReached
    <3>2. Reached(task[w][j].key) BY <1>2, <1>3, <2>3, <3>1 DEF CopyReached, Reached
    <3>3. \A v \in Worker, k \in Key : k # task[w][j].key => gate'[v][k] = gate[v][k]
      BY <2>3 DEF TypeOK
    <3>. QED BY <2>1, <3>2, <3>3 DEF ReachInv, GatesRemember, Reached
  <2>4. gate' = gate \/ SendReturns(w, j)
    BY DEF JobStep, JobFault, RefuseTransport, StartDispatch, ProviderAccepts, SendFails,
           PersistSent, Settle, DispatchMarkFails, PersistFails, SettleLost
  <2>5. SendReturns(w, j) => \/ gate' = gate
                             \/ /\ task[w][j].key \in Gated
                                /\ gate' = [gate EXCEPT ![w][task[w][j].key] = 0]
    BY Zenon DEF SendReturns
  <2>. QED BY <2>2, <2>3, <2>4, <2>5
<1>. QED BY <1>7, <1>8, <1>9, TypeStep, AcceptedOldStep, SentStep DEF ReachInv

LEMMA ReserveReach ==
  ASSUME TypeOK, KeyInv, ReachInv, [Next]_vars, NEW w \in Worker, ReserveBatch(w)
  PROVE  ReachInv'
<1>. DEFINE jobs == Picked(table)
<1>1. \A j \in jobs : j \in JobId /\ Exists(table, j) /\ table[j].key \in Key /\ j < nextId
  BY DEF Picked, Reservable, Exists, KeyInv, RowShape
<1>2. \A j \in JobId : ~Active(w, j)
  BY DEF ReserveBatch, ReachInv, CopyReached
<1>3. ASSUME NEW v \in Worker, NEW j \in JobId, v # w \/ j \notin jobs
      PROVE  task'[v][j] = task[v][j]
  BY <1>3 DEF ReserveBatch, TypeOK
<1>4. ASSUME NEW j \in jobs
      PROVE  task'[w][j].stage = "queued" /\ task'[w][j].result = "none" /\ task'[w][j].key = table[j].key
  BY <1>1, <1>4 DEF ReserveBatch, TypeOK
<1>5. /\ \A v \in Worker \ {w} : phase'[v] = phase[v]
      /\ jobs # {} => phase'[w] = "busy"
      /\ gate' = gate
  BY DEF ReserveBatch, TypeOK
<1>6. \A j \in jobs : table'[j].key = table[j].key /\ j < nextId'
  <2>1. nextId' = nextId /\ table' = Reserve(table, w) BY DEF ReserveBatch
  <2>2. \A j \in jobs : table[j] \in Row BY <1>1 DEF TypeOK
  <2>. QED BY <1>1, <2>1, <2>2 DEF Reserve, Row
<1>. HIDE DEF jobs
<1>7. \A v \in Worker, j \in JobId : CopyReached(v, j)'
  <2>1. ASSUME NEW v \in Worker, NEW j \in JobId, v # w \/ j \notin jobs PROVE CopyReached(v, j)'
    BY <1>2, <1>3, <1>5, <2>1, CopyLeft
  <2>2. ASSUME NEW j \in jobs PROVE CopyReached(w, j)'
    BY <1>1, <1>4, <1>5, <1>6, <2>2 DEF CopyReached, StageShape
  <2>. QED BY <2>1, <2>2
<1>8. OneCopyPerKey'
  <2>1. ASSUME NEW v \in Worker \ {w}, NEW i \in JobId, NEW j \in JobId,
               Active(v, i)', Active(v, j)', task'[v][i].key = task'[v][j].key
        PROVE  i = j
    BY <1>3, <2>1 DEF ReachInv, OneCopyPerKey, Active
  <2>2. ASSUME NEW i \in JobId, NEW j \in JobId,
               Active(w, i)', Active(w, j)', task'[w][i].key = task'[w][j].key
        PROVE  i = j
    <3>1. i \in jobs /\ j \in jobs BY <1>2, <1>3, <2>2 DEF Active
    <3>. QED BY <1>1, <1>4, <2>2, <3>1 DEF KeyInv, OneRowPerKey
  <2>. QED BY <2>1, <2>2 DEF OneCopyPerKey
<1>9. GatesRemember'
  <2>1. ASSUME NEW k, Reached(k) PROVE Reached(k)' BY <2>1, ReachedStays DEF ReachInv
  <2>. QED BY <1>5, <2>1 DEF ReachInv, GatesRemember
<1>. QED BY <1>7, <1>8, <1>9, TypeStep, AcceptedOldStep, SentStep DEF ReachInv

LEMMA CrashReach ==
  ASSUME TypeOK, KeyInv, ReachInv, [Next]_vars, NEW w \in Worker, Crash(w)
  PROVE  ReachInv'
<1>1. /\ task' = [task EXCEPT ![w] = [j \in JobId |-> NoTask]]
      /\ phase' = [phase EXCEPT ![w] = "down"]
  BY DEF Crash
<1>2. \A j \in JobId : task'[w][j] = NoTask BY <1>1 DEF TypeOK
<1>3. \A v \in Worker \ {w} : task'[v] = task[v] /\ phase'[v] = phase[v] BY <1>1 DEF TypeOK
<1>4. \A v \in Worker, j \in JobId : CopyReached(v, j)'
  <2>1. ASSUME NEW v \in Worker \ {w}, NEW j \in JobId PROVE CopyReached(v, j)'
    BY <1>3, CopyLeft
  <2>2. ASSUME NEW j \in JobId PROVE CopyReached(w, j)'
    BY <1>2 DEF CopyReached, StageShape, Active, NoTask
  <2>. QED BY <2>1, <2>2
<1>5. OneCopyPerKey' BY <1>2, <1>3 DEF ReachInv, OneCopyPerKey, Active, NoTask
<1>6. \A v \in Worker, k \in Key : gate'[v][k] < DuplicateWindow => gate[v][k] < DuplicateWindow
  <2>1. PICK lost \in SUBSET Key :
          gate' = [gate EXCEPT ![w] = [k \in Key |-> IF k \in lost THEN DuplicateWindow ELSE @[k]]]
    BY DEF Crash, LoadEntries
  <2>2. \A v \in Worker, k \in Key : gate'[v][k] \in {DuplicateWindow, gate[v][k]}
    BY <2>1 DEF TypeOK
  <2>. QED BY <2>2, OutboxAssumption
<1>7. GatesRemember'
  <2>1. ASSUME NEW k, Reached(k) PROVE Reached(k)' BY <2>1, ReachedStays DEF ReachInv
  <2>. QED BY <1>6, <2>1 DEF ReachInv, GatesRemember
<1>. QED BY <1>4, <1>5, <1>7, TypeStep, AcceptedOldStep, SentStep DEF ReachInv

LEMMA ReachStep == TypeOK /\ KeyInv /\ ReachInv /\ [Next]_vars => ReachInv'
<1>. SUFFICES ASSUME TypeOK, KeyInv, ReachInv, [Next]_vars PROVE ReachInv' OBVIOUS
<1>0. \A w \in Worker, j \in JobId : Active(w, j) => phase[w] = "busy"
  BY DEF ReachInv, CopyReached
<1>1. ASSUME NEW K \in (SUBSET Key) \ {{}}, NEW delay \in Stagger, EnqueueMany(K, delay)
      PROVE  ReachInv'
  BY <1>1, QuietReach DEF EnqueueMany
<1>2. ASSUME NEW w \in Worker, LoopStep(w) \/ Crash(w) PROVE ReachInv'
  <2>1. CASE ReserveBatch(w) BY <2>1, ReserveReach
  <2>2. CASE Crash(w) BY <2>2, CrashReach
  <2>3. CASE Recover(w) \/ FinishTick(w) \/ Restart(w)
    <3>1. task' = task /\ gate' = gate /\ \A j \in JobId : ~Active(w, j)
      BY <1>0, <2>3 DEF Recover, FinishTick, Restart
    <3>2. \A v \in Worker \ {w} : phase'[v] = phase[v]
      BY <2>3 DEF Recover, FinishTick, Restart, TypeOK
    <3>. QED BY <3>1, <3>2, QuietReach
  <2>. QED BY <1>2, <2>1, <2>2, <2>3 DEF LoopStep
<1>3. ASSUME NEW w \in Worker, NEW j \in JobId, JobStep(w, j) \/ JobFault(w, j) PROVE ReachInv'
  BY <1>3, JobReach
<1>4. CASE Tick
  <2>1. task' = task /\ phase' = phase BY <1>4 DEF Tick
  <2>2. ASSUME NEW w \in Worker, NEW k \in Key, gate'[w][k] < DuplicateWindow
        PROVE  gate[w][k] < DuplicateWindow
    BY <1>4, <2>2 DEF Tick
  <2>. QED BY <2>1, <2>2, QuietReach
<1>5. CASE UNCHANGED vars BY <1>5, QuietReach DEF vars
<1>. QED BY <1>1, <1>2, <1>3, <1>4, <1>5 DEF Next, Act, WorkerStep

\* A row marked sent stands for a message in its chat, its own or, where the gate
\* skipped it, an earlier one, however leases overrun and senders misreport.
THEOREM SentIsDelivered == Spec => []SentReachedChat
<1>1. Init => ReachInv
  <2>. SUFFICES ASSUME Init PROVE ReachInv OBVIOUS
  <2>1. \A w \in Worker, j \in JobId : task[w][j] = NoTask BY DEF Init
  <2>2. \A w \in Worker, j \in JobId : CopyReached(w, j)
    BY <2>1 DEF CopyReached, StageShape, Active, NoTask
  <2>3. OneCopyPerKey BY <2>1 DEF OneCopyPerKey, Active, NoTask
  <2>4. GatesRemember BY OutboxAssumption DEF GatesRemember, Init
  <2>5. AcceptedOld BY DEF AcceptedOld, Init
  <2>6. SentReachedChat BY DEF SentReachedChat, Init, NoRow
  <2>. QED BY <2>2, <2>3, <2>4, <2>5, <2>6 DEF ReachInv
<1>2. ReachInv => SentReachedChat BY DEF ReachInv
<1>. QED BY <1>1, <1>2, ReachStep, TypeCorrect, KeysFromTheStart, PTL DEF Spec

-----------------------------------------------------------------------------
(* The contract: what a step does to the fate of each job. *)

Fates == {"unborn", "open", "delivered", "given_up", "unknown", "forgotten"}

\* The fate of a job by the status of its row.
LEMMA FateByStatus ==
  ASSUME NEW r, NEW j, NEW n
  PROVE  /\ r.status \in Live => FateOf(r, j, n) = "open"
         /\ r.status = "sent" => FateOf(r, j, n) = "delivered"
         /\ r.status = "dead_lettered" => FateOf(r, j, n) = "given_up"
         /\ r.status = "uncertain" => FateOf(r, j, n) = "unknown"
         /\ r.status = "absent" => FateOf(r, j, n) = IF j < n THEN "forgotten" ELSE "unborn"
BY DEF FateOf, Live

LEMMA FateTypes ==
  ASSUME NEW t \in [JobId -> Row], NEW n
  PROVE  /\ \A j \in JobId : FateOf(t[j], j, n) \in Fates
         /\ \A j \in JobId : t[j].key \in Key \cup {NoKey}
<1>1. \A j \in JobId : t[j] \in Row
  OBVIOUS
<1>2. \A r \in Row : r.status \in Live \cup {"sent", "dead_lettered", "uncertain", "absent"}
  BY DEF Row, Status, Live
<1>3. ASSUME NEW j \in JobId PROVE FateOf(t[j], j, n) \in Fates
  BY <1>1, <1>2, FateByStatus DEF Fates
<1>. QED BY <1>1, <1>3 DEF Row

\* What the contract's variables are of job j, before and after a step.
LEMMA ContractView ==
  ASSUME TypeOK, TypeOK', NEW j \in JobId
  PROVE  /\ Fate[j] = FateOf(table[j], j, nextId) /\ JobKey[j] = table[j].key
         /\ Fate'[j] = FateOf(table'[j], j, nextId') /\ JobKey'[j] = table'[j].key
BY DEF Fate, JobKey

\* Moves of a job whose row keeps its key, by the statuses before and after.
LEMMA MovesByStatus ==
  ASSUME TypeOK, TypeOK', NEW j \in JobId, table'[j].key = table[j].key,
         \/ /\ table'[j].status = table[j].status /\ accepted'[j] = accepted[j]
            /\ table[j].status = "absent" => (j < nextId <=> j < nextId')
         \/ /\ table[j].status \in Live /\ table'[j].status \in Live
            /\ accepted'[j] = accepted[j] \/ (accepted[j] = 0 /\ accepted'[j] = 1)
         \/ /\ table[j].status \in Live /\ table'[j].status = "sent"
            /\ accepted[j] = 1 /\ accepted'[j] = 1
         \/ /\ table[j].status \in Live /\ table'[j].status = "dead_lettered"
            /\ accepted[j] = 0 /\ accepted'[j] = 0
         \/ /\ table[j].status \in Live \cup {"sent"} /\ table'[j].status = "uncertain"
            /\ accepted'[j] = accepted[j]
  PROVE  Contract!Move(j)
<1>0. JobKey'[j] = JobKey[j]
  BY ContractView
<1>1. CASE /\ table'[j].status = table[j].status /\ accepted'[j] = accepted[j]
           /\ table[j].status = "absent" => (j < nextId <=> j < nextId')
  <2>1. Fate'[j] = Fate[j]
    <3>1. table[j].status \in Live \cup {"sent", "dead_lettered", "uncertain", "absent"}
      BY DEF TypeOK, Row, Status, Live
    <3>. QED BY <1>1, <3>1, ContractView, FateByStatus
  <2>. QED BY <1>0, <1>1, <2>1 DEF Contract!Move, Contract!Stay, Contract!Becomes
<1>2. CASE /\ table[j].status \in Live /\ table'[j].status \in Live
           /\ accepted'[j] = accepted[j] \/ (accepted[j] = 0 /\ accepted'[j] = 1)
  <2>1. Fate[j] = "open" /\ Fate'[j] = "open"
    BY <1>2, ContractView, FateByStatus
  <2>. QED
    BY <1>0, <1>2, <2>1 DEF Contract!Move, Contract!Stay, Contract!Deliver, Contract!Becomes
<1>3. CASE /\ table[j].status \in Live /\ table'[j].status = "sent"
           /\ accepted[j] = 1 /\ accepted'[j] = 1
  <2>1. Fate[j] = "open" /\ Fate'[j] = "delivered"
    BY <1>3, ContractView, FateByStatus
  <2>. QED BY <1>0, <1>3, <2>1 DEF Contract!Move, Contract!Confirm, Contract!Becomes
<1>4. CASE /\ table[j].status \in Live /\ table'[j].status = "dead_lettered"
           /\ accepted[j] = 0 /\ accepted'[j] = 0
  <2>1. Fate[j] = "open" /\ Fate'[j] = "given_up"
    BY <1>4, ContractView, FateByStatus
  <2>. QED BY <1>0, <1>4, <2>1 DEF Contract!Move, Contract!GiveUp, Contract!Becomes
<1>5. CASE /\ table[j].status \in Live \cup {"sent"} /\ table'[j].status = "uncertain"
           /\ accepted'[j] = accepted[j]
  <2>1. Fate[j] \in {"open", "delivered"} /\ Fate'[j] = "unknown"
    BY <1>5, ContractView, FateByStatus
  <2>. QED BY <1>0, <1>5, <2>1 DEF Contract!Move, Contract!Doubt, Contract!Becomes
<1>. QED BY <1>1, <1>2, <1>3, <1>4, <1>5

\* An enqueue submits jobs under keys of their own and forgets settled ones.
LEMMA EnqueueMoves ==
  ASSUME TypeOK, TypeOK', LeaseInv, KeyInv', AcceptInv,
         NEW K \in (SUBSET Key) \ {{}}, NEW delay \in Stagger, EnqueueMany(K, delay),
         NEW j \in JobId
  PROVE  Contract!Move(j)
<1>0. /\ nextId' >= nextId
      /\ IF j >= nextId /\ j < nextId'
         THEN table'[j].status = "pending" /\ table'[j].key \in Key
         ELSE table'[j] = table[j] \/ (Expired(table, j) /\ table'[j] = NoRow)
  BY EnqueuedRows
<1>1. accepted' = accepted
  BY DEF EnqueueMany
<1>2. CASE /\ j >= nextId /\ j < nextId'
           /\ table'[j].status = "pending" /\ table'[j].key \in Key
  <2>1. table[j].status = "absent" /\ ~(j < nextId)
    BY <1>2 DEF LeaseInv, KeyInv, RowShape, Exists, TypeOK, JobId
  <2>2. Fate[j] = "unborn" /\ Fate'[j] = "open" /\ accepted[j] = 0
    BY <1>2, <2>1, ContractView, FateByStatus DEF Live, AcceptInv, RowAcceptance
  <2>3. ASSUME NEW i \in JobId \ {j} PROVE JobKey'[i] # table'[j].key
    <3>1. CASE Exists(table', i)
      BY <1>2, <2>3, <3>1, ContractView DEF KeyInv, OneRowPerKey, Exists, JobKey
    <3>2. CASE ~Exists(table', i)
      <4>1. table'[i].key = NoKey
        BY <2>3, <3>2 DEF KeyInv, RowShape, Exists, NoRow
      <4>. QED BY <1>2, <2>3, <4>1, OutboxAssumption DEF JobKey
    <3>. QED BY <3>1, <3>2
  <2>4. Contract!Submit(j)
    BY <1>1, <1>2, <2>2, <2>3, ContractView DEF Contract!Submit, Contract!Becomes
  <2>. QED BY <2>4 DEF Contract!Move
<1>3. CASE Expired(table, j) /\ table'[j] = NoRow
  <2>1. Exists(table, j) /\ j < nextId /\ j < nextId'
    BY <1>0, <1>3 DEF Expired, LeaseInv, KeyInv, RowShape, Exists, TypeOK, JobId
  <2>2. Fate[j] \in {"delivered", "given_up"}
    BY <1>3, ContractView, FateByStatus DEF Expired
  <2>3. Fate'[j] = "forgotten" /\ JobKey'[j] = NoKey
    BY <1>3, <2>1, ContractView, FateByStatus DEF NoRow
  <2>. QED BY <1>1, <2>2, <2>3 DEF Contract!Move, Contract!Forget, Contract!Becomes
<1>4. CASE table'[j] = table[j] /\ ~(j >= nextId /\ j < nextId')
  <2>1. j < nextId <=> j < nextId'
    BY <1>0, <1>4 DEF TypeOK, JobId
  <2>. QED BY <1>1, <1>4, <2>1, MovesByStatus
<1>. QED BY <1>0, <1>2, <1>3, <1>4

\* A worker's step on row j moves job j as its verdict says.
LEMMA JobMoves ==
  ASSUME HonestReports, TypeOK, TypeOK', LeaseInv, AcceptInv,
         NEW w \in Worker, NEW j \in JobId, JobStep(w, j) \/ JobFault(w, j)
  PROVE  Contract!Move(j)
<1>1. Active(w, j)
  BY DEF JobStep, JobFault, RefuseTransport, StartDispatch, ProviderAccepts, SendFails,
         SendReturns, PersistSent, Settle, DispatchMarkFails, PersistFails, SettleLost, Active
<1>2. Held(w, j) /\ CopyAgrees(w, j) /\ RowAcceptance(j) /\ TaskAcceptance(w, j)
  BY <1>1 DEF LeaseInv, Held, AcceptInv
<1>3. task[w][j].stage # "settle" => table[j].status = "processing" /\ Exists(table, j)
  BY <1>2 DEF CopyAgrees, UnexpiredLease, Exists
<1>4. nextId' = nextId
  BY JobStepTouches DEF OnlyTouches
<1>5. ASSUME table' = table, accepted' = accepted PROVE Contract!Move(j)
  BY <1>4, <1>5, MovesByStatus
<1>6. CASE RefuseTransport(w, j) \/ SendFails(w, j) \/ SendReturns(w, j) \/ SettleLost(w, j)
  BY <1>5, <1>6 DEF RefuseTransport, SendFails, SendReturns, SettleLost
<1>7. CASE StartDispatch(w, j) \/ DispatchMarkFails(w, j)
  <2>1. table' \in {table, MarkDispatchStarted(table, j)} /\ accepted' = accepted
    BY <1>7 DEF StartDispatch, DispatchMarkFails
  <2>2. table'[j].status = "processing" /\ table'[j].key = table[j].key
    BY <1>3, <1>7, <2>1, RowAfter DEF StartDispatch, DispatchMarkFails
  <2>3. table[j].status = "processing"
    BY <1>3, <1>7 DEF StartDispatch, DispatchMarkFails
  <2>. QED BY <2>1, <2>2, <2>3, MovesByStatus
<1>8. CASE ProviderAccepts(w, j)
  <2>1. table' = table /\ accepted' = [accepted EXCEPT ![j] = @ + 1] /\ accepted[j] = 0
    BY <1>2, <1>8 DEF ProviderAccepts, TaskAcceptance
  <2>2. accepted'[j] = 1
    BY <2>1 DEF TypeOK
  <2>3. table[j].status \in Live
    BY <1>3, <1>8 DEF ProviderAccepts, Live
  <2>. QED BY <2>1, <2>2, <2>3, MovesByStatus
<1>9. CASE PersistSent(w, j) \/ PersistFails(w, j)
  <2>1. /\ table' \in {table, MarkSent(table, j)} /\ accepted' = accepted
        /\ accepted[j] = 1 /\ task[w][j].stage = "persist"
    BY <1>2, <1>9 DEF PersistSent, PersistFails, TaskAcceptance
  <2>2. CASE table' = table
    BY <1>5, <2>1, <2>2
  <2>3. CASE table' = MarkSent(table, j)
    <3>1. table[j].status \in Live /\ table'[j].status = "sent" /\ table'[j].key = table[j].key
      BY <1>3, <2>1, <2>3, RowAfter DEF Live
    <3>. QED BY <2>1, <3>1, MovesByStatus
  <2>. QED BY <2>1, <2>2, <2>3
<1>10. CASE Settle(w, j)
  <2>1. /\ table' = Transition(table, j, task[w][j]) /\ accepted' = accepted
        /\ task[w][j].stage = "settle"
    BY <1>10 DEF Settle
  <2>2. table[j].status \in {"processing", "sent", "absent"}
    BY <1>2 DEF CopyAgrees, UnexpiredLease
  <2>3. CASE ~Exists(table, j)
    <3>1. table' = table
      BY <2>1, <2>3, RowAfter DEF Transition, Verdict
    <3>. QED BY <1>5, <2>1, <3>1
  <2>4. CASE Exists(table, j) /\ task[w][j].result \in {"postsend", "ambiguous"}
    <3>1. table'[j].status = "uncertain" /\ table'[j].key = table[j].key
      BY <2>1, <2>4, RowAfter DEF Transition, Verdict
    <3>2. table[j].status \in Live \cup {"sent"}
      BY <2>2, <2>4 DEF Live, Exists
    <3>. QED BY <2>1, <3>1, <3>2, MovesByStatus
  <2>5. CASE Exists(table, j) /\ task[w][j].result \in {"transient", "permanent"}
    <3>1. accepted[j] = 0
      BY <1>2, <2>5 DEF TaskAcceptance
    <3>2. table[j].status \in Live
      BY <1>2, <2>2, <2>5, <3>1 DEF Live, Exists, RowAcceptance
    <3>3. table'[j].status \in {"failed", "dead_lettered"} /\ table'[j].key = table[j].key
      BY <2>1, <2>5, RowAfter DEF Transition, Verdict
    <3>4. table'[j].status = "failed" => table'[j].status \in Live
      BY DEF Live
    <3>. QED BY <2>1, <3>1, <3>2, <3>3, <3>4, MovesByStatus
  <2>6. task[w][j].result \in {"ambiguous", "transient", "permanent", "postsend"}
    BY <1>2, <2>1 DEF Held, StageShape, NoTask
  <2>. QED BY <2>3, <2>4, <2>5, <2>6
<1>. QED BY <1>6, <1>7, <1>8, <1>9, <1>10 DEF JobStep, JobFault

\* Every other step leaves a job as it is or, recovering it, leaves it in doubt.
LEMMA OtherMoves ==
  ASSUME HonestReports, TypeOK, TypeOK', LeaseInv, AcceptInv, NEW j \in JobId,
         \/ \E w \in Worker : LoopStep(w) \/ Crash(w)
         \/ \E w \in Worker, i \in JobId : (JobStep(w, i) \/ JobFault(w, i)) /\ i # j
         \/ Tick
         \/ UNCHANGED vars
  PROVE  Contract!Move(j)
<1>1. ASSUME table'[j] = table[j], accepted'[j] = accepted[j], nextId' = nextId
      PROVE  Contract!Move(j)
  BY <1>1, MovesByStatus
<1>2. CASE \E w \in Worker : LoopStep(w) \/ Crash(w)
  <2>. PICK w \in Worker : LoopStep(w) \/ Crash(w)
    BY <1>2
  <2>0. accepted' = accepted /\ nextId' = nextId
    BY DEF LoopStep, Recover, ReserveBatch, FinishTick, Restart, Crash
  <2>1. CASE Recover(w)
    <3>1. table'[j] = IF StaleDispatch(table, j) THEN Undecided(table[j]) ELSE table[j]
      BY <2>1 DEF Recover, RecoverStale
    <3>2. Undecided(table[j]).status = "uncertain" /\ Undecided(table[j]).key = table[j].key
      BY DEF Undecided, TypeOK, Row
    <3>3. StaleDispatch(table, j) => table[j].status \in Live
      BY DEF StaleDispatch, Live
    <3>. QED BY <1>1, <2>0, <3>1, <3>2, <3>3, MovesByStatus
  <2>2. CASE ReserveBatch(w)
    <3>1. CASE j \in Picked(table)
      <4>1. table'[j] = [table[j] EXCEPT !.status = "processing", !.lease = 0, !.by = w,
                                        !.attempts = NextAttempt(@)]
        BY <2>2, <3>1 DEF ReserveBatch, Reserve
      <4>2. table'[j].status \in Live /\ table'[j].key = table[j].key
        BY <4>1 DEF TypeOK, Row, Live
      <4>3. table[j].status \in Live
        BY <3>1 DEF Picked, Reservable, Live
      <4>. QED BY <2>0, <4>2, <4>3, MovesByStatus
    <3>2. CASE j \notin Picked(table)
      BY <1>1, <2>0, <2>2, <3>2 DEF ReserveBatch, Reserve
    <3>. QED BY <3>1, <3>2
  <2>3. CASE FinishTick(w) \/ Restart(w) \/ Crash(w)
    BY <1>1, <2>0, <2>3 DEF FinishTick, Restart, Crash
  <2>. QED BY <2>1, <2>2, <2>3 DEF LoopStep
<1>3. CASE \E w \in Worker, i \in JobId : (JobStep(w, i) \/ JobFault(w, i)) /\ i # j
  <2>. PICK w \in Worker, i \in JobId : (JobStep(w, i) \/ JobFault(w, i)) /\ i # j
    BY <1>3
  <2>1. table'[j] = table[j] /\ nextId' = nextId
    BY JobStepTouches DEF OnlyTouches
  <2>2. accepted' = accepted \/ accepted' = [accepted EXCEPT ![i] = @ + 1]
    BY DEF JobStep, JobFault, RefuseTransport, StartDispatch, ProviderAccepts, SendFails,
           SendReturns, PersistSent, Settle, DispatchMarkFails, PersistFails, SettleLost
  <2>3. accepted'[j] = accepted[j]
    BY <2>2 DEF TypeOK
  <2>. QED BY <1>1, <2>1, <2>3
<1>4. CASE Tick
  <2>1. accepted' = accepted /\ nextId' = nextId /\ table'[j] = AgedRow(table[j])
    BY <1>4 DEF Tick, Aged
  <2>2. \A d, l : LET r == [table[j] EXCEPT !.due = d, !.lease = l]
                 IN  r.status = table[j].status /\ r.key = table[j].key
    BY DEF TypeOK, Row
  <2>3. AgedRow(table[j]).status = table[j].status /\ AgedRow(table[j]).key = table[j].key
    BY <2>2 DEF AgedRow
  <2>. QED BY <2>1, <2>3, MovesByStatus
<1>5. CASE UNCHANGED vars
  BY <1>1, <1>5 DEF vars
<1>. QED BY <1>2, <1>3, <1>4, <1>5

LEMMA ContractStep ==
  ASSUME HonestReports, TypeOK, TypeOK', LeaseInv, KeyInv', AcceptInv, AcceptInv', [Next]_vars
  PROVE  Contract!Next
<1>1. ASSUME NEW j \in JobId PROVE Contract!Move(j)
  BY EnqueueMoves, JobMoves, OtherMoves DEF Next, Act, WorkerStep
<1>2. /\ Fate' \in [JobId -> Fates]
      /\ JobKey' \in [JobId -> Key \cup {NoKey}]
  BY FateTypes DEF Fate, JobKey, TypeOK
<1>3. accepted' \in [JobId -> 0..1]
  <2>1. ASSUME NEW j \in JobId PROVE accepted'[j] \in 0..1
    BY DEF AcceptInv, RowAcceptance
  <2>. QED BY <2>1 DEF TypeOK
<1>. QED BY <1>1, <1>2, <1>3 DEF Contract!Next, Fates

\* Pollers, any number of workers, crashes, lost statements, retries and time: seen
\* through the jobs' rows, every step is one the contract allows.
THEOREM OutboxKeepsContract ==
  ASSUME ~MayOverrun, HonestReports
  PROVE  Spec => KeepsContract
<1>1. Init => Contract!Init
  <2>. SUFFICES ASSUME Init PROVE Contract!Init
    OBVIOUS
  <2>1. ASSUME NEW j \in JobId
        PROVE  FateOf(table[j], j, nextId) = "unborn" /\ table[j].key = NoKey
    <3>1. table[j].status = "absent" /\ table[j].key = NoKey /\ ~(j < nextId)
      BY DEF Init, NoRow, JobId
    <3>. QED BY <3>1, FateByStatus
  <2>2. Fate = [j \in JobId |-> "unborn"] /\ JobKey = [j \in JobId |-> NoKey]
    BY <2>1 DEF Fate, JobKey
  <2>. QED BY <2>2 DEF Init, Contract!Init
<1>2. /\ TypeOK /\ TypeOK' /\ LeaseInv /\ LeaseInv' /\ AcceptInv /\ AcceptInv'
      /\ [Next]_vars
      => [Contract!Next]_(Contract!vars)
  BY ContractStep DEF LeaseInv
<1>. QED
  BY <1>1, <1>2, TypeCorrect, LeaseFromTheStart, AcceptanceFromTheStart, PTL
     DEF Spec, KeepsContract, Contract!Spec

-----------------------------------------------------------------------------
(* OutboxRows: what the table is to those who enqueue. *)

\* What a step may do to a row: nothing, move it among the open statuses, mark it terminal,
\* or take a terminal one back.
Stirs(j) ==
  /\ Exists(table, j) /\ Exists(table', j) /\ table'[j].key = table[j].key
  /\ ~Terminal(j) /\ ~Terminal(j)'
Settles(j) ==
  /\ Exists(table, j) /\ table'[j].key = table[j].key
  /\ Terminal(j)' /\ table'[j].due = 0
Reopens(j) ==
  /\ Terminal(j) /\ Exists(table', j) /\ table'[j].key = table[j].key
  /\ ~Terminal(j)'

Quiet(j) == table'[j] = table[j] \/ Stirs(j)

\* The loop's steps reserve and recover open rows only.
LEMMA LoopIsQuiet ==
  ASSUME TypeOK, NEW w \in Worker, LoopStep(w) \/ Crash(w), NEW j \in JobId
  PROVE  Quiet(j)
<1>1. CASE table' = table
  BY <1>1 DEF Quiet
<1>2. CASE Recover(w)
  <2>1. table'[j] = IF StaleDispatch(table, j) THEN Undecided(table[j]) ELSE table[j]
    BY <1>2 DEF Recover, RecoverStale
  <2>2. Undecided(table[j]).status = "uncertain" /\ Undecided(table[j]).key = table[j].key
    BY DEF Undecided, TypeOK, Row
  <2>. QED BY <2>1, <2>2 DEF Quiet, Stirs, Terminal, Exists, StaleDispatch
<1>3. CASE ReserveBatch(w)
  <2>1. CASE j \in Picked(table)
    <3>1. table'[j] = [table[j] EXCEPT !.status = "processing", !.lease = 0, !.by = w,
                                      !.attempts = NextAttempt(@)]
      BY <1>3, <2>1 DEF ReserveBatch, Reserve
    <3>2. table'[j].status = "processing" /\ table'[j].key = table[j].key
      BY <3>1 DEF TypeOK, Row
    <3>3. table[j].status \in {"pending", "failed", "processing"}
      BY <2>1 DEF Picked, Reservable
    <3>. QED BY <3>2, <3>3 DEF Quiet, Stirs, Terminal, Exists
  <2>2. CASE j \notin Picked(table)
    BY <1>3, <2>2 DEF ReserveBatch, Reserve, Quiet
  <2>. QED BY <2>1, <2>2
<1>4. FinishTick(w) \/ Restart(w) \/ Crash(w) => table' = table
  BY DEF FinishTick, Restart, Crash
<1>. QED BY <1>1, <1>2, <1>3, <1>4 DEF LoopStep

\* A job's step does one of the four to its own row: the marks ask for nothing but the id.
LEMMA JobStirsItsRow ==
  ASSUME TypeOK, NEW w \in Worker, NEW j \in JobId, JobStep(w, j) \/ JobFault(w, j)
  PROVE  Quiet(j) \/ Settles(j) \/ Reopens(j)
<1>. DEFINE Goal == Quiet(j) \/ Settles(j) \/ Reopens(j)
<1>1. ASSUME table' = table PROVE Goal
  BY <1>1 DEF Quiet
<1>2. ASSUME table' = MarkDispatchStarted(table, j) PROVE Goal
  <2>1. CASE table[j].status = "processing"
    BY <1>2, <2>1, RowAfter DEF Quiet, Stirs, Terminal, Exists
  <2>2. CASE table[j].status # "processing"
    BY <1>1, <1>2, <2>2 DEF MarkDispatchStarted
  <2>. QED BY <2>1, <2>2
<1>3. ASSUME NEW s \in {"sent", "dead_lettered"},
             Exists(table, j), table'[j].status = s, table'[j].key = table[j].key,
             table'[j].due = 0
      PROVE  Goal
  BY <1>3 DEF Settles, Terminal
<1>4. ASSUME NEW s \in {"failed", "uncertain"},
             Exists(table, j), table'[j].status = s, table'[j].key = table[j].key
      PROVE  Goal
  BY <1>4 DEF Quiet, Stirs, Reopens, Terminal, Exists
<1>5. ASSUME table' = MarkSent(table, j) PROVE Goal
  BY <1>1, <1>3, <1>5, RowAfter
<1>6. ASSUME table' = MarkDeadLettered(table, j) PROVE Goal
  <2>1. Exists(table, j) => table'[j] = Settled(table[j], "dead_lettered", 0)
    BY <1>6 DEF MarkDeadLettered, TypeOK
  <2>2. Exists(table, j) => table'[j].due = 0
    BY <2>1 DEF Settled, TypeOK, Row
  <2>. QED BY <1>1, <1>3, <1>6, <2>2, RowAfter
<1>7. ASSUME table' = MarkUncertain(table, j) PROVE Goal
  BY <1>1, <1>4, <1>7, RowAfter
<1>8. ASSUME NEW d, table' = MarkFailed(table, j, d) PROVE Goal
  BY <1>1, <1>4, <1>8, RowAfter
<1>9. CASE Settle(w, j)
  BY <1>6, <1>7, <1>8, <1>9 DEF Settle, Transition, Verdict
<1>10. CASE PersistSent(w, j) \/ PersistFails(w, j)
  BY <1>1, <1>5, <1>10 DEF PersistSent, PersistFails
<1>11. CASE StartDispatch(w, j) \/ DispatchMarkFails(w, j)
  BY <1>1, <1>2, <1>11 DEF StartDispatch, DispatchMarkFails
<1>12. CASE \/ RefuseTransport(w, j) \/ ProviderAccepts(w, j) \/ SendFails(w, j)
            \/ SendReturns(w, j) \/ SettleLost(w, j)
  BY <1>1, <1>12 DEF RefuseTransport, ProviderAccepts, SendFails, SendReturns, SettleLost
<1>. QED BY <1>9, <1>10, <1>11, <1>12 DEF JobStep, JobFault

\* A terminal row after a step that takes no time was settled in it, or is as it was.
LEMMA TerminalRows ==
  ASSUME TypeOK, [Act]_vars, NEW j \in JobId, Terminal(j)'
  PROVE  table'[j] = table[j] \/ Settles(j)
<1>1. Quiet(j) \/ Settles(j) \/ Reopens(j) => table'[j] = table[j] \/ Settles(j)
  BY DEF Quiet, Stirs, Reopens
<1>2. CASE UNCHANGED vars
  BY <1>2 DEF vars
<1>3. ASSUME NEW K \in (SUBSET Key) \ {{}}, NEW delay \in Stagger, EnqueueMany(K, delay)
      PROVE  table'[j] = table[j]
  <2>1. IF j >= nextId /\ j < nextId'
        THEN table'[j].status = "pending"
        ELSE table'[j] = table[j] \/ table'[j] = NoRow
    BY <1>3, EnqueuedRows
  <2>. QED BY <2>1 DEF Terminal, NoRow
<1>4. ASSUME NEW w \in Worker, LoopStep(w) \/ Crash(w) PROVE table'[j] = table[j] \/ Settles(j)
  BY <1>1, <1>4, LoopIsQuiet
<1>5. ASSUME NEW w \in Worker, NEW i \in JobId, JobStep(w, i) \/ JobFault(w, i)
      PROVE  table'[j] = table[j] \/ Settles(j)
  <2>1. CASE i = j
    BY <1>1, <1>5, <2>1, JobStirsItsRow
  <2>2. CASE i # j
    BY <1>5, <2>2, JobStepTouches DEF OnlyTouches
  <2>. QED BY <2>1, <2>2
<1>. QED BY <1>2, <1>3, <1>4, <1>5 DEF Act, WorkerStep

\* What a tick leaves of a row.
LEMMA AgedTerminal ==
  ASSUME TypeOK, Tick, NEW j \in JobId
  PROVE  /\ table'[j].status = table[j].status /\ table'[j].key = table[j].key
         /\ Exists(table, j) =>
              table'[j].due = IF table[j].due > -DuplicateWindow THEN table[j].due - 1
                                                                  ELSE table[j].due
<1>1. table'[j] = AgedRow(table[j])
  BY DEF Tick, Aged
<1>2. \A d, l : LET r == [table[j] EXCEPT !.due = d, !.lease = l]
               IN  r.status = table[j].status /\ r.key = table[j].key /\ r.due = d
  BY DEF TypeOK, Row
<1>3. AgedRow(table[j]).status = table[j].status /\ AgedRow(table[j]).key = table[j].key
  BY <1>2 DEF AgedRow
<1>4. ASSUME Exists(table, j)
      PROVE  AgedRow(table[j]).due = IF table[j].due > -DuplicateWindow THEN table[j].due - 1
                                                                         ELSE table[j].due
  <2>. DEFINE l == IF table[j].status = "processing" /\ table[j].lease < LeaseTimeout
                   THEN table[j].lease + 1 ELSE table[j].lease
              d == IF table[j].due > -DuplicateWindow THEN table[j].due - 1 ELSE table[j].due
  <2>1. AgedRow(table[j]) = [table[j] EXCEPT !.due = d, !.lease = l]
    BY <1>4 DEF AgedRow, Exists
  <2>. HIDE DEF d, l
  <2>2. AgedRow(table[j]).due = d BY <1>2, <2>1
  <2>. QED BY <2>2 DEF d
<1>. QED BY <1>1, <1>3, <1>4

\* With the history, the steps are those of OutboxDelivery.
LEMMA HistoryIsNext == [HistoryNext]_historyVars => [Next]_vars
  BY DEF HistoryNext, Next, historyVars

LEMMA HistoryTypeStep ==
  ASSUME HistoryTypeOK, [HistoryNext]_historyVars
  PROVE  HistoryTypeOK'
<1>1. CASE UNCHANGED historyVars
  BY <1>1 DEF historyVars, HistoryTypeOK
<1>2. CASE HistoryNext
  <2>1. now' \in Nat
    BY <1>2 DEF HistoryNext, HistoryTypeOK
  <2>2. settledAt' \in [Key -> Nat]
    BY <1>2, <2>1 DEF HistoryNext, Remembered, HistoryTypeOK
  <2>3. inserted' \in [Key -> Nat]
    BY <1>2 DEF HistoryNext, Remembered, HistoryTypeOK
  <2>. QED BY <2>1, <2>2, <2>3 DEF HistoryTypeOK
<1>. QED BY <1>1, <1>2

\* A row that a step leaves terminal, and as it was, keeps its time.
LEMMA SettledAtStays ==
  ASSUME TypeOK, TypeOK', HistoryTypeOK, AgeInv, KeyInv', Remembered, now' = now,
         NEW j \in JobId, Terminal(j), table'[j] = table[j]
  PROVE  settledAt'[table[j].key] = settledAt[table[j].key]
<1>0. table[j].key \in Key
  BY DEF AgeInv, KeyInv, RowShape, Terminal, Exists
<1>1. Terminal(j)'
  BY DEF Terminal
<1>2. ASSUME NEW i \in JobId, Terminal(i)', table'[i].key = table[j].key PROVE i = j
  BY <1>1, <1>2 DEF KeyInv, OneRowPerKey, Terminal, Exists
<1>3. table[j].due = 0 => settledAt[table[j].key] = now
  BY <1>0, OutboxAssumption DEF AgeInv, AgeShows, HistoryTypeOK
<1>4. settledAt'[table[j].key] =
        IF \E i \in JobId : Terminal(i)' /\ table'[i].key = table[j].key /\ table'[i].due = 0
        THEN now' ELSE settledAt[table[j].key]
  BY <1>0 DEF Remembered, JustSettled
<1>. QED BY <1>2, <1>3, <1>4

\* Time settles nothing.
LEMMA TickSettlesNothing ==
  ASSUME TypeOK, HistoryTypeOK, AgeInv, Tick, Remembered
  PROVE  settledAt' = settledAt
<1>1. ASSUME NEW j \in JobId, Terminal(j)' PROVE table'[j].due # 0
  <2>1. Terminal(j) /\ Exists(table, j)
    BY <1>1, AgedTerminal DEF Terminal, Exists
  <2>2. table[j].due \in Int /\ table[j].due <= 0
    BY <2>1 DEF AgeInv, AgeShows, TypeOK, Row
  <2>. QED BY <2>1, <2>2, AgedTerminal, OutboxAssumption
<1>2. settledAt' = [k \in Key |-> settledAt[k]]
  BY <1>1 DEF Remembered, JustSettled
<1>. QED BY <1>2 DEF HistoryTypeOK

LEMMA AgeStep ==
  ASSUME TypeOK, TypeOK', HistoryTypeOK, AgeInv, [HistoryNext]_historyVars
  PROVE  AgeInv'
<1>1. KeyInv'
  BY HistoryIsNext, KeyStep DEF AgeInv
<1>. SUFFICES ASSUME NEW j \in JobId, Terminal(j)' PROVE AgeShows(j)'
  BY <1>1 DEF AgeInv
<1>2. table'[j].key \in Key
  BY <1>1 DEF KeyInv, RowShape, Terminal, Exists
<1>3. CASE UNCHANGED historyVars
  BY <1>3 DEF historyVars, vars, AgeInv, AgeShows, Terminal
<1>4. CASE Act /\ now' = now /\ Remembered
  <2>1. CASE Settles(j)
    <3>1. settledAt'[table'[j].key] = now'
      BY <1>2, <1>4, <2>1 DEF Remembered, JustSettled, Settles
    <3>2. table'[j].due = 0
      BY <2>1 DEF Settles
    <3>3. -DuplicateWindow <= 0 /\ 0 <= 0 /\ 0 > -DuplicateWindow /\ now' = now' + 0
      BY <1>4, OutboxAssumption DEF HistoryTypeOK
    <3>. QED BY <3>1, <3>2, <3>3 DEF AgeShows
  <2>2. CASE table'[j] = table[j]
    <3>1. Terminal(j) BY <2>2 DEF Terminal
    <3>2. settledAt'[table[j].key] = settledAt[table[j].key]
      BY <1>1, <1>4, <2>2, <3>1, SettledAtStays
    <3>. QED BY <1>4, <2>2, <3>1, <3>2 DEF AgeInv, AgeShows
  <2>. QED BY <1>4, <2>1, <2>2, TerminalRows
<1>5. CASE Tick /\ now' = now + 1 /\ Remembered
  <2>1. settledAt' = settledAt
    BY <1>5, TickSettlesNothing
  <2>2. Terminal(j) /\ Exists(table, j)
    BY <1>5, AgedTerminal DEF Terminal, Exists
  <2>3. AgeShows(j) /\ table[j].due \in Int
    BY <2>2 DEF AgeInv, TypeOK, Row
  <2>4. /\ table'[j].key = table[j].key
        /\ table'[j].due = IF table[j].due > -DuplicateWindow THEN table[j].due - 1
                                                               ELSE table[j].due
    BY <1>5, <2>2, AgedTerminal
  <2>5. settledAt[table[j].key] \in Int /\ now \in Int
    BY <1>2, <2>4 DEF HistoryTypeOK
  <2>. QED BY <1>5, <2>1, <2>3, <2>4, <2>5, OutboxAssumption DEF AgeShows
<1>. QED BY <1>3, <1>4, <1>5 DEF HistoryNext

LEMMA AgesAtTheStart ==
  ASSUME HistoryInit
  PROVE  TypeOK /\ HistoryTypeOK /\ AgeInv
<1>1. Init /\ HistoryTypeOK
  BY DEF HistoryInit, HistoryTypeOK
<1>2. TypeOK BY <1>1, ConstantTypes, OutboxAssumption, DeliveryAssumption DEF Init, TypeOK
<1>3. KeyInv BY <1>1, OutboxAssumption DEF Init, KeyInv, RowShape, OneRowPerKey, Exists, NoRow
<1>4. \A j \in JobId : ~Terminal(j)
  BY <1>1 DEF Init, NoRow, Terminal
<1>. QED BY <1>1, <1>2, <1>3, <1>4 DEF AgeInv

LEMMA AgesFromTheStart == HistorySpec => [](TypeOK /\ HistoryTypeOK /\ AgeInv)
<1>1. HistoryInit => TypeOK /\ HistoryTypeOK /\ AgeInv
  BY AgesAtTheStart
<1>2. TypeOK /\ HistoryTypeOK /\ AgeInv /\ [HistoryNext]_historyVars
        => (TypeOK /\ HistoryTypeOK /\ AgeInv)'
  BY HistoryIsNext, TypeStep, HistoryTypeStep, AgeStep
<1>. QED BY <1>1, <1>2, PTL DEF HistorySpec

-----------------------------------------------------------------------------
(* The refinement *)

\* The one row of a key is the row the mapping shows.
LEMMA RowSeen ==
  KeyInv => \A j \in JobId :
    Exists(table, j) => StatusOf(table[j].key) = IF Terminal(j) THEN "done" ELSE "open"
<1>. SUFFICES ASSUME KeyInv, NEW j \in JobId, Exists(table, j)
              PROVE  StatusOf(table[j].key) = IF Terminal(j) THEN "done" ELSE "open"
  OBVIOUS
<1>1. ASSUME NEW i \in JobId, Exists(table, i), table[i].key = table[j].key PROVE i = j
  BY <1>1 DEF KeyInv, OneRowPerKey
<1>2. \A i \in JobId : Terminal(i) => Exists(table, i)
  BY DEF Terminal, Exists
<1>3. (\E i \in JobId : Terminal(i) /\ table[i].key = table[j].key) <=> Terminal(j)
  BY <1>1, <1>2
<1>4. (\E i \in JobId : Exists(table, i) /\ ~Terminal(i) /\ table[i].key = table[j].key)
        <=> ~Terminal(j)
  BY <1>1
<1>5. ~ \A i \in JobId : Exists(table, i) => table[i].key # table[j].key
  OBVIOUS
<1>. QED BY <1>3, <1>4, <1>5, Zenon DEF StatusOf

LEMMA NoRowSeen ==
  ASSUME NEW k, \A j \in JobId : Exists(table, j) => table[j].key # k
  PROVE  StatusOf(k) = "absent"
<1>1. ~ \E j \in JobId : Terminal(j) /\ table[j].key = k
  BY DEF Terminal, Exists
<1>. QED BY <1>1, Zenon DEF StatusOf

\* The same of the table after a step.
LEMMA RowSeenAfter ==
  ASSUME KeyInv', NEW k, NEW j \in JobId, Exists(table', j), table'[j].key = k
  PROVE  StatusOf(k)' = IF Terminal(j)' THEN "done" ELSE "open"
<1>1. ASSUME NEW i \in JobId, Exists(table', i), table'[i].key = k PROVE i = j
  BY <1>1 DEF KeyInv, OneRowPerKey, Exists
<1>2. \A i \in JobId : Terminal(i)' => Exists(table', i)
  BY DEF Terminal, Exists
<1>3. (\E i \in JobId : Terminal(i)' /\ table'[i].key = k) <=> Terminal(j)'
  BY <1>1, <1>2
<1>4. (\E i \in JobId : Exists(table, i)' /\ ~Terminal(i)' /\ table'[i].key = k) <=> ~Terminal(j)'
  BY <1>1 DEF Exists
<1>5. ~ \A i \in JobId : Exists(table, i)' => table'[i].key # k
  BY DEF Exists
<1>. QED BY <1>3, <1>4, <1>5, Zenon DEF StatusOf

LEMMA NoRowSeenAfter ==
  ASSUME NEW k, \A j \in JobId : Exists(table', j) => table'[j].key # k
  PROVE  StatusOf(k)' = "absent"
<1>1. ~ \E j \in JobId : Terminal(j)' /\ table'[j].key = k
  BY DEF Terminal, Exists
<1>2. ~ \E j \in JobId : Exists(table, j)' /\ ~Terminal(j)' /\ table'[j].key = k
  BY DEF Exists
<1>3. \A j \in JobId : Exists(table, j)' => table'[j].key # k
  BY DEF Exists
<1>. QED BY <1>1, <1>2, <1>3, Zenon DEF StatusOf

\* A key whose row a step leaves alone, or moves among the open statuses.
LEMMA KeptRow ==
  ASSUME TypeOK, TypeOK', HistoryTypeOK, AgeInv, KeyInv', Remembered, now' = now,
         NEW k \in Key, ~GivenRow(k),
         \A i \in JobId : table[i].key = k \/ table'[i].key = k => Quiet(i)
  PROVE  RowOf(k)' = RowOf(k)
<1>1. inserted'[k] = inserted[k]
  BY DEF Remembered
<1>2. CASE \A j \in JobId : Exists(table, j) => table[j].key # k
  <2>1. \A j \in JobId : Exists(table', j) => table'[j].key # k
    BY <1>2 DEF Quiet, Stirs, Exists
  <2>2. StatusOf(k) = "absent" /\ StatusOf(k)' = "absent"
    BY <1>2, <2>1, NoRowSeen, NoRowSeenAfter
  <2>. QED BY <1>1, <2>2 DEF RowOf
<1>3. ASSUME NEW j \in JobId, Exists(table, j), table[j].key = k PROVE RowOf(k)' = RowOf(k)
  <2>1. Quiet(j) BY <1>3
  <2>2. Exists(table', j) /\ table'[j].key = k /\ (Terminal(j)' <=> Terminal(j))
    BY <1>3, <2>1 DEF Quiet, Stirs, Exists, Terminal
  <2>3. StatusOf(k)' = StatusOf(k)
    BY <1>3, <2>2, RowSeen, RowSeenAfter DEF AgeInv
  <2>4. CASE Terminal(j)
    <3>1. table'[j] = table[j]
      BY <2>1, <2>4 DEF Quiet, Stirs
    <3>2. settledAt'[k] = settledAt[k]
      BY <1>3, <2>4, <3>1, SettledAtStays
    <3>. QED BY <1>1, <2>3, <3>2 DEF RowOf
  <2>5. CASE ~Terminal(j)
    <3>1. StatusOf(k) = "open"
      BY <1>3, <2>5, RowSeen DEF AgeInv
    <3>. QED BY <1>1, <2>3, <3>1 DEF RowOf
  <2>. QED BY <2>4, <2>5
<1>. QED BY <1>2, <1>3

\* A mark settles the row of its key or opens it again, if it does anything.
LEMMA MarkSeen ==
  ASSUME TypeOK, TypeOK', HistoryTypeOK, AgeInv, KeyInv', Remembered, now' = now,
         nextId' = nextId, NEW j \in JobId, Quiet(j) \/ Settles(j) \/ Reopens(j),
         \A i \in JobId : i # j => table'[i] = table[i]
  PROVE  \/ \A k \in Key : RowOf(k)' = RowOf(k)
         \/ \E k \in Key : Rows!Settle(k) \/ Rows!Reopen(k)
<1>0. ASSUME NEW k \in Key PROVE ~GivenRow(k)
  BY DEF GivenRow, TypeOK, JobId
<1>1. CASE Quiet(j)
  <2>1. \A i \in JobId : Quiet(i)
    BY <1>1 DEF Quiet
  <2>. QED BY <1>0, <2>1, KeptRow
<1>2. CASE Settles(j) \/ Reopens(j)
  <2>1. PICK k \in Key :
          Exists(table, j) /\ Exists(table', j) /\ table[j].key = k /\ table'[j].key = k
    BY <1>2 DEF Settles, Reopens, Terminal, Exists, AgeInv, KeyInv, RowShape
  <2>2. \A q \in Key \ {k} : RowOf(q)' = RowOf(q)
    <3>. SUFFICES ASSUME NEW q \in Key \ {k} PROVE RowOf(q)' = RowOf(q)
      OBVIOUS
    <3>1. \A i \in JobId : table[i].key = q \/ table'[i].key = q => Quiet(i)
      BY <2>1 DEF Quiet
    <3>. QED BY <1>0, <3>1, KeptRow
  <2>3. inserted'[k] = inserted[k]
    BY <1>0, <2>1 DEF Remembered
  <2>4. RowOf(k).status # "absent" /\ RowOf(k).nth = inserted[k]
    BY <2>1, RowSeen DEF AgeInv, RowOf
  <2>5. CASE Settles(j)
    <3>1. StatusOf(k)' = "done"
      BY <2>1, <2>5, RowSeenAfter DEF Settles
    <3>2. settledAt'[k] = now'
      BY <2>1, <2>5 DEF Remembered, JustSettled, Settles
    <3>3. RowOf(k)' = Rows!DoneRow(RowOf(k).nth)
      BY <2>3, <2>4, <3>1, <3>2 DEF RowOf, Rows!DoneRow
    <3>4. rowsSeen' = [rowsSeen EXCEPT ![k] = Rows!DoneRow(RowOf(k).nth)]
      BY <2>1, <2>2, <3>3 DEF rowsSeen
    <3>5. Rows!Settle(k)
      BY <2>1, <2>4, <3>4 DEF Rows!Settle, rowsSeen
    <3>. QED BY <2>1, <3>5
  <2>6. CASE Reopens(j)
    <3>1. StatusOf(k)' = "open"
      BY <2>1, <2>6, RowSeenAfter DEF Reopens
    <3>2. StatusOf(k) = "done"
      BY <2>1, <2>6, RowSeen DEF Reopens, AgeInv
    <3>3. RowOf(k)' = Rows!OpenRow(RowOf(k).nth) /\ RowOf(k).status = "done"
      BY <2>3, <2>4, <3>1, <3>2 DEF RowOf, Rows!OpenRow
    <3>4. rowsSeen' = [rowsSeen EXCEPT ![k] = Rows!OpenRow(RowOf(k).nth)]
      BY <2>1, <2>2, <3>3 DEF rowsSeen
    <3>5. Rows!Reopen(k)
      BY <2>1, <3>3, <3>4 DEF Rows!Reopen, rowsSeen
    <3>. QED BY <2>1, <3>5
  <2>. QED BY <1>2, <2>5, <2>6
<1>. QED BY <1>1, <1>2

\* An insert takes the keys that are free, and each gets a row.
LEMMA InsertedKeys ==
  ASSUME TypeOK, KeyInv, NEW K \in (SUBSET Key) \ {{}}, NEW delay \in Stagger,
         EnqueueMany(K, delay), NEW k \in Key
  PROVE  IF k \in K /\ \A j \in JobId : Exists(table, j) /\ table[j].key = k => Expired(table, j)
         THEN /\ GivenRow(k)
              /\ \E i \in JobId : table'[i].status = "pending" /\ table'[i].key = k
         ELSE /\ ~GivenRow(k)
              /\ \A i \in JobId : table[i].key = k \/ table'[i].key = k => table'[i] = table[i]
<1>. DEFINE cleaned == DeleteExpired(table, K)
            fresh == Insertable(cleaned, K)
            ids == nextId..(nextId + Cardinality(fresh) - 1)
<1>0. fresh \subseteq Key /\ Cardinality(fresh) \in Nat /\ IsFiniteSet(fresh)
  <2>1. fresh \subseteq Key BY FreshIsFinite
  <2>. QED BY <2>1, FreshIsFinite, FS_Subset, OutboxAssumption
<1>1. PICK keyAt \in [ids -> fresh] :
        /\ \A i, j \in ids : keyAt[i] = keyAt[j] => i = j
        /\ table' = InsertJobs(cleaned, keyAt, delay)
  BY DEF EnqueueMany
<1>2. nextId' = nextId + Cardinality(fresh) /\ nextId + Cardinality(fresh) <= MaxJobs + 1
  BY DEF EnqueueMany
<1>3. ids \subseteq JobId /\ \A i \in JobId : i \in ids <=> nextId <= i /\ i < nextId'
  BY <1>0, <1>2, OutboxAssumption DEF TypeOK, JobId
<1>4. \A i \in ids : PendingRow(keyAt[i], delay).status = "pending"
                     /\ PendingRow(keyAt[i], delay).key = keyAt[i]
  BY DEF PendingRow, NoRow
<1>5. \A i \in JobId : table'[i] = IF i \in ids THEN PendingRow(keyAt[i], delay) ELSE cleaned[i]
  BY <1>1 DEF InsertJobs
<1>6. \A i \in JobId : cleaned[i] = IF table[i].key \in K /\ Expired(table, i) THEN NoRow ELSE table[i]
  BY DEF DeleteExpired
<1>7. NoRow.status = "absent" /\ NoRow.key = NoKey /\ NoKey # k
  BY OutboxAssumption DEF NoRow
<1>8. \A q \in fresh : \E i \in ids : keyAt[i] = q
  <2>1. Cardinality(ids) = Cardinality(fresh)
    <3>. DEFINE n == Cardinality(fresh)
                last == nextId + n - 1
    <3>1. nextId \in Int /\ n \in Nat /\ last \in Int
      BY <1>0 DEF TypeOK
    <3>. HIDE DEF fresh
    <3>2. Cardinality(nextId..last) = IF nextId > last THEN 0 ELSE last - nextId + 1
      <4>. HIDE DEF last
      <4>. QED BY <3>1, FS_Interval
    <3>3. (IF nextId > last THEN 0 ELSE last - nextId + 1) = n
      <4>. HIDE DEF n
      <4>. QED BY <3>1
    <3>. QED BY <3>2, <3>3
  <2>2. keyAt \in Injection(ids, fresh)
    BY <1>1 DEF Injection, IsInjective
  <2>3. keyAt \in Surjection(ids, fresh)
    BY <1>0, <2>1, <2>2, FS_Injection
  <2>. QED BY <2>3 DEF Surjection
<1>. HIDE DEF ids, fresh, cleaned
<1>9. \A i \in ids : ~Exists(table, i) /\ table[i].key # k
  BY <1>3, <1>7 DEF KeyInv, RowShape, Exists, TypeOK, JobId
<1>10. k \in fresh <=>
         k \in K /\ \A j \in JobId : Exists(table, j) /\ table[j].key = k => Expired(table, j)
  BY <1>6, <1>7 DEF fresh, Insertable, Exists
<1>11. CASE k \in fresh
  <2>1. PICK i \in ids : keyAt[i] = k BY <1>8, <1>11
  <2>2. table'[i].status = "pending" /\ table'[i].key = k /\ i \in JobId
    BY <1>3, <1>4, <1>5, <2>1
  <2>3. GivenRow(k) BY <1>3, <2>2, <2>1 DEF GivenRow
  <2>. QED BY <1>10, <1>11, <2>2, <2>3
<1>12. CASE k \notin fresh
  <2>1. \A i \in ids : table'[i].key # k
    BY <1>1, <1>3, <1>4, <1>5, <1>12
  <2>2. ~GivenRow(k) BY <1>3, <2>1 DEF GivenRow
  <2>3. ASSUME NEW i \in JobId, table[i].key = k \/ table'[i].key = k PROVE table'[i] = table[i]
    <3>1. i \notin ids BY <1>9, <2>1, <2>3
    <3>2. table'[i] = cleaned[i] BY <1>5, <3>1
    <3>3. CASE table[i].key \in K /\ Expired(table, i)
      <4>1. table[i].key = k BY <1>6, <1>7, <2>3, <3>2, <3>3
      <4>2. PICK j \in JobId : Exists(table, j) /\ table[j].key = k /\ ~Expired(table, j)
        BY <1>10, <1>12, <3>3, <4>1
      <4>3. Exists(table, i) BY <3>3 DEF Expired, Exists
      <4>. QED BY <3>3, <4>1, <4>2, <4>3 DEF KeyInv, OneRowPerKey
    <3>4. CASE ~(table[i].key \in K /\ Expired(table, i))
      BY <1>6, <3>2, <3>4
    <3>. QED BY <3>3, <3>4
  <2>. QED BY <1>10, <1>12, <2>2, <2>3
<1>. QED BY <1>11, <1>12

\* The table holds no row of a key that the statement would keep: the key is free.
LEMMA FreeIsExpired ==
  ASSUME TypeOK, HistoryTypeOK, AgeInv, NEW k \in Key
  PROVE  Rows!Free(k) <=>
           \A j \in JobId : Exists(table, j) /\ table[j].key = k => Expired(table, j)
<1>1. Rows!Free(k) <=> \/ StatusOf(k) = "absent"
                       \/ StatusOf(k) = "done" /\ settledAt[k] + DuplicateWindow <= now
  BY DEF Rows!Free, RowOf, rowsSeen
<1>2. CASE \A j \in JobId : Exists(table, j) => table[j].key # k
  BY <1>1, <1>2, NoRowSeen
<1>3. ASSUME NEW j \in JobId, Exists(table, j), table[j].key = k
      PROVE  Rows!Free(k) <=> Expired(table, j)
  <2>1. StatusOf(k) = IF Terminal(j) THEN "done" ELSE "open"
    BY <1>3, RowSeen DEF AgeInv
  <2>2. CASE ~Terminal(j)
    BY <1>1, <2>1, <2>2 DEF Expired, Terminal
  <2>3. CASE Terminal(j)
    <3>1. AgeShows(j) /\ table[j].due \in Int /\ settledAt[k] \in Nat /\ now \in Nat
      BY <2>3 DEF AgeInv, TypeOK, Row, HistoryTypeOK
    <3>2. settledAt[k] + DuplicateWindow <= now <=> table[j].due <= -DuplicateWindow
      BY <1>3, <3>1, OutboxAssumption DEF AgeShows
    <3>. QED BY <1>1, <2>1, <2>3, <3>2 DEF Expired, Terminal
  <2>. QED BY <2>2, <2>3
<1>4. ASSUME NEW i \in JobId, Exists(table, i), table[i].key = k,
             NEW j \in JobId, Exists(table, j), table[j].key = k
      PROVE  i = j
  BY <1>4 DEF AgeInv, KeyInv, OneRowPerKey
<1>. QED BY <1>2, <1>3, <1>4

LEMMA EnqueueSeen ==
  ASSUME TypeOK, TypeOK', HistoryTypeOK, AgeInv, KeyInv', Remembered, now' = now,
         NEW K \in (SUBSET Key) \ {{}}, NEW delay \in Stagger, EnqueueMany(K, delay)
  PROVE  Rows!Submit(K)
<1>1. ASSUME NEW k \in Key
      PROVE  RowOf(k)' = IF k \in K /\ Rows!Free(k) THEN Rows!OpenRow(RowOf(k).nth + 1) ELSE RowOf(k)
  <2>1. CASE k \in K /\ Rows!Free(k)
    <3>1. \A j \in JobId : Exists(table, j) /\ table[j].key = k => Expired(table, j)
      BY <2>1, FreeIsExpired
    <3>2. GivenRow(k) /\ \E i \in JobId : table'[i].status = "pending" /\ table'[i].key = k
      BY <2>1, <3>1, InsertedKeys DEF AgeInv
    <3>3. PICK i \in JobId : table'[i].status = "pending" /\ table'[i].key = k
      BY <3>2
    <3>4. Exists(table', i) /\ ~Terminal(i)'
      BY <3>3 DEF Exists, Terminal
    <3>5. StatusOf(k)' = "open"
      BY <3>3, <3>4, RowSeenAfter
    <3>6. inserted'[k] = inserted[k] + 1
      BY <3>2 DEF Remembered
    <3>7. RowOf(k)' = [status |-> "open", at |-> 0, nth |-> inserted[k] + 1]
      BY <3>5, <3>6 DEF RowOf
    <3>8. RowOf(k).nth = inserted[k]
      BY DEF RowOf
    <3>. QED BY <2>1, <3>7, <3>8 DEF Rows!OpenRow
  <2>2. CASE ~(k \in K /\ Rows!Free(k))
    <3>1. ~(k \in K /\ \A j \in JobId : Exists(table, j) /\ table[j].key = k => Expired(table, j))
      BY <2>2, FreeIsExpired
    <3>2. /\ ~GivenRow(k)
          /\ \A i \in JobId : table[i].key = k \/ table'[i].key = k => Quiet(i)
      BY <3>1, InsertedKeys DEF AgeInv, Quiet
    <3>. QED BY <2>2, <3>2, KeptRow
  <2>. QED BY <2>1, <2>2
<1>2. rowsSeen' =
        [k \in Key |-> IF k \in K /\ Rows!Free(k) THEN Rows!OpenRow(RowOf(k).nth + 1) ELSE RowOf(k)]
  BY <1>1 DEF rowsSeen
<1>. QED BY <1>2 DEF Rows!Submit, rowsSeen

LEMMA RowsStay ==
  ASSUME \A k \in Key : RowOf(k)' = RowOf(k)
  PROVE  rowsSeen' = rowsSeen
BY DEF rowsSeen

\* Time shows in no row.
LEMMA ClockSeen ==
  ASSUME TypeOK, TypeOK', HistoryTypeOK, AgeInv, AgeInv', Tick, Remembered
  PROVE  rowsSeen' = rowsSeen
<1>1. settledAt' = settledAt BY TickSettlesNothing
<1>2. nextId' = nextId BY DEF Tick
<1>3. inserted' = inserted
  <2>1. inserted' = [k \in Key |-> inserted[k]]
    BY <1>2 DEF Remembered, GivenRow, TypeOK, JobId
  <2>. QED BY <2>1 DEF HistoryTypeOK
<1>4. \A j \in JobId : table'[j].status = table[j].status /\ table'[j].key = table[j].key
  BY AgedTerminal
<1>5. \A k \in Key : StatusOf(k)' = StatusOf(k)
  <2>1. \A j \in JobId : (Terminal(j)' <=> Terminal(j)) /\ (Exists(table, j)' <=> Exists(table, j))
    BY <1>4 DEF Terminal, Exists
  <2>2. ASSUME NEW k \in Key PROVE StatusOf(k)' = StatusOf(k)
    <3>1. CASE \A j \in JobId : Exists(table, j) => table[j].key # k
      <4>1. \A j \in JobId : Exists(table', j) => table'[j].key # k
        BY <1>4, <3>1 DEF Exists
      <4>. QED BY <3>1, <4>1, NoRowSeen, NoRowSeenAfter
    <3>2. ASSUME NEW j \in JobId, Exists(table, j), table[j].key = k
          PROVE  StatusOf(k)' = StatusOf(k)
      <4>1. Exists(table', j) /\ table'[j].key = k
        BY <1>4, <3>2 DEF Exists
      <4>. QED BY <2>1, <3>2, <4>1, RowSeen, RowSeenAfter DEF AgeInv
    <3>. QED BY <3>1, <3>2
  <2>. QED BY <2>2
<1>6. \A k \in Key : RowOf(k)' = RowOf(k)
  BY <1>1, <1>3, <1>5 DEF RowOf
<1>. QED BY <1>6, RowsStay

\* What workers do shows as work on rows, if it shows.
LEMMA WorkSeen ==
  ASSUME TypeOK, TypeOK', HistoryTypeOK, AgeInv, KeyInv', WorkerStep, now' = now, Remembered
  PROVE  rowsSeen' = rowsSeen \/ Rows!Work
<1>1. ASSUME NEW w \in Worker, LoopStep(w) \/ Crash(w) PROVE rowsSeen' = rowsSeen
  <2>1. nextId' = nextId
    BY <1>1 DEF LoopStep, Recover, ReserveBatch, FinishTick, Restart, Crash
  <2>2. \A k \in Key : ~GivenRow(k)
    BY <2>1 DEF GivenRow, TypeOK, JobId
  <2>3. \A j \in JobId : Quiet(j)
    BY <1>1, LoopIsQuiet
  <2>. QED BY <2>2, <2>3, KeptRow, RowsStay
<1>2. ASSUME NEW w \in Worker, NEW j \in JobId, JobStep(w, j) \/ JobFault(w, j)
      PROVE  rowsSeen' = rowsSeen \/ Rows!Work
  <2>1. nextId' = nextId /\ \A i \in JobId : i # j => table'[i] = table[i]
    BY <1>2, JobStepTouches DEF OnlyTouches
  <2>2. Quiet(j) \/ Settles(j) \/ Reopens(j)
    BY <1>2, JobStirsItsRow
  <2>3. \/ \A k \in Key : RowOf(k)' = RowOf(k)
        \/ \E k \in Key : Rows!Settle(k) \/ Rows!Reopen(k)
    BY <2>1, <2>2, MarkSeen
  <2>. QED BY <2>3, RowsStay DEF Rows!Work
<1>. QED BY <1>1, <1>2 DEF WorkerStep

LEMMA RowsStep ==
  ASSUME TypeOK, TypeOK', HistoryTypeOK, AgeInv, AgeInv', [HistoryNext]_historyVars
  PROVE  [Rows!Next]_(Rows!vars)
<1>1. CASE UNCHANGED historyVars
  <2>1. \A k \in Key : RowOf(k)' = RowOf(k)
    BY <1>1 DEF historyVars, vars, RowOf, StatusOf, Terminal, Exists
  <2>. QED BY <1>1, <2>1, RowsStay DEF Rows!vars, historyVars
<1>2. CASE Tick /\ now' = now + 1 /\ Remembered
  BY <1>2, ClockSeen DEF Rows!Next
<1>3. CASE Act /\ now' = now /\ Remembered
  <2>1. KeyInv' BY DEF AgeInv
  <2>2. ASSUME NEW K \in (SUBSET Key) \ {{}}, NEW delay \in Stagger, EnqueueMany(K, delay)
        PROVE  Rows!Next
    BY <1>3, <2>1, <2>2, EnqueueSeen DEF Rows!Next
  <2>3. CASE WorkerStep
    BY <1>3, <2>1, <2>3, WorkSeen DEF Rows!Next, Rows!vars
  <2>. QED BY <1>3, <2>2, <2>3 DEF Act
<1>. QED BY <1>1, <1>2, <1>3 DEF HistoryNext

LEMMA RowsStart ==
  ASSUME HistoryInit
  PROVE  Rows!Init
<1>1. \A k \in Key, j \in JobId : ~Exists(table, j)
  BY DEF HistoryInit, Init, NoRow, Exists
<1>2. \A k \in Key : RowOf(k) = [status |-> "absent", at |-> 0, nth |-> 0]
  <2>1. \A k \in Key : StatusOf(k) = "absent"
    BY <1>1, NoRowSeen
  <2>. QED BY <2>1 DEF RowOf, HistoryInit
<1>. QED BY <1>2 DEF HistoryInit, Rows!Init, Rows!NoRow, rowsSeen

\* Ids, leases, workers, crashes, lost statements, retries, overrun jobs and false reports
\* come to this for those who enqueue: one row per key, free again a window after it was
\* settled last, and given to a key only then.
THEOREM OutboxKeepsRows == HistorySpec => KeepsRows
<1>1. HistoryInit => Rows!Init
  BY RowsStart
<1>2. /\ TypeOK /\ TypeOK' /\ HistoryTypeOK /\ AgeInv /\ AgeInv'
      /\ [HistoryNext]_historyVars
      => [Rows!Next]_(Rows!vars)
  BY RowsStep
<1>. QED BY <1>1, <1>2, AgesFromTheStart, PTL DEF HistorySpec, KeepsRows, Rows!Spec
=============================================================================
