------------------------- MODULE AlertPipeline_proofs -------------------------
(* What AlertPipeline guarantees for any alerts, sources, chats and windows. *)
EXTENDS AlertPipeline, SequenceTheorems, TLAPS

-----------------------------------------------------------------------------
(* Types *)

\* An ingest of the processing tail belongs to its first batch.
TypeInv == TypeOK /\ (Flying(Poll) => tail # <<>>)

LEMMA SlotTypes ==
  ASSUME TypeOK, NEW s \in Slot, Flying(s)
  PROVE  /\ flight[s] \in Ingest /\ flight[s].alert \in Alert
         /\ KeyOf[flight[s].alert] \in Key /\ EventAt[flight[s].alert] \in Nat
BY PipelineAssumption DEF TypeOK, Flying, Ingest

LEMMA RememberedTypes ==
  ASSUME NEW d \in [Key -> Entry \cup {Never}], NEW a \in Alert, NEW b \in BOOLEAN
  PROVE  DeliveredBy(d, a, b) \in [Key -> Entry \cup {Never}]
BY PipelineAssumption DEF DeliveredBy, Entry

LEMMA SeedTypes ==
  ASSUME TypeOK, NEW L \in SUBSET Alert
  PROVE  SeedDelivered(L) \in [Key -> Entry \cup {Never}]
<1>1. ASSUME NEW k \in Key, Youngest(L, k) # {}
      PROVE  EventAt[CHOOSE a \in Youngest(L, k) : TRUE] \in Nat
  <2>1. (CHOOSE a \in Youngest(L, k) : TRUE) \in Alert
    BY <1>1 DEF Youngest
  <2>. QED BY <2>1, PipelineAssumption
<1>. QED BY <1>1 DEF SeedDelivered, TypeOK, Entry

\* Answered or not, the transaction of an ingest inserts its rows.
Insert(a) == Table!Submit(JobsOf(a)) /\ Counted(a, Accepting(a))

LEMMA EnqueueInserts ==
  ASSUME NEW s, Enqueue(s)
  PROVE  /\ At(s, "enqueueing")
         /\ GoesTo(s, IF Accepting(flight[s].alert) # {} THEN "enqueued" ELSE "skipped")
         /\ Insert(flight[s].alert)
         /\ UNCHANGED <<now, up, enabled, tail, store, excused, rare>>
BY DEF Enqueue, Answered, Insert

LEMMA LostInserts ==
  ASSUME NEW s, EnqueueLost(s)
  PROVE  /\ At(s, "enqueueing") /\ Rare("lost")
         /\ Abort(s)
         /\ Insert(flight[s].alert)
         /\ UNCHANGED <<now, up, enabled, store, excused>>
BY DEF EnqueueLost, Unanswered, Insert

\* What an insertion and the workers of the outbox do to the row of a key and chat.
LEMMA RowTypes ==
  /\ Table!NoRow \in Table!Row
  /\ TypeOK => \A n \in Nat : Table!OpenRow(n) \in Table!Row /\ Table!DoneRow(n) \in Table!Row
  BY DEF Table!NoRow, Table!OpenRow, Table!DoneRow, Table!Row, TypeOK

LEMMA InsertedRow ==
  ASSUME TypeOK, NEW a \in Alert, Insert(a), NEW p \in Key \X Chat
  PROVE  IF p[1] = KeyOf[a] /\ Table!Free(p)
         THEN rows'[p] \in Table!Row /\ rows'[p].status = "open"
         ELSE rows'[p] = rows[p]
<1>1. p \in JobsOf(a) <=> p[1] = KeyOf[a]
  BY DEF JobsOf
<1>2. rows'[p] = IF p \in JobsOf(a) /\ Table!Free(p) THEN Table!OpenRow(rows[p].nth + 1) ELSE rows[p]
  BY DEF Insert, Table!Submit
<1>3. rows[p] \in Table!Row
  BY DEF TypeOK
<1>4. rows[p].nth + 1 \in Nat
  BY <1>3 DEF Table!Row
<1>5. Table!OpenRow(rows[p].nth + 1) \in Table!Row
  BY <1>4, RowTypes
<1>6. Table!OpenRow(rows[p].nth + 1).status = "open"
  BY DEF Table!OpenRow
<1>. QED BY <1>1, <1>2, <1>5, <1>6

LEMMA WorkedRows ==
  ASSUME TypeOK, Table!Work
  PROVE  /\ rows' \in [Key \X Chat -> Table!Row]
         /\ \A p \in Key \X Chat :
              \/ rows'[p] = rows[p]
              \/ rows'[p].status = "open" /\ rows[p].status # "absent"
              \/ rows'[p].status = "done" /\ rows'[p].at = now /\ rows[p].status # "absent"
<1>1. PICK q \in Key \X Chat : Table!Settle(q) \/ Table!Reopen(q)
  BY DEF Table!Work
<1>2. rows[q] \in Table!Row
  BY DEF TypeOK
<1>3. rows[q].nth \in Nat
  BY <1>2 DEF Table!Row
<1>4. PICK r \in {Table!DoneRow(rows[q].nth), Table!OpenRow(rows[q].nth)} :
        rows[q].status # "absent" /\ rows' = [rows EXCEPT ![q] = r]
  BY <1>1 DEF Table!Settle, Table!Reopen
<1>5. r \in Table!Row
  BY <1>3, RowTypes
<1>6. r.status = "open" \/ (r.status = "done" /\ r.at = now)
  BY DEF Table!DoneRow, Table!OpenRow
<1>. QED BY <1>4, <1>5, <1>6 DEF TypeOK

LEMMA InsertTypes ==
  ASSUME TypeOK, NEW a \in Alert, Insert(a)
  PROVE  rows' \in [Key \X Chat -> Table!Row] /\ copies' \in [Alert \X Chat -> Nat]
<1>1. rows' \in [Key \X Chat -> Table!Row]
  <2>1. ASSUME NEW p \in Key \X Chat PROVE rows'[p] \in Table!Row
    BY InsertedRow DEF TypeOK
  <2>2. DOMAIN rows' = Key \X Chat /\ rows' = [p \in Key \X Chat |-> rows'[p]]
    BY DEF Insert, Counted, Table!Submit
  <2>. QED BY <2>1, <2>2
<1>2. copies' \in [Alert \X Chat -> Nat]
  BY DEF Insert, Counted, TypeOK
<1>. QED BY <1>1, <1>2

\* What an exception or an answer does to the slots and to the tail.
LEMMA SlotMoves ==
  ASSUME TypeInv, NEW s \in Slot, Flying(s)
  PROVE  /\ Leaves(s) => flight' \in [Slot -> Ingest \cup {NoIngest}]
         /\ \A g \in Stage : GoesTo(s, g) => flight' \in [Slot -> Ingest \cup {NoIngest}]
         /\ Abort(s) => tail' \in Seq(Fetched) /\ (Flying(Poll)' => tail' # <<>>)
         /\ Leaves(s) /\ tail' = tail => (Flying(Poll)' => tail' # <<>>)
         /\ \A g \in Stage : GoesTo(s, g) /\ tail' = tail => (Flying(Poll)' => tail' # <<>>)
<1>1. flight[s] \in Ingest
  BY SlotTypes DEF TypeInv
<1>2. Leaves(s) => flight' \in [Slot -> Ingest \cup {NoIngest}]
  BY DEF TypeInv, TypeOK, Leaves
<1>3. ASSUME NEW g \in Stage, GoesTo(s, g)
      PROVE  flight' \in [Slot -> Ingest \cup {NoIngest}]
  <2>1. [flight[s] EXCEPT !.stage = g] \in Ingest BY <1>1 DEF Ingest
  <2>. QED BY <2>1, <1>3 DEF GoesTo, TypeInv, TypeOK
<1>4. Abort(s) => tail' \in Seq(Fetched)
  <2>1. s = Poll => tail # <<>> BY DEF TypeInv
  <2>. QED BY <2>1 DEF TypeInv, TypeOK, Abort
<1>5. Abort(s) => (Flying(Poll)' => tail' # <<>>)
  BY DEF TypeInv, TypeOK, Abort, Leaves, Flying, Slot
<1>6. Leaves(s) /\ tail' = tail => (Flying(Poll)' => tail' # <<>>)
  BY DEF TypeInv, TypeOK, Leaves, Flying, Slot
<1>7. ASSUME NEW g \in Stage, GoesTo(s, g), tail' = tail
      PROVE  Flying(Poll)' => tail' # <<>>
  BY <1>7 DEF TypeInv, TypeOK, GoesTo, Flying, Slot
<1>. QED BY <1>2, <1>3, <1>4, <1>5, <1>6, <1>7

LEMMA EnterTypes ==
  ASSUME TypeOK, NEW s \in Slot, NEW a \in Alert, Enter(s, a)
  PROVE  flight' \in [Slot -> Ingest \cup {NoIngest}] /\ excused' \in SUBSET Alert
<1>1. FirstStage(a) \in Stage
  BY DEF FirstStage, Stage
<1>2. [alert |-> a, stage |-> FirstStage(a), since |-> now] \in Ingest
  BY <1>1 DEF Ingest, TypeOK
<1>. QED BY <1>2 DEF Enter, TypeOK

LEMMA TypeInit == ASSUME Init PROVE TypeInv
<1>1. Table!NoRow \in Table!Row /\ Never \in Entry \cup {Never} BY RowTypes
<1>2. 0 \in 0..MaxTime /\ 0 \in 0..MaxRare /\ 0 \in Nat BY PipelineAssumption
<1>3. tail \in Seq(Fetched) BY DEF Init
<1>4. /\ delivered \in [Key -> Entry \cup {Never}] /\ deliveredFile \in [Key -> Entry \cup {Never}]
      /\ rows \in [Key \X Chat -> Table!Row] /\ copies \in [Alert \X Chat -> Nat]
  BY <1>1, <1>2 DEF Init
<1>5. flight \in [Slot -> Ingest \cup {NoIngest}] /\ ~Flying(Poll)
  BY DEF Init, Flying, Slot
<1>. QED BY <1>2, <1>3, <1>4, <1>5 DEF Init, TypeInv, TypeOK

LEMMA SlotStepKeepsTypes ==
  ASSUME TypeInv, NEW s \in Slot, SlotStep(s)
  PROVE  TypeInv'
<1>. USE DEF store, outbox
<1>0. ASSUME NEW kind, Rare(kind) PROVE rare' \in 0..MaxRare
  BY <1>0, PipelineAssumption DEF Rare, TypeInv, TypeOK
<1>00. /\ "enqueued" \in Stage /\ "skipped" \in Stage /\ "passed" \in Stage
  BY DEF Stage
<1>1. ASSUME NEW a \in Alert, IngestPushed(s, a) PROVE TypeInv'
  <2>1. flight' \in [Slot -> Ingest \cup {NoIngest}] /\ excused' \in SUBSET Alert
    BY <1>1, EnterTypes DEF IngestPushed, TypeInv
  <2>2. s # Poll BY <1>1, PipelineAssumption DEF IngestPushed
  <2>3. Flying(Poll)' => tail' # <<>>
    BY <2>2, <1>1 DEF IngestPushed, Enter, Flying, Slot, TypeInv, TypeOK
  <2>. QED BY <2>1, <2>3, <1>1 DEF IngestPushed, Enter, TypeInv, TypeOK
<1>2. CASE Enqueue(s)
  <2>1. PICK g \in Stage : GoesTo(s, g) BY <1>2, <1>00, EnqueueInserts
  <2>2. Flying(s) BY <1>2, EnqueueInserts DEF At
  <2>3. rows' \in [Key \X Chat -> Table!Row] /\ copies' \in [Alert \X Chat -> Nat]
    BY <1>2, <2>2, InsertTypes, SlotTypes, EnqueueInserts DEF TypeInv
  <2>. QED BY <2>1, <2>2, <2>3, <1>2, SlotMoves, EnqueueInserts DEF TypeInv, TypeOK
<1>3. CASE EnqueueRefused(s)
  <2>1. Flying(s) BY <1>3 DEF EnqueueRefused, At
  <2>2. /\ flight' \in [Slot -> Ingest \cup {NoIngest}]
        /\ tail' \in Seq(Fetched) /\ (Flying(Poll)' => tail' # <<>>)
    BY <2>1, <1>3, SlotMoves DEF EnqueueRefused, Abort
  <2>3. rare' \in 0..MaxRare BY <1>0, <1>3 DEF EnqueueRefused
  <2>. QED BY <2>2, <2>3, <1>3 DEF EnqueueRefused, TypeInv, TypeOK
<1>4. CASE EnqueueLost(s)
  <2>1. Flying(s) BY <1>4, LostInserts DEF At
  <2>2. rows' \in [Key \X Chat -> Table!Row] /\ copies' \in [Alert \X Chat -> Nat]
    BY <1>4, <2>1, InsertTypes, SlotTypes, LostInserts DEF TypeInv
  <2>3. /\ flight' \in [Slot -> Ingest \cup {NoIngest}]
        /\ tail' \in Seq(Fetched) /\ (Flying(Poll)' => tail' # <<>>)
    BY <2>1, <1>4, SlotMoves, LostInserts DEF Abort
  <2>4. rare' \in 0..MaxRare BY <1>0, <1>4, LostInserts
  <2>. QED BY <2>2, <2>3, <2>4, <1>4, LostInserts DEF TypeInv, TypeOK
<1>5. CASE RecordDuplicate(s)
  <2>1. Flying(s) BY <1>5 DEF RecordDuplicate, At
  <2>. QED BY <2>1, <1>5, <1>00, SlotMoves DEF RecordDuplicate, TypeInv, TypeOK
<1>6. CASE RecordFails(s)
  <2>1. Flying(s) BY <1>6 DEF RecordFails, At
  <2>2. /\ flight' \in [Slot -> Ingest \cup {NoIngest}]
        /\ tail' \in Seq(Fetched) /\ (Flying(Poll)' => tail' # <<>>)
    BY <2>1, <1>6, SlotMoves DEF RecordFails, Abort
  <2>3. rare' \in 0..MaxRare BY <1>0, <1>6 DEF RecordFails
  <2>. QED BY <2>2, <2>3, <1>6 DEF RecordFails, TypeInv, TypeOK
<1>7. CASE Pass(s)
  <2>1. Flying(s) BY <1>7 DEF Pass, At
  <2>. QED BY <2>1, <1>7, SlotMoves DEF Pass, TypeInv, TypeOK
<1>8. CASE Remember(s)
  <2>1. Flying(s) BY <1>8 DEF Remember, At
  <2>2. flight[s].alert \in Alert BY <2>1, SlotTypes DEF TypeInv
  <2>3. /\ delivered' \in [Key -> Entry \cup {Never}] /\ deliveredFile' \in [Key -> Entry \cup {Never}]
        /\ seen' \in SUBSET Alert /\ seenFile' \in SUBSET Alert
    <3>1. DeliveredBy(delivered, flight[s].alert, FALSE) \in [Key -> Entry \cup {Never}]
      BY <2>2, RememberedTypes DEF TypeInv, TypeOK
    <3>. QED BY <2>2, <3>1, <1>8 DEF Remember, RememberDelivered, RememberSeen, TypeInv, TypeOK
  <2>. QED BY <2>1, <2>3, <1>8, SlotMoves DEF Remember, TypeInv, TypeOK
<1>9. CASE RememberFails(s)
  <2>1. Flying(s) BY <1>9 DEF RememberFails, At
  <2>2. flight[s].alert \in Alert BY <2>1, SlotTypes DEF TypeInv
  <2>3. /\ delivered' \in [Key -> Entry \cup {Never}] /\ deliveredFile' \in [Key -> Entry \cup {Never}]
        /\ seen' \in SUBSET Alert /\ seenFile' \in SUBSET Alert
    <3>1. DeliveredBy(delivered, flight[s].alert, FALSE) \in [Key -> Entry \cup {Never}]
      BY <2>2, RememberedTypes DEF TypeInv, TypeOK
    <3>. QED BY <2>2, <3>1, <1>9 DEF RememberFails, RememberDelivered, TypeInv, TypeOK
  <2>4. /\ flight' \in [Slot -> Ingest \cup {NoIngest}]
        /\ tail' \in Seq(Fetched) /\ (Flying(Poll)' => tail' # <<>>)
    BY <2>1, <1>9, SlotMoves DEF RememberFails, Abort
  <2>5. rare' \in 0..MaxRare BY <1>0, <1>9 DEF RememberFails
  <2>. QED BY <2>3, <2>4, <2>5, <1>9 DEF RememberFails, TypeInv, TypeOK
<1>10. CASE CrashInWrite(s)
  <2>1. flight[s].alert \in Alert \/ ~Flying(s) BY SlotTypes DEF TypeInv
  <2>2. PICK files \in SUBSET Alert, keys \in [Key -> Entry \cup {Never}] : Dies(files, keys)
    BY <2>1, <1>10, RememberedTypes DEF CrashInWrite, At, TypeInv, TypeOK
  <2>3. tail' \in Seq(Fetched) /\ ~Flying(Poll)' BY <2>2 DEF Dies, Flying, Slot
  <2>. QED BY <2>2, <2>3, <1>0, <1>10 DEF CrashInWrite, Dies, Loads, TypeInv, TypeOK
<1>. QED BY <1>1, <1>2, <1>3, <1>4, <1>5, <1>6, <1>7, <1>8, <1>9, <1>10 DEF SlotStep, IngestStep

LEMMA PollerStepKeepsTypes ==
  ASSUME TypeInv, PollerStep
  PROVE  TypeInv'
<1>. USE DEF store, outbox
<1>0. ASSUME NEW kind, Rare(kind) PROVE rare' \in 0..MaxRare
  BY <1>0, PipelineAssumption DEF Rare, TypeInv, TypeOK
<1>1. CASE IngestPolled
  <2>1. tail # <<>> /\ Head(tail) \in Fetched /\ 1 \in DOMAIN tail /\ Head(tail) = tail[1]
    BY <1>1 DEF IngestPolled, TypeInv, TypeOK
  <2>2. PICK a \in Head(tail).alerts : Enter(Poll, a) /\ tail' = [tail EXCEPT ![1].alerts = @ \ {a}]
    BY <1>1 DEF IngestPolled
  <2>3. a \in Alert BY <2>1, <2>2 DEF Fetched
  <2>4. flight' \in [Slot -> Ingest \cup {NoIngest}] /\ excused' \in SUBSET Alert
    BY <2>2, <2>3, EnterTypes DEF Slot, TypeInv
  <2>5. [tail[1] EXCEPT !.alerts = @ \ {a}] \in Fetched BY <2>1 DEF Fetched
  <2>6. tail' \in Seq(Fetched) /\ tail' # <<>>
    BY <2>1, <2>2, <2>5 DEF TypeInv, TypeOK
  <2>. QED BY <2>2, <2>4, <2>6 DEF Enter, TypeInv, TypeOK
<1>2. CASE PollEnds
  <2>1. tail' \in Seq(Fetched) /\ ~Flying(Poll)' BY <1>2 DEF PollEnds, Flying, TypeInv, TypeOK
  <2>. QED BY <2>1, <1>2 DEF PollEnds, TypeInv, TypeOK
<1>3. CASE SetDelivery
  BY <1>0, <1>3 DEF SetDelivery, TypeInv, TypeOK, Flying
<1>4. CASE Crash
  <2>1. tail' \in Seq(Fetched) /\ ~Flying(Poll)' BY <1>4 DEF Crash, Dies, Flying, Slot
  <2>. QED BY <2>1, <1>0, <1>4 DEF Crash, Dies, Loads, TypeInv, TypeOK
<1>5. ASSUME NEW src \in Polled, NEW L \in SUBSET Alert, Fetch(src, L) PROVE TypeInv'
  <2>1. [source |-> src, alerts |-> L] \in Fetched BY DEF Fetched
  <2>2. tail' \in Seq(Fetched) /\ Len(tail') = Len(tail) + 1 /\ Len(tail) \in Nat
    BY <2>1, <1>5, AppendProperties DEF Fetch, TypeInv, TypeOK
  <2>3. tail' # <<>> BY <2>2
  <2>. QED BY <2>2, <2>3, <1>5 DEF Fetch, TypeInv, TypeOK
<1>6. ASSUME NEW A \in SUBSET Alert, NEW B \in SUBSET Alert, NEW C \in SUBSET Alert, NEW D \in SUBSET Alert,
             Seeds(A, B, C, D), rare' \in 0..MaxRare
      PROVE  TypeInv'
  <2>1. SeedDelivered(C) \in [Key -> Entry \cup {Never}] /\ SeedDelivered(D) \in [Key -> Entry \cup {Never}]
    BY SeedTypes DEF TypeInv
  <2>. QED BY <2>1, <1>6 DEF Seeds, TypeInv, TypeOK, Flying
<1>7. ASSUME NEW L \in SUBSET Alert, Start(L) PROVE TypeInv'
  BY <1>6, <1>7 DEF Start, TypeInv, TypeOK
<1>8. ASSUME NEW L \in SUBSET Alert, StartUnwritable(L) PROVE TypeInv'
  <2>1. PICK A \in SUBSET L, B \in SUBSET L, C \in SUBSET L, D \in SUBSET L : Seeds(A, B, C, D)
    BY <1>8 DEF StartUnwritable
  <2>. QED BY <2>1, <1>0, <1>6, <1>8 DEF StartUnwritable
<1>. QED BY <1>1, <1>2, <1>3, <1>4, <1>5, <1>7, <1>8 DEF PollerStep

LEMMA WorldStepKeepsTypes ==
  ASSUME TypeInv, WorldStep
  PROVE  TypeInv'
<1>. USE DEF store, outbox
<1>1. CASE Work
  BY <1>1, WorkedRows DEF Work, TypeInv, TypeOK, Flying
<1>2. CASE Tick
  BY <1>2, PipelineAssumption DEF Tick, Passes, TypeInv, TypeOK, Flying
<1>. QED BY <1>1, <1>2 DEF WorldStep

LEMMA TypeStep == TypeInv /\ [Next]_vars => TypeInv'
<1>1. ASSUME TypeInv, UNCHANGED vars PROVE TypeInv'
  BY <1>1 DEF vars, store, outbox, TypeInv, TypeOK, Flying
<1>. QED BY <1>1, SlotStepKeepsTypes, PollerStepKeepsTypes, WorldStepKeepsTypes DEF Next

\* Every variable of the pipeline keeps its type.
THEOREM PipelineTypes == Spec => []TypeOK
<1>1. Init => TypeInv BY TypeInit
<1>2. TypeInv => TypeOK BY DEF TypeInv
<1>. QED BY <1>1, <1>2, TypeStep, PTL DEF Spec

-----------------------------------------------------------------------------
(* Nothing is dropped *)

ToldStays ==
  \A k \in Key, c \in Chat, t \in Int : t <= now /\ Told(k, c, t) => Told(k, c, t)'

\* A message that is open or was told stays so through an insertion or a settlement.
LEMMA RowsStayTold ==
  ASSUME TypeOK, TypeOK',
         \/ rows' = rows
         \/ \E a \in Alert : Insert(a)
         \/ Work
  PROVE  ToldStays
<1>. SUFFICES ASSUME NEW k \in Key, NEW c \in Chat, NEW t \in Int, t <= now, Told(k, c, t)
              PROVE  Told(k, c, t)'
  BY DEF ToldStays
<1>. DEFINE p == <<k, c>>
<1>0. p \in Key \X Chat /\ p[1] = k /\ p[2] = c OBVIOUS
<1>. HIDE DEF p
<1>1. CASE rows'[p] = rows[p]
  BY <1>1 DEF Told, p
<1>2. ASSUME NEW a \in Alert, Insert(a), rows'[p] # rows[p] PROVE Told(k, c, t)'
  <2>1. rows'[p].status = "open" BY <1>0, <1>2, InsertedRow
  <2>. QED BY <2>1 DEF Told, p
<1>3. ASSUME Work, rows'[p] # rows[p] PROVE Told(k, c, t)'
  <2>1. rows'[p].status = "open" \/ (rows'[p].status = "done" /\ rows'[p].at = now)
    BY <1>0, <1>3, WorkedRows DEF Work
  <2>2. now + Window > t BY PipelineAssumption DEF TypeOK
  <2>. QED BY <2>1, <2>2 DEF Told, p
<1>. QED BY <1>1, <1>2, <1>3

\* After an insertion every chat is told: it got a row, or had one that is fresh or open.
LEMMA InsertTells ==
  ASSUME TypeOK, NEW a \in Alert, Insert(a), EventAt[a] <= now, NEW c \in Chat
  PROVE  Told(KeyOf[a], c, EventAt[a])'
<1>. DEFINE p == <<KeyOf[a], c>>
<1>0. /\ KeyOf[a] \in Key /\ EventAt[a] \in Nat /\ now \in Nat /\ Window \in Nat
      /\ p \in Key \X Chat /\ p[1] = KeyOf[a] /\ rows[p] \in Table!Row
  BY PipelineAssumption DEF TypeOK
<1>. HIDE DEF p
<1>1. CASE Table!Free(p)
  <2>1. rows'[p].status = "open" BY <1>0, <1>1, InsertedRow
  <2>. QED BY <2>1 DEF Told, p
<1>2. CASE ~Table!Free(p)
  <2>1. rows'[p] = rows[p] BY <1>0, <1>2, InsertedRow
  <2>2. \/ rows[p].status = "open"
        \/ rows[p].status = "done" /\ rows[p].at + Window > EventAt[a]
    BY <1>0, <1>2 DEF Table!Free, Table!Row
  <2>. QED BY <2>1, <2>2 DEF Told, p
<1>. QED BY <1>1, <1>2

\* What the stores may become in a step: an entry stays, is forgotten or seeded, or is
\* that of an alert about to be remembered.
Remembers(s, k) ==
  At(s, "enqueued") /\ k = KeyOf[flight[s].alert]
EntryMoves(k, old, file, new) ==
  \/ new \in {old, file, Never}
  \/ new.seeded /\ new.event \in Nat /\ new.event <= now
  \/ \E s \in Slot : Remembers(s, k) /\ new = [event |-> EventAt[flight[s].alert], seeded |-> FALSE]

LEMMA DeliveredStays ==
  ASSUME TypeInv, ToldInv, ToldStays, now' \in Int, now' >= now,
         \A k \in Key : /\ EntryMoves(k, delivered[k], deliveredFile[k], delivered'[k])
                        /\ EntryMoves(k, delivered[k], deliveredFile[k], deliveredFile'[k])
  PROVE  /\ RememberedIsTold'
         /\ \A k \in Key : delivered'[k].event <= now' /\ deliveredFile'[k].event <= now'
<1>. SUFFICES ASSUME NEW k \in Key, NEW e \in {delivered'[k], deliveredFile'[k]}
              PROVE  /\ e.event <= now'
                     /\ e # Never /\ ~e.seeded => \A c \in Chat : Told(k, c, e.event)'
  BY DEF RememberedIsTold
<1>0. now \in Nat /\ now' >= now BY DEF TypeInv, TypeOK
<1>1. CASE e = Never
  BY <1>0, <1>1 DEF Never
<1>2. CASE e \in {delivered[k], deliveredFile[k]} /\ e # Never
  <2>1. e \in Entry /\ e.event <= now
    BY <1>2 DEF TypeInv, TypeOK, ToldInv, NothingFromTheFuture
  <2>2. e.event \in Int /\ e.event <= now'
    BY <2>1, <1>0 DEF Entry
  <2>3. ASSUME NEW c \in Chat, ~e.seeded PROVE Told(k, c, e.event)
    BY <2>3, <1>2 DEF ToldInv, RememberedIsTold
  <2>. QED BY <2>1, <2>2, <2>3 DEF ToldStays
<1>3. CASE e.seeded /\ e.event \in Nat /\ e.event <= now
  BY <1>0, <1>3
<1>4. ASSUME NEW s \in Slot, Remembers(s, k), e = [event |-> EventAt[flight[s].alert], seeded |-> FALSE]
      PROVE  e.event <= now' /\ \A c \in Chat : Told(k, c, e.event)'
  <2>1. e.event \in Nat /\ e.event <= now
    BY <1>4, SlotTypes DEF Remembers, At, TypeInv, ToldInv, NothingFromTheFuture
  <2>2. \A c \in Chat : Told(k, c, e.event)
    BY <1>4 DEF Remembers, ToldInv, IngestIsTold
  <2>. QED BY <1>0, <2>1, <2>2 DEF ToldStays
<1>5. EntryMoves(k, delivered[k], deliveredFile[k], e) OBVIOUS
<1>. QED BY <1>1, <1>2, <1>3, <1>4, <1>5 DEF EntryMoves

\* An alert that becomes seen is one about to be remembered, or excused.
Recalls(s, a) == (At(s, "enqueued") \/ At(s, "skipped")) /\ a = flight[s].alert

LEMMA SeenStays ==
  ASSUME TypeInv, ToldInv, ToldStays, now' \in Int, now' >= now, excused \subseteq excused',
         \A a \in seen' \cup seenFile' :
           \/ a \in seen \cup seenFile
           \/ a \in excused' /\ a \in Alert /\ EventAt[a] <= now
           \/ \E s \in Slot : Recalls(s, a)
  PROVE  NeverDropped' /\ \A a \in seen' \cup seenFile' : EventAt[a] <= now'
<1>. SUFFICES ASSUME NEW a \in seen' \cup seenFile'
              PROVE  /\ EventAt[a] <= now'
                     /\ a \notin excused' => \A c \in Chat : Told(KeyOf[a], c, EventAt[a])'
  BY DEF NeverDropped
<1>0. now \in Nat /\ now' >= now BY DEF TypeInv, TypeOK
<1>1. CASE a \in seen \cup seenFile
  <2>1. a \in Alert /\ EventAt[a] \in Nat /\ KeyOf[a] \in Key /\ EventAt[a] <= now
    BY <1>1, PipelineAssumption DEF TypeInv, TypeOK, ToldInv, NothingFromTheFuture
  <2>2. a \notin excused' => \A c \in Chat : Told(KeyOf[a], c, EventAt[a])
    BY <1>1 DEF ToldInv, NeverDropped
  <2>. QED BY <1>0, <2>1, <2>2 DEF ToldStays
<1>2. CASE a \in excused' /\ a \in Alert /\ EventAt[a] <= now
  <2>1. EventAt[a] \in Nat BY <1>2, PipelineAssumption
  <2>. QED BY <1>0, <1>2, <2>1
<1>3. ASSUME NEW s \in Slot, Recalls(s, a)
      PROVE  /\ EventAt[a] <= now'
             /\ a \notin excused' => \A c \in Chat : Told(KeyOf[a], c, EventAt[a])'
  <2>1. a \in Alert /\ EventAt[a] \in Nat /\ KeyOf[a] \in Key /\ EventAt[a] <= now
    BY <1>3, SlotTypes DEF Recalls, At, TypeInv, ToldInv, NothingFromTheFuture
  <2>2. a \notin excused' => \A c \in Chat : Told(KeyOf[a], c, EventAt[a])
    BY <1>3 DEF Recalls, ToldInv, IngestIsTold
  <2>. QED BY <1>0, <2>1, <2>2 DEF ToldStays
<1>. QED BY <1>1, <1>2, <1>3

\* A slot that stays, empties, or takes or moves on an alert for which it is right.
TellsWhatItHolds(s) ==
  Flying(s) => /\ EventAt[flight[s].alert] <= now
               /\ \A c \in Chat : (At(s, "enqueued") \/ (At(s, "skipped") /\ flight[s].alert \notin excused)) =>
                    Told(KeyOf[flight[s].alert], c, EventAt[flight[s].alert])

LEMMA FlightStays ==
  ASSUME TypeInv, ToldInv, ToldStays, now' \in Int, now' >= now, excused \subseteq excused',
         \A s \in Slot : flight'[s] = flight[s] \/ TellsWhatItHolds(s)'
  PROVE  IngestIsTold' /\ \A s \in Slot : Flying(s)' => EventAt[flight'[s].alert] <= now'
<1>. SUFFICES \A s \in Slot : TellsWhatItHolds(s)'
  BY DEF IngestIsTold, TellsWhatItHolds, At
<1>. SUFFICES ASSUME NEW s \in Slot PROVE TellsWhatItHolds(s)'
  OBVIOUS
<1>1. CASE flight'[s] = flight[s] /\ Flying(s)
  <2>0. now \in Nat /\ now' >= now BY DEF TypeInv, TypeOK
  <2>1. KeyOf[flight[s].alert] \in Key /\ EventAt[flight[s].alert] \in Nat /\ EventAt[flight[s].alert] <= now
    BY <1>1, SlotTypes DEF TypeInv, ToldInv, NothingFromTheFuture
  <2>2. EventAt[flight[s].alert] <= now' BY <2>0, <2>1
  <2>3. ASSUME NEW c \in Chat, (At(s, "enqueued") \/ (At(s, "skipped") /\ flight[s].alert \notin excused))'
        PROVE  Told(KeyOf[flight[s].alert], c, EventAt[flight[s].alert])'
    <3>1. At(s, "enqueued") \/ (At(s, "skipped") /\ flight[s].alert \notin excused)
      BY <1>1, <2>3 DEF At, Flying
    <3>2. Told(KeyOf[flight[s].alert], c, EventAt[flight[s].alert])
      BY <3>1 DEF ToldInv, IngestIsTold
    <3>3. flight'[s].alert = flight[s].alert BY <1>1
    <3>. QED BY <3>2, <3>3, <2>1 DEF ToldStays, Told
  <2>. QED BY <1>1, <2>2, <2>3 DEF TellsWhatItHolds
<1>2. CASE flight'[s] = flight[s] /\ ~Flying(s)
  BY <1>2 DEF TellsWhatItHolds, Flying
<1>. QED BY <1>1, <1>2

\* What a step may do to the four places where alerts are kept.
StoresMove ==
  \A k \in Key : /\ EntryMoves(k, delivered[k], deliveredFile[k], delivered'[k])
                 /\ EntryMoves(k, delivered[k], deliveredFile[k], deliveredFile'[k])
SeenMoves ==
  \A a \in seen' \cup seenFile' :
    \/ a \in seen \cup seenFile
    \/ a \in excused' /\ a \in Alert /\ EventAt[a] <= now
    \/ \E s \in Slot : Recalls(s, a)
FlightMoves ==
  \A s \in Slot : flight'[s] = flight[s] \/ TellsWhatItHolds(s)'
TailMoves ==
  \A i \in DOMAIN tail' : \A a \in tail'[i].alerts :
    EventAt[a] <= now \/ \E j \in DOMAIN tail : a \in tail[j].alerts

LEMMA MovesKeepTold ==
  ASSUME TypeInv, TypeInv', ToldInv, ToldStays, now' >= now, excused \subseteq excused',
         StoresMove, SeenMoves, FlightMoves, TailMoves
  PROVE  ToldInv'
<1>0. now \in Int /\ now' \in Int /\ now' >= now BY DEF TypeInv, TypeOK
<1>1. /\ RememberedIsTold'
      /\ \A k \in Key : delivered'[k].event <= now' /\ deliveredFile'[k].event <= now'
  BY <1>0, DeliveredStays DEF StoresMove
<1>2. NeverDropped' /\ \A a \in seen' \cup seenFile' : EventAt[a] <= now'
  BY <1>0, SeenStays DEF SeenMoves
<1>3. IngestIsTold' /\ \A s \in Slot : Flying(s)' => EventAt[flight'[s].alert] <= now'
  BY <1>0, FlightStays DEF FlightMoves
<1>4. ASSUME NEW i \in DOMAIN tail', NEW a \in tail'[i].alerts
      PROVE  EventAt[a] <= now'
  <2>0. tail' \in Seq(Fetched) BY DEF TypeInv, TypeOK
  <2>1. a \in Alert
    <3>1. tail'[i] \in Fetched BY <2>0
    <3>. QED BY <3>1 DEF Fetched
  <2>2. EventAt[a] \in Nat BY <2>1, PipelineAssumption
  <2>3. EventAt[a] <= now BY DEF TailMoves, ToldInv, NothingFromTheFuture
  <2>. QED BY <1>0, <2>2, <2>3
<1>5. NothingFromTheFuture'
  BY <1>1, <1>2, <1>3, <1>4 DEF NothingFromTheFuture
<1>. QED BY <1>1, <1>2, <1>3, <1>5 DEF ToldInv

LEMMA SameTail == ASSUME tail' = tail PROVE TailMoves
BY DEF TailMoves

LEMMA AbortTail ==
  ASSUME TypeInv, NEW s \in Slot, Flying(s), Abort(s)
  PROVE  TailMoves
<1>1. CASE tail' = tail BY <1>1, SameTail
<1>2. CASE s = Poll /\ tail' = Tail(tail)
  <2>1. tail \in Seq(Fetched) /\ tail # <<>> BY <1>2 DEF TypeInv, TypeOK
  <2>2. ASSUME NEW i \in DOMAIN tail' PROVE i + 1 \in DOMAIN tail /\ tail'[i] = tail[i + 1]
    BY <1>2, <2>1
  <2>. QED BY <2>2 DEF TailMoves
<1>. QED BY <1>1, <1>2 DEF Abort

LEMMA SameStores ==
  ASSUME UNCHANGED store
  PROVE  StoresMove /\ SeenMoves
BY DEF store, StoresMove, SeenMoves, EntryMoves

LEMMA SameRows ==
  ASSUME TypeOK, TypeOK', UNCHANGED rows
  PROVE  ToldStays
BY RowsStayTold

LEMMA SlotLeaves ==
  ASSUME TypeInv, NEW s \in Slot, Leaves(s)
  PROVE  FlightMoves
BY DEF Leaves, FlightMoves, TellsWhatItHolds, Flying, TypeInv, TypeOK

LEMMA RememberedMoves ==
  ASSUME TypeInv, NEW s \in Slot, At(s, "enqueued"), NEW k \in Key
  PROVE  /\ EntryMoves(k, delivered[k], deliveredFile[k], DeliveredBy(delivered, flight[s].alert, FALSE)[k])
         /\ EntryMoves(k, delivered[k], deliveredFile[k], deliveredFile[k])
         /\ EntryMoves(k, delivered[k], deliveredFile[k], delivered[k])
         /\ EntryMoves(k, delivered[k], deliveredFile[k], Never)
<1>1. KeyOf[flight[s].alert] = k =>
        /\ Remembers(s, k)
        /\ DeliveredBy(delivered, flight[s].alert, FALSE)[k] = [event |-> EventAt[flight[s].alert], seeded |-> FALSE]
  BY DEF TypeInv, TypeOK, DeliveredBy, Remembers
<1>2. KeyOf[flight[s].alert] # k => DeliveredBy(delivered, flight[s].alert, FALSE)[k] = delivered[k]
  BY DEF TypeInv, TypeOK, DeliveredBy
<1>. QED BY <1>1, <1>2 DEF EntryMoves

LEMMA EnterKeepsTold ==
  ASSUME TypeInv, TypeInv', ToldInv, NEW s \in Slot, NEW a \in Alert, Enter(s, a),
         EventAt[a] <= now, TailMoves
  PROVE  ToldInv'
<1>. USE DEF store, outbox
<1>0. now \in Int /\ TypeOK /\ TypeOK' BY DEF TypeInv, TypeOK
<1>1. \A r \in Slot \ {s} : flight'[r] = flight[r]
  BY DEF Enter, TypeInv, TypeOK
<1>2. flight'[s] = [alert |-> a, stage |-> FirstStage(a), since |-> now]
  BY DEF Enter, TypeInv, TypeOK
<1>3. FirstStage(a) # "enqueued" /\ (FirstStage(a) = "skipped" => a \in excused')
  BY DEF Enter, FirstStage
<1>4. TellsWhatItHolds(s)'
  BY <1>2, <1>3 DEF TellsWhatItHolds, At, Enter
<1>5. FlightMoves BY <1>1, <1>4 DEF FlightMoves
<1>6. excused \subseteq excused' BY DEF Enter
<1>. QED BY <1>0, <1>5, <1>6, SameRows, SameStores, MovesKeepTold DEF Enter

LEMMA DeathKeepsTold ==
  ASSUME TypeInv, TypeInv', ToldInv, NEW files, NEW keys, Dies(files, keys), files \subseteq seenFile,
         \A k \in Key : EntryMoves(k, delivered[k], deliveredFile[k], keys[k])
  PROVE  ToldInv'
<1>. USE DEF store, outbox
<1>0. now \in Int /\ TypeOK /\ TypeOK' BY DEF TypeInv, TypeOK
<1>1. StoresMove /\ SeenMoves BY DEF Dies, Loads, StoresMove, SeenMoves
<1>2. FlightMoves BY DEF Dies, FlightMoves, TellsWhatItHolds, Flying
<1>3. TailMoves BY DEF Dies, TailMoves
<1>. QED BY <1>0, <1>1, <1>2, <1>3, SameRows, MovesKeepTold DEF Dies

LEMMA SlotStepKeepsTold ==
  ASSUME TypeInv, TypeInv', ToldInv, NEW s \in Slot, SlotStep(s)
  PROVE  ToldInv'
<1>. USE DEF store, outbox
<1>0. now \in Int /\ TypeOK /\ TypeOK' BY DEF TypeInv, TypeOK
<1>1. ASSUME NEW a \in Alert, IngestPushed(s, a) PROVE ToldInv'
  <2>1. Enter(s, a) /\ tail' = tail /\ EventAt[a] <= now
    BY <1>1 DEF IngestPushed
  <2>. QED BY <2>1, EnterKeepsTold, SameTail
<1>2. CASE Enqueue(s)
  <2>1. /\ Flying(s) /\ flight[s].alert \in Alert /\ flight[s].stage = "enqueueing"
        /\ EventAt[flight[s].alert] <= now
    BY <1>2, SlotTypes, EnqueueInserts DEF At, TypeInv, ToldInv, NothingFromTheFuture
  <2>a. PICK a \in Alert : a = flight[s].alert BY <2>1
  <2>b. Insert(a) BY <1>2, <2>a, EnqueueInserts
  <2>2. ToldStays /\ \A c \in Chat : Told(KeyOf[a], c, EventAt[a])'
    BY <1>0, <2>1, <2>a, <2>b, RowsStayTold, InsertTells
  <2>3. /\ flight'[s].alert = a
        /\ \A r \in Slot \ {s} : flight'[r] = flight[r]
    <3>1. \E g : flight' = [flight EXCEPT ![s].stage = g] BY <1>2, EnqueueInserts DEF GoesTo
    <3>. QED BY <2>1, <2>a, <3>1, SlotTypes DEF TypeInv, TypeOK, Ingest
  <2>4. TellsWhatItHolds(s)'
    <3>1. EventAt[a] <= now' BY <1>2, <2>1, <2>a, EnqueueInserts
    <3>. QED BY <2>2, <2>3, <3>1 DEF TellsWhatItHolds, Told
  <2>5. FlightMoves BY <2>3, <2>4 DEF FlightMoves
  <2>6. UNCHANGED <<now, up, enabled, tail, store, excused, rare>> BY <1>2, EnqueueInserts
  <2>. QED BY <1>0, <2>2, <2>5, <2>6, SameStores, SameTail, MovesKeepTold
<1>3. CASE EnqueueRefused(s)
  <2>1. Flying(s) BY <1>3 DEF EnqueueRefused, At
  <2>. QED BY <1>0, <1>3, <2>1, SameRows, SameStores, SlotLeaves, AbortTail, MovesKeepTold
           DEF EnqueueRefused, Abort
<1>4. CASE EnqueueLost(s)
  <2>1. Flying(s) /\ flight[s].alert \in Alert BY <1>4, SlotTypes, LostInserts DEF At, TypeInv
  <2>2. ToldStays BY <1>0, <1>4, <2>1, RowsStayTold, LostInserts
  <2>. QED BY <1>0, <1>4, <2>1, <2>2, SameStores, SlotLeaves, AbortTail, MovesKeepTold, LostInserts
           DEF Abort
<1>5. CASE RecordDuplicate(s)
  <2>1. \A r \in Slot : flight'[r] = flight[r] \/ (Flying(r) /\ flight'[r] = [flight[r] EXCEPT !.stage = "passed"])
    BY <1>5 DEF RecordDuplicate, At, GoesTo, TypeInv, TypeOK
  <2>2. ASSUME NEW r \in Slot, Flying(r), flight'[r] = [flight[r] EXCEPT !.stage = "passed"]
        PROVE  TellsWhatItHolds(r)'
    <3>1. flight'[r].stage = "passed" /\ flight'[r].alert = flight[r].alert /\ EventAt[flight[r].alert] <= now
      BY <2>2, SlotTypes DEF Ingest, TypeInv, ToldInv, NothingFromTheFuture
    <3>. QED BY <3>1, <1>5 DEF TellsWhatItHolds, At, RecordDuplicate
  <2>3. FlightMoves BY <2>1, <2>2 DEF FlightMoves
  <2>. QED BY <1>0, <1>5, <2>3, SameRows, SameStores, SameTail, MovesKeepTold DEF RecordDuplicate
<1>6. CASE RecordFails(s)
  <2>1. Flying(s) BY <1>6 DEF RecordFails, At
  <2>. QED BY <1>0, <1>6, <2>1, SameRows, SameStores, SlotLeaves, AbortTail, MovesKeepTold
           DEF RecordFails, Abort
<1>7. CASE Pass(s)
  BY <1>0, <1>7, SameRows, SameStores, SlotLeaves, SameTail, MovesKeepTold DEF Pass
<1>8. CASE Remember(s)
  <2>1. StoresMove
    <3>1. CASE At(s, "enqueued")
      BY <1>8, <3>1, RememberedMoves DEF Remember, RememberDelivered, StoresMove
    <3>2. CASE ~At(s, "enqueued")
      BY <1>8, <3>2 DEF Remember, StoresMove, EntryMoves
    <3>. QED BY <3>1, <3>2
  <2>2. SeenMoves
    BY <1>8 DEF Remember, RememberSeen, SeenMoves, Recalls
  <2>. QED BY <1>0, <1>8, <2>1, <2>2, SameRows, SlotLeaves, SameTail, MovesKeepTold DEF Remember
<1>9. CASE RememberFails(s)
  <2>1. StoresMove
    <3>1. CASE At(s, "enqueued")
      BY <1>9, <3>1, RememberedMoves DEF RememberFails, RememberDelivered, StoresMove
    <3>2. CASE ~At(s, "enqueued")
      BY <1>9, <3>2 DEF RememberFails, StoresMove, EntryMoves
    <3>. QED BY <3>1, <3>2
  <2>2. SeenMoves
    BY <1>9 DEF RememberFails, SeenMoves, Recalls
  <2>3. Flying(s) BY <1>9 DEF RememberFails, At
  <2>. QED BY <1>0, <1>9, <2>1, <2>2, <2>3, SameRows, SlotLeaves, AbortTail, MovesKeepTold
           DEF RememberFails, Abort
<1>10. CASE CrashInWrite(s)
  <2>1. ASSUME NEW files, NEW keys, Dies(files, keys), files \subseteq seenFile,
               \A k \in Key : EntryMoves(k, delivered[k], deliveredFile[k], keys[k])
        PROVE  ToldInv'
    BY <1>0, <2>1, DeathKeepsTold
  <2>2. CASE At(s, "enqueued") /\ Dies(seenFile, [k \in Key |-> Never])
    <3>1. \A k \in Key : EntryMoves(k, delivered[k], deliveredFile[k], [j \in Key |-> Never][k])
      BY DEF EntryMoves
    <3>. QED BY <2>1, <2>2, <3>1
  <2>3. CASE At(s, "enqueued") /\ Dies({}, DeliveredBy(delivered, flight[s].alert, FALSE))
    <3>. DEFINE keys == DeliveredBy(delivered, flight[s].alert, FALSE)
    <3>1. \A k \in Key : EntryMoves(k, delivered[k], deliveredFile[k], keys[k])
      BY <2>3, RememberedMoves
    <3>2. Dies({}, keys) BY <2>3
    <3>. HIDE DEF keys
    <3>. QED BY <2>1, <3>1, <3>2
  <2>4. CASE At(s, "skipped") /\ Dies({}, deliveredFile)
    BY <2>1, <2>4 DEF EntryMoves
  <2>. QED BY <1>10, <2>2, <2>3, <2>4 DEF CrashInWrite
<1>. QED BY <1>1, <1>2, <1>3, <1>4, <1>5, <1>6, <1>7, <1>8, <1>9, <1>10 DEF SlotStep, IngestStep

LEMMA PollerStepKeepsTold ==
  ASSUME TypeInv, TypeInv', ToldInv, PollerStep
  PROVE  ToldInv'
<1>. USE DEF store, outbox
<1>0. now \in Int /\ TypeOK /\ TypeOK' BY DEF TypeInv, TypeOK
<1>00. flight' = flight => FlightMoves BY DEF FlightMoves
<1>1. CASE IngestPolled
  <2>1. tail \in Seq(Fetched) /\ tail # <<>> /\ Head(tail) \in Fetched /\ Head(tail) = tail[1]
    BY <1>1 DEF IngestPolled, TypeInv, TypeOK
  <2>2. PICK a \in Head(tail).alerts : Enter(Poll, a) /\ tail' = [tail EXCEPT ![1].alerts = @ \ {a}]
    BY <1>1 DEF IngestPolled
  <2>3. a \in Alert /\ EventAt[a] <= now
    BY <2>1, <2>2 DEF Fetched, ToldInv, NothingFromTheFuture
  <2>4. TailMoves
    <3>1. ASSUME NEW i \in DOMAIN tail' PROVE i \in DOMAIN tail /\ tail'[i].alerts \subseteq tail[i].alerts
      <4>1. i \in DOMAIN tail /\ tail[i] \in Fetched BY <2>1, <2>2
      <4>2. tail'[i] = IF i = 1 THEN [tail[1] EXCEPT !.alerts = @ \ {a}] ELSE tail[i]
        BY <2>1, <2>2, <4>1
      <4>. QED BY <4>1, <4>2 DEF Fetched
    <3>. QED BY <3>1 DEF TailMoves
  <2>. QED BY <2>2, <2>3, <2>4, EnterKeepsTold DEF Slot
<1>2. CASE PollEnds
  <2>1. tail \in Seq(Fetched) /\ tail # <<>> BY <1>2 DEF PollEnds, TypeInv, TypeOK
  <2>2. ASSUME NEW i \in DOMAIN tail' PROVE i + 1 \in DOMAIN tail /\ tail'[i] = tail[i + 1]
    BY <1>2, <2>1 DEF PollEnds
  <2>3. TailMoves BY <2>2 DEF TailMoves
  <2>. QED BY <1>0, <1>00, <1>2, <2>3, SameRows, SameStores, MovesKeepTold DEF PollEnds
<1>3. CASE SetDelivery
  BY <1>0, <1>00, <1>3, SameRows, SameStores, SameTail, MovesKeepTold DEF SetDelivery
<1>4. CASE Crash
  BY <1>0, <1>4, DeathKeepsTold DEF Crash, EntryMoves
<1>5. ASSUME NEW src \in Polled, NEW L \in SUBSET Alert, Fetch(src, L) PROVE ToldInv'
  <2>1. tail \in Seq(Fetched) /\ [source |-> src, alerts |-> L] \in Fetched
    BY DEF Fetched, TypeInv, TypeOK
  <2>2. ASSUME NEW i \in DOMAIN tail', NEW a \in tail'[i].alerts
        PROVE  EventAt[a] <= now \/ \E j \in DOMAIN tail : a \in tail[j].alerts
    <3>1. CASE i \in DOMAIN tail BY <1>5, <2>1, <2>2, <3>1, AppendProperties DEF Fetch
    <3>2. CASE i = Len(tail) + 1
      <4>1. a \in L BY <1>5, <2>1, <2>2, <3>2, AppendProperties DEF Fetch
      <4>. QED BY <4>1, <1>5 DEF Fetch, Listings
    <3>. QED BY <1>5, <2>1, <3>1, <3>2, AppendProperties DEF Fetch
  <2>3. TailMoves BY <2>2 DEF TailMoves
  <2>. QED BY <1>0, <1>00, <1>5, <2>3, SameRows, SameStores, MovesKeepTold DEF Fetch
<1>6. ASSUME NEW M \in SUBSET Alert, \A a \in M : EventAt[a] <= now,
             NEW A \in SUBSET M, NEW B \in SUBSET A, NEW C \in SUBSET M, NEW D \in SUBSET M, Seeds(A, B, C, D)
      PROVE  ToldInv'
  <2>1. ASSUME NEW L \in SUBSET M, NEW k \in Key
        PROVE  EntryMoves(k, delivered[k], deliveredFile[k], SeedDelivered(L)[k])
    <3>1. CASE Youngest(L, k) = {}
      BY <3>1 DEF SeedDelivered, EntryMoves
    <3>2. CASE Youngest(L, k) # {}
      <4>1. PICK a \in L : SeedDelivered(L)[k] = [event |-> EventAt[a], seeded |-> TRUE]
        BY <3>2 DEF SeedDelivered, Youngest
      <4>2. EventAt[a] \in Nat /\ EventAt[a] <= now
        BY <1>6, PipelineAssumption
      <4>. QED BY <4>1, <4>2 DEF EntryMoves
    <3>. QED BY <3>1, <3>2
  <2>2. StoresMove BY <1>6, <2>1 DEF Seeds, StoresMove
  <2>3. SeenMoves BY <1>6 DEF Seeds, SeenMoves
  <2>. QED BY <1>0, <1>00, <1>6, <2>2, <2>3, SameRows, SameTail, MovesKeepTold DEF Seeds
<1>7. ASSUME NEW L \in SUBSET Alert, Start(L) PROVE ToldInv'
  BY <1>6, <1>7 DEF Start, Listings
<1>8. ASSUME NEW L \in SUBSET Alert, StartUnwritable(L) PROVE ToldInv'
  <2>1. PICK A \in SUBSET L, B \in SUBSET L, C \in SUBSET L, D \in SUBSET L : Seeds(A, B, C, D) /\ B \subseteq A
    BY <1>8 DEF StartUnwritable
  <2>2. \A b \in L : EventAt[b] <= now BY <1>8 DEF StartUnwritable, Listings
  <2>. QED BY <2>1, <2>2, <1>6
<1>. QED BY <1>1, <1>2, <1>3, <1>4, <1>5, <1>7, <1>8 DEF PollerStep

LEMMA WorldStepKeepsTold ==
  ASSUME TypeInv, TypeInv', ToldInv, WorldStep
  PROVE  ToldInv'
<1>. USE DEF store, outbox
<1>0. now \in Int /\ TypeOK /\ TypeOK' BY DEF TypeInv, TypeOK
<1>00. flight' = flight => FlightMoves BY DEF FlightMoves
<1>1. CASE Work
  <2>1. ToldStays BY <1>0, <1>1, RowsStayTold
  <2>. QED BY <1>0, <1>00, <1>1, <2>1, SameStores, SameTail, MovesKeepTold DEF Work
<1>2. CASE Tick
  BY <1>0, <1>00, <1>2, SameRows, SameStores, SameTail, MovesKeepTold DEF Tick, Passes
<1>. QED BY <1>1, <1>2 DEF WorldStep

LEMMA ToldInit == ASSUME Init PROVE ToldInv
<1>1. \A k \in Key : delivered[k] = Never /\ deliveredFile[k] = Never BY DEF Init
<1>2. NothingFromTheFuture BY <1>1 DEF Init, NothingFromTheFuture, Never, Flying
<1>3. IngestIsTold BY DEF Init, IngestIsTold, At, Flying
<1>4. NeverDropped BY DEF Init, NeverDropped
<1>5. RememberedIsTold BY <1>1 DEF RememberedIsTold
<1>. QED BY <1>2, <1>3, <1>4, <1>5 DEF ToldInv

LEMMA ToldStep == TypeInv /\ TypeInv' /\ ToldInv /\ [Next]_vars => ToldInv'
<1>1. ASSUME TypeInv, TypeInv', ToldInv, UNCHANGED vars PROVE ToldInv'
  <2>1. FlightMoves BY <1>1 DEF FlightMoves, vars
  <2>. QED BY <1>1, <2>1, SameRows, SameStores, SameTail, MovesKeepTold
           DEF vars, store, outbox, TypeInv, TypeOK
<1>. QED BY <1>1, SlotStepKeepsTold, PollerStepKeepsTold, WorldStepKeepsTold DEF Next

LEMMA ToldAlways == Spec => [](TypeInv /\ ToldInv)
<1>1. Init => TypeInv /\ ToldInv BY TypeInit, ToldInit
<1>. QED BY <1>1, TypeStep, ToldStep, PTL DEF Spec

\* No fault and no interleaving makes the pipeline give up an alert (remember it as seen)
\* for which no chat has, or had in its window, a message; but for muted and seeded ones.
THEOREM PipelineNeverDrops == Spec => []NeverDropped
<1>1. ToldInv => NeverDropped BY DEF ToldInv
<1>. QED BY <1>1, ToldAlways, PTL

\* A delivered key, in memory or in its file, stands for a message that every chat has or
\* had: what it suppresses for a window was told.
THEOREM PipelineRemembersWhatWasTold == Spec => []RememberedIsTold
<1>1. ToldInv => RememberedIsTold BY DEF ToldInv
<1>. QED BY <1>1, ToldAlways, PTL

-----------------------------------------------------------------------------
(* No event is enqueued twice *)

\* Ingests shorter than half the window, and a memory that is never lost.
Careful ==
  /\ 2 * MaxFlight < Window
  /\ RareKinds \subseteq {"refused", "mute"}

OneChat == \A c, d \in Chat : c = d

\* What LetThroughIsLater says of one slot.
IsLater(s) ==
  \A a \in Alert, c \in Chat :
    Notified(a, c) /\ KeyOf[a] = KeyOf[flight[s].alert] =>
      \/ Later(flight[s].alert, a)
      \/ TakenSince(KeyOf[a], c, flight[s].since - MaxFlight)

\* A row taken since some time stays so.
RowsKeep ==
  \A k \in Key, c \in Chat, t \in Int : t <= now /\ TakenSince(k, c, t) => TakenSince(k, c, t)'

LEMMA SameRowsKeep == ASSUME rows' = rows PROVE RowsKeep
  BY DEF RowsKeep, TakenSince

LEMMA WorkKeepsRows ==
  ASSUME TypeOK, Work
  PROVE  RowsKeep
<1>. SUFFICES ASSUME NEW k \in Key, NEW c \in Chat, NEW t \in Int, t <= now, TakenSince(k, c, t)
              PROVE  TakenSince(k, c, t)'
  BY DEF RowsKeep
<1>. DEFINE p == <<k, c>>
<1>1. \/ rows'[p] = rows[p]
      \/ rows'[p].status = "open"
      \/ rows'[p].status = "done" /\ rows'[p].at = now
  BY WorkedRows DEF Work
<1>. QED BY <1>1 DEF TakenSince

\* An ingest under way began before now.
LEMMA SinceTypes ==
  ASSUME TypeOK, FlightIsShort, NEW s \in Slot, Flying(s)
  PROVE  /\ flight[s].since \in Nat /\ flight[s].since - MaxFlight \in Int
         /\ flight[s].since <= now /\ flight[s].since - MaxFlight <= now
         /\ now <= flight[s].since + MaxFlight
<1>1. flight[s].since \in Nat /\ flight[s].since <= now /\ now <= flight[s].since + MaxFlight
  BY SlotTypes DEF Ingest, FlightIsShort
<1>. QED BY <1>1, PipelineAssumption DEF TypeOK

\* In a step that inserts nothing, a slot stays, or comes to a stage of no account, or
\* starts to enqueue what is later than all notified.
SlotMovesOn(s) ==
  \/ flight'[s] = flight[s]
  \/ ~At(s, "enqueueing")' /\ ~At(s, "enqueued")'
  \/ ~At(s, "enqueued")' /\ IsLater(s)'

LEMMA LetThroughFrame ==
  ASSUME TypeOK, FlightIsShort, LetThroughIsLater, copies' = copies, RowsKeep,
         \A s \in Slot : SlotMovesOn(s)
  PROVE  LetThroughIsLater'
<1>1. \A a \in Alert, c \in Chat : Notified(a, c)' <=> Notified(a, c)
  BY DEF Notified
<1>2. SUFFICES ASSUME NEW s \in Slot, At(s, "enqueueing")' PROVE IsLater(s)'
  BY DEF LetThroughIsLater, IsLater
<1>3. CASE flight'[s] = flight[s]
  <2>1. At(s, "enqueueing") /\ Flying(s) BY <1>2, <1>3 DEF At, Flying
  <2>2. flight[s].alert \in Alert BY <2>1, SlotTypes
  <2>3. flight[s].since - MaxFlight \in Int /\ flight[s].since - MaxFlight <= now
    BY <2>1, SinceTypes
  <2>4. ASSUME NEW a \in Alert, NEW c \in Chat, Notified(a, c), KeyOf[a] = KeyOf[flight[s].alert]
        PROVE  \/ Later(flight[s].alert, a)
               \/ TakenSince(KeyOf[a], c, flight[s].since - MaxFlight)'
    <3>1. \/ Later(flight[s].alert, a) \/ TakenSince(KeyOf[a], c, flight[s].since - MaxFlight)
      BY <2>1, <2>4 DEF LetThroughIsLater
    <3>2. KeyOf[a] \in Key
      BY PipelineAssumption
    <3>. QED BY <2>3, <3>1, <3>2, <1>3 DEF TakenSince, RowsKeep
  <2>. QED BY <1>1, <1>3, <2>4 DEF IsLater, Later
<1>4. CASE flight'[s] # flight[s]
  BY <1>2, <1>4 DEF SlotMovesOn
<1>. QED BY <1>3, <1>4

LEMMA OnceFrame ==
  ASSUME TypeOK, OnceInv, copies' = copies, RowsKeep,
         FlightIsShort', NotifiedIsRemembered', NothingBeforeStart',
         \A s \in Slot : SlotMovesOn(s)
  PROVE  OnceInv'
<1>1. \A a \in Alert, c \in Chat : Notified(a, c)' <=> Notified(a, c)
  BY DEF Notified
<1>2. OncePerEvent' BY DEF OnceInv, OncePerEvent, SameEvent
<1>3. LetThroughIsLater' BY LetThroughFrame DEF OnceInv
<1>4. EnqueuedIsLatest'
  <2>1. SUFFICES ASSUME NEW s \in Slot, NEW c \in Chat, At(s, "enqueued")'
                 PROVE  /\ TakenSince(KeyOf[flight[s].alert], c, flight[s].since)'
                        /\ \A a \in Alert : Notified(a, c) /\ KeyOf[a] = KeyOf[flight'[s].alert] =>
                             a = flight'[s].alert \/ Later(flight'[s].alert, a)
    BY <1>1 DEF EnqueuedIsLatest, Later
  <2>2. flight'[s] = flight[s] BY <2>1 DEF SlotMovesOn
  <2>3. At(s, "enqueued") /\ Flying(s) BY <2>1, <2>2 DEF At, Flying
  <2>4. KeyOf[flight[s].alert] \in Key BY <2>3, SlotTypes
  <2>5. TakenSince(KeyOf[flight[s].alert], c, flight[s].since) BY <2>3 DEF OnceInv, EnqueuedIsLatest
  <2>6. flight[s].since \in Int /\ flight[s].since <= now BY <2>3, SinceTypes DEF OnceInv
  <2>7. TakenSince(KeyOf[flight[s].alert], c, flight[s].since)'
    BY <2>2, <2>4, <2>5, <2>6 DEF TakenSince, RowsKeep
  <2>. QED BY <2>2, <2>3, <2>7 DEF OnceInv, EnqueuedIsLatest
<1>. QED BY <1>2, <1>3, <1>4 DEF OnceInv

LEMMA SameRemembered ==
  ASSUME OnceInv, copies' = copies, delivered' = delivered,
         \A s \in Slot : At(s, "enqueued") => flight'[s] = flight[s]
  PROVE  NotifiedIsRemembered'
<1>. SUFFICES ASSUME NEW a \in Alert, NEW c \in Chat, Notified(a, c)
              PROVE  \/ delivered[KeyOf[a]] # Never /\ delivered[KeyOf[a]].event >= EventAt[a]
                     \/ \E s \in Slot : At(s, "enqueued")' /\ flight'[s].alert = a
  BY DEF NotifiedIsRemembered, Notified
<1>1. \A s \in Slot : At(s, "enqueued") => At(s, "enqueued")'
  BY DEF At, Flying
<1>. QED BY <1>1 DEF OnceInv, NotifiedIsRemembered

LEMMA StillShort ==
  ASSUME TypeOK, FlightIsShort, now' = now,
         \A s \in Slot : \/ flight'[s] = flight[s] \/ ~Flying(s)'
                         \/ Flying(s) /\ flight'[s].since = flight[s].since
                         \/ flight'[s].since = now
  PROVE  FlightIsShort'
<1>1. now \in Nat /\ MaxFlight \in Nat BY PipelineAssumption DEF TypeOK
<1>2. \A s \in Slot : Flying(s) => flight[s].since <= now /\ now <= flight[s].since + MaxFlight
  BY DEF FlightIsShort
<1>3. \A s \in Slot : Flying(s) /\ flight'[s] = flight[s] => flight'[s].since = flight[s].since
  OBVIOUS
<1>. SUFFICES ASSUME NEW s \in Slot, Flying(s)'
              PROVE  flight'[s].since <= now /\ now <= flight'[s].since + MaxFlight
  BY DEF FlightIsShort
<1>4. flight'[s] = flight[s] => Flying(s) BY DEF Flying
<1>. QED BY <1>1, <1>2, <1>3, <1>4

\* An ingest that is let through while others are under way.
LEMMA EnterIsLater ==
  ASSUME TypeOK, OnceInv, NEW s \in Slot, NEW a \in Alert, Enter(s, a)
  PROVE  At(s, "enqueueing")' => IsLater(s)'
<1>. SUFFICES ASSUME At(s, "enqueueing")', NEW b \in Alert, NEW c \in Chat, Notified(b, c), KeyOf[b] = KeyOf[a]
              PROVE  Later(a, b) \/ TakenSince(KeyOf[b], c, now - MaxFlight)
  <2>1. flight'[s].alert = a /\ flight'[s].since = now /\ rows' = rows /\ copies' = copies
    BY DEF Enter, TypeOK, outbox
  <2>. QED BY <2>1 DEF IsLater, Notified, Later, TakenSince
<1>1. ~Suppressed(a)
  <2>1. flight'[s].stage = FirstStage(a) BY DEF Enter, TypeOK
  <2>. QED BY <2>1 DEF FirstStage, At
<1>2. KeyOf[a] \in Key /\ EventAt[a] \in Nat /\ EventAt[b] \in Nat /\ Window \in Nat /\ MaxFlight \in Nat /\ now \in Nat
  BY PipelineAssumption DEF TypeOK
<1>3. CASE delivered[KeyOf[b]] # Never /\ delivered[KeyOf[b]].event >= EventAt[b]
  <2>1. delivered[KeyOf[a]] \in Entry BY <1>2, <1>3 DEF TypeOK
  <2>2. delivered[KeyOf[a]].event \in Nat BY <2>1 DEF Entry
  <2>3. ~(EventAt[a] - delivered[KeyOf[a]].event < Window) BY <1>1, <1>3 DEF Suppressed
  <2>. QED BY <1>2, <1>3, <2>2, <2>3 DEF Later
<1>4. ASSUME NEW r \in Slot, At(r, "enqueued"), flight[r].alert = b
      PROVE  TakenSince(KeyOf[b], c, now - MaxFlight)
  <2>1. TakenSince(KeyOf[b], c, flight[r].since) BY <1>4 DEF OnceInv, EnqueuedIsLatest
  <2>2. Flying(r) BY <1>4 DEF At
  <2>3. flight[r] \in Ingest BY <2>2, SlotTypes
  <2>4. flight[r].since \in Nat /\ now <= flight[r].since + MaxFlight
    BY <2>2, <2>3 DEF Ingest, OnceInv, FlightIsShort
  <2>5. rows[<<KeyOf[b], c>>] \in Table!Row BY <1>2 DEF TypeOK
  <2>6. rows[<<KeyOf[b], c>>].at \in Nat BY <2>5 DEF Table!Row
  <2>. QED BY <1>2, <2>1, <2>4, <2>5, <2>6 DEF TakenSince
<1>. QED BY <1>3, <1>4 DEF OnceInv, NotifiedIsRemembered

\* A key's row inserted too lately to be replaced.
LEMMA FreshIsNotFree ==
  ASSUME TypeOK, NEW k \in Key, NEW c \in Chat, NEW t \in Int,
         TakenSince(k, c, t), now < t + Window
  PROVE  ~Table!Free(<<k, c>>)
<1>1. rows[<<k, c>>] \in Table!Row /\ Window \in Nat /\ now \in Nat
  BY PipelineAssumption DEF TypeOK
<1>2. rows[<<k, c>>].at \in Nat BY <1>1 DEF Table!Row
<1>. QED BY <1>1, <1>2 DEF TakenSince, Table!Free

LEMMA EnqueueKeepsOnce ==
  ASSUME Careful, OneChat, TypeInv, TypeInv', OnceInv, NEW s \in Slot, Enqueue(s)
  PROVE  OnceInv'
<1>. USE DEF store, outbox
<1>. DEFINE b == flight[s].alert
            k == KeyOf[flight[s].alert]
<1>0. TypeOK /\ TypeOK' BY DEF TypeInv
<1>1. /\ Flying(s) /\ flight[s] \in Ingest /\ At(s, "enqueueing") /\ flight[s].since \in Nat
      /\ b \in Alert /\ k \in Key /\ EventAt[b] \in Nat
      /\ flight[s].since <= now /\ now <= flight[s].since + MaxFlight
      /\ now \in Nat /\ MaxFlight \in Nat /\ Window \in Nat /\ now' = now /\ delivered' = delivered /\ up' = up
  BY <1>0, SlotTypes, PipelineAssumption, EnqueueInserts DEF At, TypeOK, Ingest, OnceInv, FlightIsShort
<1>2. /\ \A r \in Slot \ {s} : flight'[r] = flight[r]
      /\ flight'[s].alert = b /\ flight'[s].since = flight[s].since
      /\ flight'[s].stage = IF Accepting(b) # {} THEN "enqueued" ELSE "skipped"
  <2>1. flight' = [flight EXCEPT ![s].stage = IF Accepting(b) # {} THEN "enqueued" ELSE "skipped"]
    BY EnqueueInserts DEF GoesTo
  <2>. QED BY <1>0, <1>1, <2>1 DEF TypeOK, Ingest
<1>a. /\ Insert(b) /\ k = KeyOf[b]
      /\ copies' = [p \in Alert \X Chat |->
           IF p[1] = b /\ p[2] \in Accepting(b) THEN copies[p] + 1 ELSE copies[p]]
  BY EnqueueInserts DEF Insert, Counted
<1>. HIDE DEF b, k
<1>3. FlightIsShort'
  BY <1>0, <1>1, <1>2, StillShort DEF OnceInv
<1>4. NothingBeforeStart'
  BY <1>1 DEF OnceInv, NothingBeforeStart
<1>5. CASE Accepting(b) = {}
  <2>1. \A c \in Chat : ~Table!Free(<<k, c>>) BY <1>5 DEF Accepting, b, k
  <2>2. copies' = copies
    BY <1>0, <1>5, <1>a DEF TypeOK
  <2>3. rows' = rows
    <3>1. \A p \in Key \X Chat : p = <<p[1], p[2]>> /\ p[2] \in Chat OBVIOUS
    <3>2. \A p \in Key \X Chat : ~(p[1] = k /\ Table!Free(p)) BY <2>1, <3>1
    <3>3. \A p \in Key \X Chat : rows'[p] = rows[p]
      BY <1>0, <1>1, <3>2, <1>a, InsertedRow
    <3>. QED BY <1>0, <3>3 DEF TypeOK
  <2>4. ~At(s, "enqueued")' /\ ~At(s, "enqueueing")' BY <1>2, <1>5 DEF At
  <2>5. NotifiedIsRemembered'
    BY <1>1, <1>2, <2>2, SameRemembered DEF At
  <2>6. RowsKeep BY <2>3, SameRowsKeep
  <2>. QED BY <1>0, <1>2, <1>3, <1>4, <2>2, <2>4, <2>5, <2>6, OnceFrame DEF SlotMovesOn
<1>6. ASSUME NEW c \in Accepting(b) PROVE OnceInv'
  <2>1. c \in Chat /\ Table!Free(<<k, c>>) BY <1>6 DEF Accepting, b, k
  <2>2. /\ flight'[s].stage = "enqueued" /\ At(s, "enqueued")'
    BY <1>1, <1>2, <1>6 DEF At, Flying, NoIngest
  <2>3. rows'[<<k, c>>].status = "open" /\ \A q \in Key \ {k} : rows'[<<q, c>>] = rows[<<q, c>>]
    <3>1. <<k, c>> \in Key \X Chat /\ Insert(b) /\ k = KeyOf[b]
      BY <1>1, <2>1, <1>a
    <3>. QED BY <1>0, <1>1, <2>1, <3>1, InsertedRow
  <2>4. /\ copies'[<<b, c>>] = copies[<<b, c>>] + 1
        /\ \A a \in Alert \ {b} : copies'[<<a, c>>] = copies[<<a, c>>]
    BY <1>0, <1>1, <1>6, <2>1, <1>a DEF TypeOK
  <2>5. \A d \in Chat : d = c BY <2>1 DEF OneChat
  <2>6. \A a \in Alert : copies[<<a, c>>] \in Nat /\ EventAt[a] \in Nat /\ KeyOf[a] \in Key
    BY <1>0, <2>1, PipelineAssumption DEF TypeOK
  \* All that was enqueued before is older by a window.
  <2>7. ASSUME NEW a \in Alert, Notified(a, c), KeyOf[a] = k PROVE Later(b, a)
    <3>1. Later(b, a) \/ TakenSince(k, c, flight[s].since - MaxFlight)
      BY <1>1, <2>1, <2>7 DEF OnceInv, LetThroughIsLater, b, k
    <3>2. flight[s].since - MaxFlight \in Int /\ now < flight[s].since - MaxFlight + Window
      BY <1>1 DEF Careful
    <3>. QED BY <1>0, <1>1, <2>1, <3>1, <3>2, FreshIsNotFree
  \* No other alert of the key waits to be remembered.
  <2>8. ASSUME NEW r \in Slot, At(r, "enqueued"), KeyOf[flight[r].alert] = k PROVE FALSE
    <3>1. TakenSince(k, c, flight[r].since)
      BY <2>1, <2>8 DEF OnceInv, EnqueuedIsLatest
    <3>2. Flying(r) BY <2>8 DEF At
    <3>3. flight[r] \in Ingest /\ now <= flight[r].since + MaxFlight
      BY <1>0, <3>2, SlotTypes DEF OnceInv, FlightIsShort
    <3>4. flight[r].since \in Int /\ now < flight[r].since + Window
      BY <1>1, <3>3 DEF Ingest, Careful
    <3>. QED BY <1>0, <1>1, <2>1, <3>1, <3>4, FreshIsNotFree
  <2>9. \A a \in Alert : Notified(a, c)' <=> Notified(a, c) \/ a = b
    BY <1>1, <2>4, <2>6 DEF Notified
  <2>10. OncePerEvent'
    <3>1. ASSUME NEW a1 \in Alert, NEW a2 \in Alert, SameEvent(a1, a2)
          PROVE  copies'[<<a1, c>>] + (IF a1 = a2 THEN 0 ELSE copies'[<<a2, c>>]) <= 1
      <4>1. copies[<<a1, c>>] + (IF a1 = a2 THEN 0 ELSE copies[<<a2, c>>]) <= 1
        BY <2>1, <3>1 DEF OnceInv, OncePerEvent
      <4>2. ASSUME NEW a \in Alert, SameEvent(a, b) \/ SameEvent(b, a) PROVE copies[<<a, c>>] = 0
        <5>1. KeyOf[a] = k /\ ~Later(b, a)
          <6>1. KeyOf[b] = k BY DEF b, k
          <6>2. KeyOf[a] = k BY <4>2, <6>1 DEF SameEvent
          <6>3. EventAt[b] - EventAt[a] < Window
            BY <1>1, <2>6, <4>2 DEF SameEvent
          <6>4. EventAt[a] \in Nat /\ EventAt[b] \in Nat /\ Window \in Nat BY <1>1, <2>6
          <6>5. ~(EventAt[b] >= EventAt[a] + Window) BY <6>3, <6>4
          <6>. QED BY <6>2, <6>5 DEF Later
        <5>2. ~Notified(a, c) BY <2>7, <5>1
        <5>. QED BY <2>6, <5>2 DEF Notified
      <4>3. CASE a1 # b /\ a2 # b BY <2>4, <4>1, <4>3
      <4>2a. copies[<<b, c>>] = 0
        <5>1. SameEvent(b, b) BY <1>1, PipelineAssumption DEF SameEvent
        <5>. QED BY <1>1, <4>2, <5>1
      <4>4. CASE a1 = b BY <4>2a, <1>1, <2>4, <2>6, <3>1, <4>2, <4>4
      <4>5. CASE a2 = b BY <4>2a, <1>1, <2>4, <2>6, <3>1, <4>2, <4>5
      <4>. QED BY <4>3, <4>4, <4>5
    <3>. QED BY <2>5, <3>1 DEF OncePerEvent, SameEvent
  <2>11. NotifiedIsRemembered'
    <3>1. ASSUME NEW a \in Alert, Notified(a, c)'
          PROVE  \/ delivered[KeyOf[a]] # Never /\ delivered[KeyOf[a]].event >= EventAt[a]
                 \/ \E r \in Slot : At(r, "enqueued")' /\ flight'[r].alert = a
      <4>1. CASE a = b BY <1>2, <2>2, <4>1
      <4>2. CASE a # b
        <5>1. Notified(a, c) BY <2>9, <3>1, <4>2
        <5>2. ASSUME NEW r \in Slot, At(r, "enqueued"), flight[r].alert = a
              PROVE  At(r, "enqueued")' /\ flight'[r].alert = a
          <6>1. r # s BY <1>1, <5>2 DEF At
          <6>. QED BY <1>2, <5>2, <6>1 DEF At, Flying
        <5>. QED BY <2>1, <5>1, <5>2 DEF OnceInv, NotifiedIsRemembered
      <4>. QED BY <4>1, <4>2
    <3>. QED BY <1>1, <2>5, <3>1 DEF NotifiedIsRemembered
  \* The new row, or the one there was, was inserted no earlier.
  <2>12. ASSUME NEW q \in Key, NEW t \in Int, TakenSince(q, c, t), t <= now
         PROVE  TakenSince(q, c, t)'
    BY <1>1, <2>3, <2>12 DEF TakenSince
  <2>13. LetThroughIsLater'
    <3>1. ASSUME NEW r \in Slot, NEW a \in Alert, At(r, "enqueueing")', Notified(a, c)', KeyOf[a] = KeyOf[flight'[r].alert]
          PROVE  \/ Later(flight'[r].alert, a)
                 \/ TakenSince(KeyOf[a], c, flight[r].since - MaxFlight)'
      <4>1. r # s BY <2>2, <3>1 DEF At
      <4>2. flight'[r] = flight[r] /\ At(r, "enqueueing") /\ Flying(r)
        BY <1>2, <3>1, <4>1 DEF At, Flying
      <4>3. flight[r] \in Ingest /\ flight[r].since \in Nat /\ flight[r].since <= now
        BY <1>0, <4>2, SlotTypes DEF Ingest, OnceInv, FlightIsShort
      <4>4. CASE a = b
        <5>1. KeyOf[a] = k BY <4>4 DEF b, k
        <5>. QED BY <1>1, <2>3, <4>2, <4>3, <5>1 DEF TakenSince
      <4>5. CASE a # b
        <5>1. Notified(a, c) BY <2>9, <3>1, <4>5
        <5>2. Later(flight[r].alert, a) \/ TakenSince(KeyOf[a], c, flight[r].since - MaxFlight)
          BY <2>1, <3>1, <4>2, <5>1 DEF OnceInv, LetThroughIsLater
        <5>3. flight[r].since - MaxFlight \in Int /\ flight[r].since - MaxFlight <= now BY <1>1, <4>3
        <5>4. TakenSince(KeyOf[a], c, flight[r].since - MaxFlight) =>
                TakenSince(KeyOf[a], c, flight[r].since - MaxFlight)'
          BY <2>6, <2>12, <4>2, <5>3 DEF TakenSince
        <5>. QED BY <4>2, <5>2, <5>4
      <4>. QED BY <4>4, <4>5
    <3>. QED BY <2>5, <3>1 DEF LetThroughIsLater, Later
  <2>14. EnqueuedIsLatest'
    <3>1. ASSUME NEW r \in Slot, At(r, "enqueued")'
          PROVE  /\ TakenSince(KeyOf[flight[r].alert], c, flight[r].since)'
                 /\ \A a \in Alert : Notified(a, c)' /\ KeyOf[a] = KeyOf[flight'[r].alert] =>
                      a = flight'[r].alert \/ Later(flight'[r].alert, a)
      <4>1. CASE r = s
        <5>1. flight'[r].alert = b /\ flight'[r].since = flight[s].since /\ KeyOf[b] = k
          BY <1>2, <4>1 DEF b, k
        <5>2. TakenSince(KeyOf[flight[r].alert], c, flight[r].since)'
          BY <1>1, <2>3, <5>1 DEF TakenSince
        <5>. QED BY <2>7, <2>9, <5>1, <5>2
      <4>2. CASE r # s
        <5>1. flight'[r] = flight[r] /\ At(r, "enqueued") /\ Flying(r)
          BY <1>2, <3>1, <4>2 DEF At, Flying
        <5>2. KeyOf[flight[r].alert] # k BY <2>8, <5>1
        <5>3. flight[r] \in Ingest /\ flight[r].since \in Nat /\ flight[r].since <= now /\ KeyOf[flight[r].alert] \in Key
          BY <1>0, <5>1, SlotTypes DEF Ingest, OnceInv, FlightIsShort
        <5>4. TakenSince(KeyOf[flight[r].alert], c, flight[r].since)
          BY <2>1, <5>1 DEF OnceInv, EnqueuedIsLatest
        <5>5. TakenSince(KeyOf[flight[r].alert], c, flight[r].since)'
          BY <2>12, <5>1, <5>3, <5>4 DEF TakenSince
        <5>6. ASSUME NEW a \in Alert, Notified(a, c)', KeyOf[a] = KeyOf[flight[r].alert]
              PROVE  a = flight[r].alert \/ Later(flight[r].alert, a)
          <6>1. a # b BY <5>2, <5>6 DEF b, k
          <6>. QED BY <2>1, <2>9, <5>1, <5>6, <6>1 DEF OnceInv, EnqueuedIsLatest
        <5>. QED BY <5>1, <5>5, <5>6
      <4>. QED BY <4>1, <4>2
    <3>. QED BY <2>5, <3>1 DEF EnqueuedIsLatest, Later
  <2>. QED BY <1>3, <1>4, <2>10, <2>11, <2>13, <2>14 DEF OnceInv
<1>. QED BY <1>5, <1>6

LEMMA SameFlightFrame ==
  ASSUME TypeOK, TypeOK', OnceInv, RowsKeep, UNCHANGED <<now, up, flight, delivered, copies>>
  PROVE  OnceInv'
<1>1. FlightIsShort' BY StillShort DEF OnceInv
<1>2. NotifiedIsRemembered' BY SameRemembered
<1>3. NothingBeforeStart' BY DEF OnceInv, NothingBeforeStart, Notified, Flying
<1>. QED BY <1>1, <1>2, <1>3, OnceFrame DEF SlotMovesOn

LEMMA SameFlightKeepsOnce ==
  ASSUME TypeOK, TypeOK', OnceInv, UNCHANGED <<now, up, flight, delivered, rows, copies>>
  PROVE  OnceInv'
<1>1. RowsKeep BY SameRowsKeep
<1>. QED BY <1>1, SameFlightFrame

LEMMA EnterKeepsOnce ==
  ASSUME TypeOK, TypeOK', OnceInv, up, NEW s \in Slot, NEW a \in Alert, Enter(s, a)
  PROVE  OnceInv'
<1>. USE DEF store, outbox
<1>1. /\ \A r \in Slot \ {s} : flight'[r] = flight[r]
      /\ flight'[s].since = now /\ flight'[s].stage = FirstStage(a)
  BY DEF Enter, TypeOK
<1>2. ~Flying(s) /\ ~At(s, "enqueued") BY DEF Enter, At
<1>3. ~At(s, "enqueued")'
  BY <1>1 DEF At, FirstStage
<1>4. FlightIsShort' BY <1>1, StillShort DEF Enter, OnceInv
<1>5. NotifiedIsRemembered' BY <1>1, <1>2, SameRemembered DEF Enter
<1>6. NothingBeforeStart' BY DEF Enter, NothingBeforeStart
<1>7. RowsKeep BY SameRowsKeep DEF Enter
<1>8. At(s, "enqueueing")' => IsLater(s)' BY EnterIsLater
<1>. QED BY <1>1, <1>3, <1>4, <1>5, <1>6, <1>7, <1>8, OnceFrame DEF SlotMovesOn, Enter

LEMMA SlotStepKeepsOnce ==
  ASSUME Careful, OneChat, TypeInv, TypeInv', OnceInv, NEW s \in Slot, SlotStep(s)
  PROVE  OnceInv'
<1>. USE DEF store, outbox
<1>0. TypeOK /\ TypeOK' BY DEF TypeInv
<1>00. ASSUME NEW kind, Rare(kind) PROVE kind = "refused" \/ kind = "mute"
  BY <1>00 DEF Rare, Careful
<1>000. rows' = rows => RowsKeep BY SameRowsKeep
<1>n. up' = up /\ copies' = copies /\ Flying(s) => NothingBeforeStart'
  BY DEF OnceInv, NothingBeforeStart
<1>1. ASSUME NEW a \in Alert, IngestPushed(s, a) PROVE OnceInv'
  BY <1>0, <1>1, EnterKeepsOnce DEF IngestPushed
<1>2. CASE Enqueue(s)
  BY <1>2, EnqueueKeepsOnce
<1>3. ASSUME At(s, "enqueueing") \/ At(s, "recording") \/ At(s, "passed") \/ At(s, "skipped"),
             Leaves(s) \/ GoesTo(s, "passed"),
             UNCHANGED <<now, up, delivered, outbox>>
      PROVE  OnceInv'
  <2>1. Flying(s) /\ ~At(s, "enqueued") BY <1>3 DEF At
  <2>2. flight[s] \in Ingest BY <1>0, <2>1, SlotTypes
  <2>3. /\ \A r \in Slot \ {s} : flight'[r] = flight[r]
        /\ ~At(s, "enqueueing")' /\ ~At(s, "enqueued")'
        /\ Flying(s)' => flight'[s].since = flight[s].since
    BY <1>0, <1>3, <2>2 DEF Leaves, GoesTo, At, Flying, TypeOK, Ingest
  <2>4. FlightIsShort' BY <1>0, <1>3, <2>1, <2>3, StillShort DEF OnceInv
  <2>5. NotifiedIsRemembered' BY <1>3, <2>1, <2>3, SameRemembered
  <2>. QED BY <1>0, <1>000, <1>n, <1>3, <2>1, <2>3, <2>4, <2>5, OnceFrame DEF SlotMovesOn
<1>4. CASE EnqueueRefused(s)
  BY <1>3, <1>4 DEF EnqueueRefused, Abort
<1>5. CASE RecordDuplicate(s)
  BY <1>3, <1>5 DEF RecordDuplicate
<1>6. CASE RecordFails(s)
  BY <1>3, <1>6 DEF RecordFails, Abort
<1>7. CASE Pass(s)
  BY <1>3, <1>7 DEF Pass
<1>8. CASE Remember(s)
  <2>1. CASE At(s, "skipped")
    <3>1. ~At(s, "enqueued") BY <2>1 DEF At
    <3>. QED BY <1>3, <1>8, <2>1, <3>1 DEF Remember
  <2>2. CASE At(s, "enqueued")
    <3>1. Flying(s) BY <2>2 DEF At
    <3>2. flight[s].alert \in Alert /\ KeyOf[flight[s].alert] \in Key /\ EventAt[flight[s].alert] \in Nat
      BY <1>0, <3>1, SlotTypes
    <3>3. /\ \A r \in Slot \ {s} : flight'[r] = flight[r]
          /\ ~Flying(s)'
      BY <1>0, <1>8 DEF Remember, Leaves, Flying, TypeOK
    <3>4. /\ delivered'[KeyOf[flight[s].alert]] = [event |-> EventAt[flight[s].alert], seeded |-> FALSE]
          /\ \A q \in Key \ {KeyOf[flight[s].alert]} : delivered'[q] = delivered[q]
          /\ UNCHANGED <<now, up, outbox>>
      BY <1>0, <1>8, <2>2, <3>2 DEF Remember, RememberDelivered, DeliveredBy, TypeOK
    <3>5. FlightIsShort' BY <1>0, <3>3, <3>4, StillShort DEF OnceInv
    <3>6. NotifiedIsRemembered'
      <4>1. ASSUME NEW a \in Alert, NEW c \in Chat, Notified(a, c)
            PROVE  \/ delivered'[KeyOf[a]] # Never /\ delivered'[KeyOf[a]].event >= EventAt[a]
                   \/ \E r \in Slot : At(r, "enqueued")' /\ flight'[r].alert = a
        <5>0. KeyOf[a] \in Key /\ EventAt[a] \in Nat /\ Window \in Nat BY PipelineAssumption
        <5>1. CASE KeyOf[a] = KeyOf[flight[s].alert]
          <6>1. a = flight[s].alert \/ Later(flight[s].alert, a)
            BY <2>2, <4>1, <5>1 DEF OnceInv, EnqueuedIsLatest
          <6>2. EventAt[flight[s].alert] >= EventAt[a] BY <3>2, <5>0, <6>1 DEF Later
          <6>3. [event |-> EventAt[flight[s].alert], seeded |-> FALSE] # Never BY <3>2 DEF Never
          <6>. QED BY <3>4, <5>1, <6>2, <6>3
        <5>2. CASE KeyOf[a] # KeyOf[flight[s].alert]
          <6>1. delivered'[KeyOf[a]] = delivered[KeyOf[a]] BY <3>4, <5>0, <5>2
          <6>2. ASSUME NEW r \in Slot, At(r, "enqueued"), flight[r].alert = a
                PROVE  At(r, "enqueued")' /\ flight'[r].alert = a
            <7>1. flight'[r] = flight[r] BY <3>3, <5>2, <6>2
            <7>. QED BY <6>2, <7>1 DEF At, Flying
          <6>. QED BY <4>1, <6>1, <6>2 DEF OnceInv, NotifiedIsRemembered
        <5>. QED BY <5>1, <5>2
      <4>. QED BY <3>4, <4>1 DEF NotifiedIsRemembered, Notified
    <3>7. ~At(s, "enqueueing")' /\ ~At(s, "enqueued")' BY <3>3 DEF At
    <3>. QED BY <1>0, <1>000, <1>n, <3>1, <3>3, <3>4, <3>5, <3>6, <3>7, OnceFrame DEF SlotMovesOn
  <2>. QED BY <1>8, <2>1, <2>2 DEF Remember
<1>9. ~EnqueueLost(s) /\ ~RememberFails(s) /\ ~CrashInWrite(s)
  BY <1>00 DEF EnqueueLost, Unanswered, RememberFails, CrashInWrite
<1>. QED BY <1>1, <1>2, <1>4, <1>5, <1>6, <1>7, <1>8, <1>9 DEF SlotStep, IngestStep

LEMMA PollerStepKeepsOnce ==
  ASSUME Careful, OneChat, TypeInv, TypeInv', OnceInv, PollerStep
  PROVE  OnceInv'
<1>. USE DEF store, outbox
<1>0. TypeOK /\ TypeOK' BY DEF TypeInv
<1>00. ASSUME NEW kind, Rare(kind) PROVE kind = "refused" \/ kind = "mute"
  BY <1>00 DEF Rare, Careful
<1>1. CASE IngestPolled
  <2>1. tail \in Seq(Fetched) /\ tail # <<>> /\ Head(tail) \in Fetched
    BY <1>0, <1>1 DEF IngestPolled, TypeOK
  <2>2. PICK a \in Head(tail).alerts : Enter(Poll, a) BY <1>1 DEF IngestPolled
  <2>3. a \in Alert BY <2>1, <2>2 DEF Fetched
  <2>. QED BY <1>0, <1>1, <2>2, <2>3, EnterKeepsOnce DEF IngestPolled, Slot
<1>2. CASE PollEnds
  BY <1>0, <1>2, SameFlightKeepsOnce DEF PollEnds
<1>3. CASE SetDelivery
  BY <1>0, <1>3, SameFlightKeepsOnce DEF SetDelivery
<1>4. ~Crash BY <1>00 DEF Crash
<1>5. ASSUME NEW src \in Polled, NEW L \in SUBSET Alert, Fetch(src, L) PROVE OnceInv'
  BY <1>0, <1>5, SameFlightKeepsOnce DEF Fetch
<1>6. ASSUME NEW L \in SUBSET Alert, Start(L) PROVE OnceInv'
  <2>1. \A s \in Slot : ~Flying(s) /\ ~Flying(s)'
    BY <1>6 DEF Start, Seeds, OnceInv, NothingBeforeStart, Flying
  <2>2. \A a \in Alert, c \in Chat : ~Notified(a, c) /\ ~Notified(a, c)'
    BY <1>6 DEF Start, Seeds, OnceInv, NothingBeforeStart, Notified
  <2>3. copies' = copies /\ up' BY <1>6 DEF Start, Seeds
  <2>4. OncePerEvent' BY <2>3 DEF OnceInv, OncePerEvent, SameEvent
  <2>5. FlightIsShort' /\ NotifiedIsRemembered' BY <2>1, <2>2 DEF FlightIsShort, NotifiedIsRemembered
  <2>6. LetThroughIsLater' /\ EnqueuedIsLatest' BY <2>1 DEF LetThroughIsLater, EnqueuedIsLatest, At
  <2>7. NothingBeforeStart' BY <2>3 DEF NothingBeforeStart
  <2>. QED BY <2>4, <2>5, <2>6, <2>7 DEF OnceInv
<1>7. ASSUME NEW L \in SUBSET Alert PROVE ~StartUnwritable(L)
  BY <1>00 DEF StartUnwritable
<1>. QED BY <1>1, <1>2, <1>3, <1>4, <1>5, <1>6, <1>7 DEF PollerStep

LEMMA WorldStepKeepsOnce ==
  ASSUME TypeInv, TypeInv', OnceInv, WorldStep
  PROVE  OnceInv'
<1>. USE DEF store, outbox
<1>0. TypeOK /\ TypeOK' BY DEF TypeInv
<1>1. CASE Work
  BY <1>0, <1>1, WorkKeepsRows, SameFlightFrame DEF Work
<1>2. CASE Tick
  <2>1. FlightIsShort'
    <3>1. now \in Nat /\ MaxFlight \in Nat BY <1>0, PipelineAssumption DEF TypeOK
    <3>2. ASSUME NEW s \in Slot, Flying(s) PROVE flight[s].since <= now + 1 /\ now + 1 <= flight[s].since + MaxFlight
      <4>1. flight[s].since \in Nat BY <1>0, <3>2, SlotTypes DEF Ingest
      <4>2. now - flight[s].since < MaxFlight /\ flight[s].since <= now
        BY <1>2, <3>2 DEF Tick, Passes, OnceInv, FlightIsShort
      <4>. QED BY <3>1, <4>1, <4>2
    <3>. QED BY <1>2, <3>2 DEF Tick, Passes, FlightIsShort, Flying
  <2>2. RowsKeep BY <1>2, SameRowsKeep DEF Tick, Passes
  <2>3. NotifiedIsRemembered' BY <1>2, SameRemembered DEF Tick, Passes
  <2>4. NothingBeforeStart' BY <1>2 DEF Tick, Passes, OnceInv, NothingBeforeStart, Notified, Flying
  <2>. QED BY <1>0, <1>2, <2>1, <2>2, <2>3, <2>4, OnceFrame DEF SlotMovesOn, Tick, Passes
<1>. QED BY <1>1, <1>2 DEF WorldStep

LEMMA OnceInit == ASSUME Init PROVE OnceInv
<1>1. \A s \in Slot : ~Flying(s) BY DEF Init, Flying
<1>2. \A a \in Alert, c \in Chat : copies[<<a, c>>] = 0 BY DEF Init
<1>3. OncePerEvent BY <1>2 DEF OncePerEvent
<1>4. ASSUME NEW a \in Alert, NEW c \in Chat PROVE ~Notified(a, c)
  <2>1. copies[<<a, c>>] = 0 BY <1>2
  <2>. QED BY <2>1 DEF Notified
<1>5. FlightIsShort /\ NotifiedIsRemembered /\ NothingBeforeStart
  BY <1>1, <1>4 DEF FlightIsShort, NotifiedIsRemembered, NothingBeforeStart
<1>6. LetThroughIsLater /\ EnqueuedIsLatest
  BY <1>1 DEF LetThroughIsLater, EnqueuedIsLatest, At
<1>. QED BY <1>3, <1>5, <1>6 DEF OnceInv

LEMMA OnceStep ==
  ASSUME Careful, OneChat
  PROVE  TypeInv /\ TypeInv' /\ OnceInv /\ [Next]_vars => OnceInv'
<1>1. ASSUME TypeInv, TypeInv', OnceInv, UNCHANGED vars PROVE OnceInv'
  BY <1>1, SameFlightKeepsOnce DEF vars, store, outbox, TypeInv
<1>. QED BY <1>1, SlotStepKeepsOnce, PollerStepKeepsOnce, WorldStepKeepsOnce DEF Next

\* Of the reports of one event, from whatever sources, in whatever order and however
\* overlapping, one is enqueued for the chat, and once; if ingests take less than half the
\* window, there is one chat, and neither crashes nor disks lose a memory.
THEOREM PipelineEnqueuesOnce == ASSUME Careful, OneChat PROVE Spec => []OncePerEvent
<1>1. Init => TypeInv /\ OnceInv BY TypeInit, OnceInit
<1>2. TypeInv /\ OnceInv /\ [Next]_vars => (TypeInv /\ OnceInv)' BY TypeStep, OnceStep
<1>3. OnceInv => OncePerEvent BY DEF OnceInv
<1>. QED BY <1>1, <1>2, <1>3, PTL DEF Spec

-----------------------------------------------------------------------------
(* No event is enqueued twice for any chat *)

\* Alerts with one text fall into waves: those a window apart have none within the window
\* of both.
WavesApart ==
  \A a, b, d \in Alert : SameEvent(a, b) /\ SameEvent(b, d) => SameEvent(a, d)

LEMMA EventTypes ==
  ASSUME NEW a \in Alert
  PROVE  EventAt[a] \in Nat /\ KeyOf[a] \in Key /\ Window \in Nat /\ Window > 0 /\ MaxFlight \in Nat
BY PipelineAssumption

\* An alert that is not suppressed by what covers another's event is of a later wave.
LEMMA PastTheCover ==
  ASSUME WavesApart, NEW a \in Alert, NEW b \in Alert, NEW d \in Alert,
         KeyOf[a] = KeyOf[b], Covers(d, a), EventAt[b] - EventAt[d] >= Window
  PROVE  Later(b, a)
<1>1. EventAt[a] \in Nat /\ EventAt[b] \in Nat /\ EventAt[d] \in Nat /\ Window \in Nat /\ Window > 0
  BY EventTypes
<1>2. CASE Later(d, a)
  BY <1>1, <1>2 DEF Later
<1>3. CASE SameEvent(a, d)
  <2>1. ~SameEvent(b, d)
    BY <1>1 DEF SameEvent
  <2>2. SameEvent(b, a) => SameEvent(b, d)
    BY <1>3 DEF WavesApart
  <2>3. EventAt[b] - EventAt[a] >= Window \/ EventAt[a] - EventAt[b] >= Window
    BY <1>1, <2>1, <2>2 DEF SameEvent
  <2>4. EventAt[a] - EventAt[d] < Window
    BY <1>3 DEF SameEvent
  <2>. QED BY <1>1, <2>3, <2>4 DEF Later
<1>. QED BY <1>2, <1>3 DEF Covers

\* While a prompt ingest is under way, nothing has happened that is later by a window.
LEMMA PromptCovers ==
  ASSUME NEW a \in Alert, NEW d \in Alert, KeyOf[a] = KeyOf[d], now \in Nat,
         EventAt[a] <= now, now < EventAt[d] + Window
  PROVE  Covers(d, a)
<1>1. EventAt[a] \in Nat /\ EventAt[d] \in Nat /\ Window \in Nat
  BY EventTypes
<1>. QED BY <1>1 DEF Covers, SameEvent, Later

\* A step that inserts nothing.
LEMMA ChatsFrame ==
  ASSUME TypeOK, ChatsInv, copies' = copies, now' = now, RowsKeep,
         FlightIsShort', NotifiedIsCovered', NothingBeforeStart',
         \A s \in Slot : SlotMovesOn(s)
  PROVE  ChatsInv'
<1>1. \A a \in Alert, c \in Chat : Notified(a, c)' <=> Notified(a, c)
  BY DEF Notified
<1>2. OncePerEvent' BY DEF ChatsInv, OncePerEvent, SameEvent
<1>3. LetThroughIsLater' BY LetThroughFrame DEF ChatsInv
<1>4. NotifiedHasHappened' BY <1>1 DEF ChatsInv, NotifiedHasHappened
<1>5. EnqueuedIsPrompt'
  <2>1. ASSUME NEW s \in Slot, At(s, "enqueued")' PROVE At(s, "enqueued") /\ flight'[s] = flight[s]
    BY <2>1 DEF SlotMovesOn, At, Flying
  <2>. QED BY <2>1 DEF ChatsInv, EnqueuedIsPrompt
<1>. QED BY <1>2, <1>3, <1>4, <1>5 DEF ChatsInv

\* What covers an alert stays as long as no ingest that was answered goes on.
LEMMA SameCover ==
  ASSUME TypeOK, ChatsInv, copies' = copies, delivered' = delivered, RowsKeep,
         \A s \in Slot : At(s, "enqueued") => flight'[s] = flight[s]
  PROVE  NotifiedIsCovered'
<1>. SUFFICES ASSUME NEW a \in Alert, NEW c \in Chat, Notified(a, c)
              PROVE  \/ \E d \in Alert : Covers(d, a) /\ delivered[KeyOf[a]].event = EventAt[d]
                     \/ \E s \in Slot : /\ At(s, "enqueued")' /\ flight'[s].alert = a
                                        /\ TakenSince(KeyOf[a], c, flight[s].since)'
  BY DEF NotifiedIsCovered, Notified, Covers, SameEvent, Later
<1>1. ASSUME NEW s \in Slot, At(s, "enqueued"), flight[s].alert = a,
             TakenSince(KeyOf[a], c, flight[s].since)
      PROVE  /\ At(s, "enqueued")' /\ flight'[s].alert = a
             /\ TakenSince(KeyOf[a], c, flight[s].since)'
  <2>1. flight'[s] = flight[s] /\ Flying(s) BY <1>1 DEF At
  <2>2. flight[s].since \in Int /\ flight[s].since <= now BY <2>1, SinceTypes DEF ChatsInv
  <2>3. KeyOf[a] \in Key BY EventTypes
  <2>. QED BY <1>1, <2>1, <2>2, <2>3 DEF At, Flying, TakenSince, RowsKeep
<1>. QED BY <1>1 DEF ChatsInv, NotifiedIsCovered

LEMMA ChatsSameFlight ==
  ASSUME TypeOK, ChatsInv, RowsKeep, UNCHANGED <<now, up, flight, delivered, copies>>
  PROVE  ChatsInv'
<1>1. FlightIsShort' BY StillShort DEF ChatsInv
<1>2. NotifiedIsCovered' BY SameCover
<1>3. NothingBeforeStart' BY DEF ChatsInv, NothingBeforeStart, Notified, Flying
<1>. QED BY <1>1, <1>2, <1>3, ChatsFrame DEF SlotMovesOn

\* An ingest that is let through while others are under way.
LEMMA ChatsEnter ==
  ASSUME WavesApart, TypeOK, ChatsInv, up, NEW s \in Slot, NEW a \in Alert, Enter(s, a)
  PROVE  ChatsInv'
<1>. USE DEF store, outbox
<1>1. /\ \A r \in Slot \ {s} : flight'[r] = flight[r]
      /\ flight'[s].alert = a /\ flight'[s].since = now /\ flight'[s].stage = FirstStage(a)
      /\ now' = now /\ rows' = rows /\ copies' = copies /\ delivered' = delivered /\ up' = up
  BY DEF Enter, TypeOK
<1>2. ~Flying(s) /\ ~At(s, "enqueued") BY DEF Enter, At
<1>3. ~At(s, "enqueued")' BY <1>1 DEF At, FirstStage
<1>4. RowsKeep BY <1>1, SameRowsKeep
<1>5. FlightIsShort' BY <1>1, StillShort DEF ChatsInv
<1>6. NotifiedIsCovered' BY <1>1, <1>2, <1>4, SameCover
<1>7. NothingBeforeStart' BY <1>1 DEF NothingBeforeStart
<1>8. ASSUME At(s, "enqueueing")' PROVE IsLater(s)'
  <2>. SUFFICES ASSUME NEW b \in Alert, NEW c \in Chat, Notified(b, c), KeyOf[b] = KeyOf[a]
                PROVE  Later(a, b) \/ TakenSince(KeyOf[b], c, now - MaxFlight)
    BY <1>1 DEF IsLater, Notified, Later, TakenSince
  <2>1. ~Suppressed(a) BY <1>1, <1>8 DEF FirstStage, At
  <2>2. CASE \E d \in Alert : Covers(d, b) /\ delivered[KeyOf[b]].event = EventAt[d]
    <3>1. PICK d \in Alert : Covers(d, b) /\ delivered[KeyOf[a]].event = EventAt[d] BY <2>2
    <3>2. EventAt[d] \in Nat /\ EventAt[a] \in Nat /\ Window \in Nat BY EventTypes
    <3>3. delivered[KeyOf[a]] # Never BY <3>1, <3>2 DEF Never
    <3>4. ~(EventAt[a] - EventAt[d] < Window) BY <2>1, <3>1, <3>3 DEF Suppressed
    <3>. QED BY <3>1, <3>2, <3>4, PastTheCover
  <2>3. ASSUME NEW r \in Slot, At(r, "enqueued"), flight[r].alert = b,
               TakenSince(KeyOf[b], c, flight[r].since)
        PROVE  TakenSince(KeyOf[b], c, now - MaxFlight)
    <3>1. flight[r].since \in Nat /\ now <= flight[r].since + MaxFlight
      BY <2>3, SinceTypes DEF At, ChatsInv
    <3>2. KeyOf[b] \in Key /\ MaxFlight \in Nat BY EventTypes
    <3>3. now \in Nat /\ rows[<<KeyOf[b], c>>] \in Table!Row BY <3>2 DEF TypeOK
    <3>4. rows[<<KeyOf[b], c>>].at \in Nat BY <3>3 DEF Table!Row
    <3>. QED BY <2>3, <3>1, <3>2, <3>3, <3>4 DEF TakenSince
  <2>. QED BY <2>2, <2>3 DEF ChatsInv, NotifiedIsCovered
<1>. QED BY <1>1, <1>3, <1>4, <1>5, <1>6, <1>7, <1>8, ChatsFrame DEF SlotMovesOn

\* The transaction of an ingest opens rows, settles none, and each is counted.
LEMMA InsertKeepsRows ==
  ASSUME TypeOK, NEW b \in Alert, Insert(b)
  PROVE  /\ RowsKeep
         /\ \A c \in Accepting(b) : rows'[<<KeyOf[b], c>>].status = "open"
         /\ \A a \in Alert, c \in Chat :
              copies'[<<a, c>>] = IF a = b /\ c \in Accepting(b) THEN copies[<<a, c>>] + 1
                                                                 ELSE copies[<<a, c>>]
<1>1. RowsKeep
  <2>. SUFFICES ASSUME NEW k \in Key, NEW c \in Chat, NEW t \in Int, TakenSince(k, c, t)
                PROVE  TakenSince(k, c, t)'
    BY DEF RowsKeep
  <2>. DEFINE p == <<k, c>>
  <2>1. p \in Key \X Chat OBVIOUS
  <2>2. rows'[p] = rows[p] \/ rows'[p].status = "open" BY <2>1, InsertedRow
  <2>. QED BY <2>2 DEF TakenSince
<1>2. ASSUME NEW c \in Accepting(b) PROVE rows'[<<KeyOf[b], c>>].status = "open"
  <2>. DEFINE p == <<KeyOf[b], c>>
  <2>1. c \in Chat /\ Table!Free(p) BY DEF Accepting
  <2>2. p \in Key \X Chat /\ p[1] = KeyOf[b] BY <2>1, EventTypes
  <2>. QED BY <2>1, <2>2, InsertedRow
<1>3. \A a \in Alert, c \in Chat :
        copies'[<<a, c>>] = IF a = b /\ c \in Accepting(b) THEN copies[<<a, c>>] + 1
                                                           ELSE copies[<<a, c>>]
  BY DEF Insert, Counted
<1>. QED BY <1>1, <1>2, <1>3

\* What is inserted for a chat is of a later wave than all it was notified of.
LEMMA InsertedIsLater ==
  ASSUME Careful, TypeOK, ChatsInv, NEW s \in Slot, At(s, "enqueueing"),
         NEW c \in Accepting(flight[s].alert),
         NEW a \in Alert, Notified(a, c), KeyOf[a] = KeyOf[flight[s].alert]
  PROVE  Later(flight[s].alert, a)
<1>1. Flying(s) BY DEF At
<1>2. c \in Chat /\ Table!Free(<<KeyOf[a], c>>) BY DEF Accepting
<1>3. Later(flight[s].alert, a) \/ TakenSince(KeyOf[a], c, flight[s].since - MaxFlight)
  BY <1>2 DEF ChatsInv, LetThroughIsLater
<1>4. flight[s].since \in Nat /\ now <= flight[s].since + MaxFlight BY <1>1, SinceTypes DEF ChatsInv
<1>5. MaxFlight \in Nat /\ Window \in Nat /\ now \in Nat /\ KeyOf[a] \in Key
  BY EventTypes DEF TypeOK
<1>6. flight[s].since - MaxFlight \in Int /\ now < flight[s].since - MaxFlight + Window
  BY <1>4, <1>5 DEF Careful
<1>. QED BY <1>2, <1>3, <1>5, <1>6, FreshIsNotFree

LEMMA ChatsEnqueue ==
  ASSUME Careful, TypeInv, ChatsInv, NothingFromTheFuture, Prompt, NEW s \in Slot, Enqueue(s)
  PROVE  ChatsInv'
<1>. USE DEF store
<1>. DEFINE b == flight[s].alert
            C == Accepting(b)
<1>0. TypeOK BY DEF TypeInv
<1>1. /\ At(s, "enqueueing") /\ Flying(s) /\ b \in Alert /\ Insert(b) /\ C \subseteq Chat
      /\ now' = now /\ delivered' = delivered /\ up' = up
  BY <1>0, SlotTypes, EnqueueInserts DEF At, Accepting
<1>2. /\ \A r \in Slot \ {s} : flight'[r] = flight[r]
      /\ flight'[s].alert = b /\ flight'[s].since = flight[s].since
      /\ flight'[s].stage = IF C # {} THEN "enqueued" ELSE "skipped"
  <2>1. flight' = [flight EXCEPT ![s].stage = IF C # {} THEN "enqueued" ELSE "skipped"]
    BY EnqueueInserts DEF GoesTo
  <2>2. flight[s] \in Ingest BY <1>0, <1>1, SlotTypes
  <2>. QED BY <1>0, <2>1, <2>2 DEF TypeOK, Ingest
<1>3. /\ RowsKeep
      /\ \A c \in C : rows'[<<KeyOf[b], c>>].status = "open"
      /\ \A a \in Alert, c \in Chat :
           copies'[<<a, c>>] = IF a = b /\ c \in C THEN copies[<<a, c>>] + 1 ELSE copies[<<a, c>>]
  BY <1>0, <1>1, InsertKeepsRows
<1>4. ASSUME NEW c \in C, NEW a \in Alert, Notified(a, c), KeyOf[a] = KeyOf[b] PROVE Later(b, a)
  BY <1>0, <1>1, <1>4, InsertedIsLater
<1>5. \A r \in Slot : Flying(r) =>
        /\ flight[r].since \in Int /\ flight[r].since - MaxFlight \in Int
        /\ flight[r].since <= now /\ flight[r].since - MaxFlight <= now
  BY <1>0, SinceTypes DEF ChatsInv
<1>6. EventAt[b] <= now /\ flight[s].since + MaxFlight < EventAt[b] + Window
  BY <1>1 DEF NothingFromTheFuture, Prompt
<1>. HIDE DEF b, C
<1>7. \A a \in Alert, c \in Chat : copies[<<a, c>>] \in Nat
  BY <1>0 DEF TypeOK
<1>8. \A a \in Alert, c \in Chat : Notified(a, c)' <=> (Notified(a, c) \/ (a = b /\ c \in C))
  <2>1. ASSUME NEW a \in Alert, NEW c \in Chat
        PROVE  (copies'[<<a, c>>] > 0) <=> (copies[<<a, c>>] > 0 \/ (a = b /\ c \in C))
    <3>1. copies'[<<a, c>>] = IF a = b /\ c \in C THEN copies[<<a, c>>] + 1 ELSE copies[<<a, c>>]
      BY <1>3
    <3>2. copies[<<a, c>>] \in Nat BY <1>7
    <3>. QED BY <3>1, <3>2
  <2>. QED BY <2>1 DEF Notified
<1>9. \A r \in Slot : At(r, "enqueued") \/ At(r, "enqueueing")' => r # s /\ flight'[r] = flight[r]
  <2>1. ~At(s, "enqueued") BY <1>1 DEF At
  <2>2. ~At(s, "enqueueing")' BY <1>2 DEF At
  <2>. QED BY <1>2, <2>1, <2>2
<1>10. OncePerEvent'
  <2>. SUFFICES ASSUME NEW c \in Chat, NEW a1 \in Alert, NEW a2 \in Alert, SameEvent(a1, a2)
                PROVE  copies'[<<a1, c>>] + (IF a1 = a2 THEN 0 ELSE copies'[<<a2, c>>]) <= 1
    BY DEF OncePerEvent, SameEvent
  <2>1. copies[<<a1, c>>] + (IF a1 = a2 THEN 0 ELSE copies[<<a2, c>>]) <= 1
    BY DEF ChatsInv, OncePerEvent
  <2>2. CASE c \notin C \/ (a1 # b /\ a2 # b)
    BY <1>3, <2>1, <2>2
  <2>3. CASE c \in C /\ (a1 = b \/ a2 = b)
    <3>1. ASSUME NEW a \in {a1, a2} PROVE copies[<<a, c>>] = 0
      <4>1. KeyOf[a] = KeyOf[b] /\ EventAt[b] - EventAt[a] < Window
        <5>1. EventAt[a] \in Nat /\ Window \in Nat /\ Window > 0 BY EventTypes
        <5>. QED BY <2>3, <5>1 DEF SameEvent
      <4>2. EventAt[a] \in Nat /\ EventAt[b] \in Nat /\ Window \in Nat BY <1>1, EventTypes
      <4>3. ~Notified(a, c) BY <1>4, <2>3, <4>1, <4>2 DEF Later
      <4>. QED BY <1>7, <4>3 DEF Notified
    <3>. QED BY <1>3, <3>1
  <2>. QED BY <2>2, <2>3
<1>11. FlightIsShort' BY <1>0, <1>1, <1>2, StillShort DEF ChatsInv
<1>12. NothingBeforeStart' BY <1>1 DEF ChatsInv, NothingBeforeStart
<1>13. LetThroughIsLater'
  <2>. SUFFICES ASSUME NEW r \in Slot, NEW a \in Alert, NEW c \in Chat,
                       At(r, "enqueueing")', Notified(a, c)', KeyOf[a] = KeyOf[flight'[r].alert]
                PROVE  \/ Later(flight'[r].alert, a)
                       \/ TakenSince(KeyOf[a], c, flight[r].since - MaxFlight)'
    BY DEF LetThroughIsLater, Later
  <2>1. flight'[r] = flight[r] /\ At(r, "enqueueing") /\ Flying(r)
    BY <1>9 DEF At, Flying
  <2>2. CASE a = b /\ c \in C
    BY <1>3, <2>1, <2>2 DEF TakenSince
  <2>3. CASE Notified(a, c)
    <3>1. Later(flight[r].alert, a) \/ TakenSince(KeyOf[a], c, flight[r].since - MaxFlight)
      BY <2>1, <2>3 DEF ChatsInv, LetThroughIsLater
    <3>2. KeyOf[a] \in Key BY EventTypes
    <3>3. TakenSince(KeyOf[a], c, flight[r].since - MaxFlight) =>
            TakenSince(KeyOf[a], c, flight[r].since - MaxFlight)'
      BY <1>3, <1>5, <2>1, <3>2 DEF RowsKeep, TakenSince
    <3>. QED BY <2>1, <3>1, <3>3
  <2>. QED BY <1>8, <2>2, <2>3
<1>14. NotifiedHasHappened'
  BY <1>1, <1>6, <1>8 DEF ChatsInv, NotifiedHasHappened
<1>15. EnqueuedIsPrompt'
  <2>1. ASSUME NEW r \in Slot, r # s, At(r, "enqueued")'
        PROVE  flight'[r] = flight[r] /\ At(r, "enqueued")
    BY <1>2, <2>1 DEF At, Flying
  <2>. QED BY <1>2, <1>6, <2>1 DEF ChatsInv, EnqueuedIsPrompt
<1>16. NotifiedIsCovered'
  <2>. SUFFICES ASSUME NEW a \in Alert, NEW c \in Chat, Notified(a, c)'
                PROVE  \/ \E d \in Alert : Covers(d, a) /\ delivered[KeyOf[a]].event = EventAt[d]
                       \/ \E r \in Slot : /\ At(r, "enqueued")' /\ flight'[r].alert = a
                                          /\ TakenSince(KeyOf[a], c, flight[r].since)'
    BY <1>1 DEF NotifiedIsCovered, Covers, SameEvent, Later
  <2>1. CASE a = b /\ c \in C
    <3>1. At(s, "enqueued")' BY <1>2, <2>1 DEF At, Flying, NoIngest
    <3>. QED BY <1>2, <1>3, <2>1, <3>1 DEF TakenSince
  <2>2. CASE Notified(a, c)
    <3>1. ASSUME NEW r \in Slot, At(r, "enqueued"), flight[r].alert = a,
                 TakenSince(KeyOf[a], c, flight[r].since)
          PROVE  /\ At(r, "enqueued")' /\ flight'[r].alert = a
                 /\ TakenSince(KeyOf[a], c, flight[r].since)'
      <4>1. flight'[r] = flight[r] /\ Flying(r) BY <1>9, <3>1 DEF At
      <4>2. KeyOf[a] \in Key BY EventTypes
      <4>. QED BY <1>3, <1>5, <3>1, <4>1, <4>2 DEF At, Flying, TakenSince, RowsKeep
    <3>. QED BY <2>2, <3>1 DEF ChatsInv, NotifiedIsCovered
  <2>. QED BY <1>8, <2>1, <2>2
<1>. QED BY <1>10, <1>11, <1>12, <1>13, <1>14, <1>15, <1>16 DEF ChatsInv

\* An ingest is remembered, whichever of those under way comes last.
LEMMA ChatsRemember ==
  ASSUME TypeInv, ChatsInv, NEW s \in Slot, At(s, "enqueued"), Remember(s)
  PROVE  ChatsInv'
<1>. USE DEF store, outbox
<1>. DEFINE d == flight[s].alert
<1>0. TypeOK BY DEF TypeInv
<1>1. Flying(s) /\ d \in Alert /\ KeyOf[d] \in Key /\ EventAt[d] \in Nat
  BY <1>0, SlotTypes DEF At
<1>2. /\ \A r \in Slot \ {s} : flight'[r] = flight[r]
      /\ ~Flying(s)' /\ ~At(s, "enqueueing")' /\ ~At(s, "enqueued")'
  BY <1>0 DEF Remember, Leaves, At, Flying, TypeOK
<1>3. /\ delivered'[KeyOf[d]].event = EventAt[d]
      /\ \A q \in Key \ {KeyOf[d]} : delivered'[q] = delivered[q]
      /\ now' = now /\ up' = up /\ rows' = rows /\ copies' = copies
  BY <1>0, <1>1 DEF Remember, RememberDelivered, DeliveredBy, TypeOK
<1>4. FlightIsShort' BY <1>0, <1>2, <1>3, StillShort DEF ChatsInv
<1>5. NothingBeforeStart' BY <1>1, <1>3 DEF ChatsInv, NothingBeforeStart
<1>6. RowsKeep BY <1>3, SameRowsKeep
<1>7. now \in Nat /\ now < EventAt[d] + Window
  <2>1. now <= flight[s].since + MaxFlight /\ flight[s].since \in Nat
    BY <1>0, <1>1, SinceTypes DEF ChatsInv
  <2>2. flight[s].since + MaxFlight < EventAt[d] + Window BY DEF ChatsInv, EnqueuedIsPrompt
  <2>3. now \in Nat /\ MaxFlight \in Nat /\ Window \in Nat BY <1>0, <1>1, EventTypes DEF TypeOK
  <2>. QED BY <1>1, <2>1, <2>2, <2>3
<1>. HIDE DEF d
<1>8. NotifiedIsCovered'
  <2>. SUFFICES ASSUME NEW a \in Alert, NEW c \in Chat, Notified(a, c)
                PROVE  \/ \E e \in Alert : Covers(e, a) /\ delivered'[KeyOf[a]].event = EventAt[e]
                       \/ \E r \in Slot : /\ At(r, "enqueued")' /\ flight'[r].alert = a
                                          /\ TakenSince(KeyOf[a], c, flight[r].since)'
    BY <1>3 DEF NotifiedIsCovered, Notified, Covers, SameEvent, Later
  <2>1. CASE KeyOf[a] = KeyOf[d]
    <3>1. Covers(d, a) BY <1>1, <1>7, <2>1, PromptCovers DEF ChatsInv, NotifiedHasHappened
    <3>. QED BY <1>1, <1>3, <2>1, <3>1
  <2>2. CASE KeyOf[a] # KeyOf[d]
    <3>1. delivered'[KeyOf[a]] = delivered[KeyOf[a]] BY <1>3, <2>2, EventTypes
    <3>2. ASSUME NEW r \in Slot, At(r, "enqueued"), flight[r].alert = a,
                 TakenSince(KeyOf[a], c, flight[r].since)
          PROVE  /\ At(r, "enqueued")' /\ flight'[r].alert = a
                 /\ TakenSince(KeyOf[a], c, flight[r].since)'
      <4>1. flight'[r] = flight[r] BY <1>2, <2>2, <3>2 DEF d
      <4>. QED BY <1>3, <3>2, <4>1 DEF At, Flying, TakenSince
    <3>. QED BY <3>1, <3>2 DEF ChatsInv, NotifiedIsCovered
  <2>. QED BY <2>1, <2>2
<1>. QED BY <1>0, <1>2, <1>3, <1>4, <1>5, <1>6, <1>8, ChatsFrame DEF SlotMovesOn

LEMMA SlotStepKeepsChats ==
  ASSUME Careful, WavesApart, TypeInv, ChatsInv, NothingFromTheFuture, Prompt,
         NEW s \in Slot, SlotStep(s)
  PROVE  ChatsInv'
<1>. USE DEF store, outbox
<1>0. TypeOK BY DEF TypeInv
<1>00. ASSUME NEW kind, Rare(kind) PROVE kind = "refused" \/ kind = "mute"
  BY <1>00 DEF Rare, Careful
<1>1. ASSUME NEW a \in Alert, IngestPushed(s, a) PROVE ChatsInv'
  BY <1>0, <1>1, ChatsEnter DEF IngestPushed
<1>2. CASE Enqueue(s)
  BY <1>2, ChatsEnqueue
<1>3. ASSUME At(s, "enqueueing") \/ At(s, "recording") \/ At(s, "passed") \/ At(s, "skipped"),
             Leaves(s) \/ GoesTo(s, "passed"),
             UNCHANGED <<now, up, delivered, outbox>>
      PROVE  ChatsInv'
  <2>1. Flying(s) /\ ~At(s, "enqueued") BY <1>3 DEF At
  <2>2. flight[s] \in Ingest BY <1>0, <2>1, SlotTypes
  <2>3. /\ \A r \in Slot \ {s} : flight'[r] = flight[r]
        /\ ~At(s, "enqueueing")' /\ ~At(s, "enqueued")'
        /\ Flying(s)' => flight'[s].since = flight[s].since
    BY <1>0, <1>3, <2>2 DEF Leaves, GoesTo, At, Flying, TypeOK, Ingest
  <2>4. RowsKeep BY <1>3, SameRowsKeep
  <2>5. FlightIsShort' BY <1>0, <1>3, <2>1, <2>3, StillShort DEF ChatsInv
  <2>6. NotifiedIsCovered' BY <1>0, <1>3, <2>1, <2>3, <2>4, SameCover
  <2>7. NothingBeforeStart' BY <1>3, <2>1 DEF ChatsInv, NothingBeforeStart
  <2>. QED BY <1>0, <1>3, <2>3, <2>4, <2>5, <2>6, <2>7, ChatsFrame DEF SlotMovesOn
<1>4. CASE EnqueueRefused(s)
  BY <1>3, <1>4 DEF EnqueueRefused, Abort
<1>5. CASE RecordDuplicate(s)
  BY <1>3, <1>5 DEF RecordDuplicate
<1>6. CASE RecordFails(s)
  BY <1>3, <1>6 DEF RecordFails, Abort
<1>7. CASE Pass(s)
  BY <1>3, <1>7 DEF Pass
<1>8. CASE Remember(s)
  <2>1. CASE At(s, "skipped")
    <3>1. ~At(s, "enqueued") BY <2>1 DEF At
    <3>. QED BY <1>3, <1>8, <2>1, <3>1 DEF Remember
  <2>2. CASE At(s, "enqueued")
    BY <1>8, <2>2, ChatsRemember
  <2>. QED BY <1>8, <2>1, <2>2 DEF Remember
<1>9. ~EnqueueLost(s) /\ ~RememberFails(s) /\ ~CrashInWrite(s)
  BY <1>00 DEF EnqueueLost, Unanswered, RememberFails, CrashInWrite
<1>. QED BY <1>1, <1>2, <1>4, <1>5, <1>6, <1>7, <1>8, <1>9 DEF SlotStep, IngestStep

LEMMA PollerStepKeepsChats ==
  ASSUME Careful, WavesApart, TypeInv, ChatsInv, PollerStep
  PROVE  ChatsInv'
<1>. USE DEF store, outbox
<1>0. TypeOK BY DEF TypeInv
<1>00. ASSUME NEW kind, Rare(kind) PROVE kind = "refused" \/ kind = "mute"
  BY <1>00 DEF Rare, Careful
<1>000. ASSUME UNCHANGED <<now, up, flight, delivered, rows, copies>> PROVE ChatsInv'
  BY <1>0, <1>000, SameRowsKeep, ChatsSameFlight
<1>1. CASE IngestPolled
  <2>1. tail \in Seq(Fetched) /\ tail # <<>> /\ Head(tail) \in Fetched
    BY <1>0, <1>1 DEF IngestPolled, TypeOK
  <2>2. PICK a \in Head(tail).alerts : Enter(Poll, a) BY <1>1 DEF IngestPolled
  <2>3. a \in Alert BY <2>1, <2>2 DEF Fetched
  <2>. QED BY <1>0, <1>1, <2>2, <2>3, ChatsEnter DEF IngestPolled, Slot
<1>2. CASE PollEnds
  BY <1>000, <1>2 DEF PollEnds
<1>3. CASE SetDelivery
  BY <1>000, <1>3 DEF SetDelivery
<1>4. ~Crash BY <1>00 DEF Crash
<1>5. ASSUME NEW src \in Polled, NEW L \in SUBSET Alert, Fetch(src, L) PROVE ChatsInv'
  BY <1>000, <1>5 DEF Fetch
<1>6. ASSUME NEW L \in SUBSET Alert, Start(L) PROVE ChatsInv'
  <2>1. \A s \in Slot : ~Flying(s)'
    BY <1>6 DEF Start, Seeds, ChatsInv, NothingBeforeStart, Flying
  <2>2. copies' = copies /\ up' BY <1>6 DEF Start, Seeds
  <2>3. \A a \in Alert, c \in Chat : ~Notified(a, c)'
    BY <1>6, <2>2 DEF Start, Seeds, ChatsInv, NothingBeforeStart, Notified
  <2>4. OncePerEvent' BY <2>2 DEF ChatsInv, OncePerEvent, SameEvent
  <2>5. FlightIsShort' /\ LetThroughIsLater' /\ EnqueuedIsPrompt'
    BY <2>1 DEF FlightIsShort, LetThroughIsLater, EnqueuedIsPrompt, At
  <2>6. NotifiedHasHappened' /\ NotifiedIsCovered'
    BY <2>3 DEF NotifiedHasHappened, NotifiedIsCovered
  <2>7. NothingBeforeStart' BY <2>2 DEF NothingBeforeStart
  <2>. QED BY <2>4, <2>5, <2>6, <2>7 DEF ChatsInv
<1>7. ASSUME NEW L \in SUBSET Alert PROVE ~StartUnwritable(L)
  BY <1>00 DEF StartUnwritable
<1>. QED BY <1>1, <1>2, <1>3, <1>4, <1>5, <1>6, <1>7 DEF PollerStep

LEMMA WorldStepKeepsChats ==
  ASSUME TypeInv, ChatsInv, WorldStep
  PROVE  ChatsInv'
<1>. USE DEF store, outbox
<1>0. TypeOK BY DEF TypeInv
<1>1. CASE Work
  BY <1>0, <1>1, WorkKeepsRows, ChatsSameFlight DEF Work
<1>2. CASE Tick
  <2>1. /\ now \in Nat /\ now' = now + 1 /\ rows' = rows
        /\ UNCHANGED <<up, flight, delivered, copies>>
    BY <1>0, <1>2 DEF Tick, Passes, TypeOK
  <2>2. \A a \in Alert, c \in Chat : Notified(a, c)' <=> Notified(a, c)
    BY <2>1 DEF Notified
  <2>3. RowsKeep BY <2>1, SameRowsKeep
  <2>4. OncePerEvent' BY <2>1 DEF ChatsInv, OncePerEvent, SameEvent
  <2>5. FlightIsShort'
    <3>1. ASSUME NEW s \in Slot, Flying(s) PROVE flight[s].since <= now + 1 /\ now + 1 <= flight[s].since + MaxFlight
      <4>1. flight[s].since \in Nat /\ flight[s].since <= now
        BY <1>0, <3>1, SinceTypes DEF ChatsInv
      <4>2. now - flight[s].since < MaxFlight /\ MaxFlight \in Nat
        BY <1>2, <3>1, PipelineAssumption DEF Tick, Passes
      <4>. QED BY <2>1, <4>1, <4>2
    <3>. QED BY <2>1, <3>1 DEF FlightIsShort, Flying
  <2>6. NothingBeforeStart' BY <2>1 DEF ChatsInv, NothingBeforeStart, Notified, Flying
  <2>7. LetThroughIsLater' BY <1>0, <2>1, <2>3, LetThroughFrame DEF ChatsInv, SlotMovesOn
  <2>8. NotifiedHasHappened'
    <3>1. ASSUME NEW a \in Alert, EventAt[a] <= now PROVE EventAt[a] <= now + 1
      BY <2>1, <3>1, EventTypes
    <3>. QED BY <2>1, <2>2, <3>1 DEF ChatsInv, NotifiedHasHappened
  <2>9. EnqueuedIsPrompt' BY <2>1 DEF ChatsInv, EnqueuedIsPrompt, At, Flying
  <2>10. NotifiedIsCovered' BY <1>0, <2>1, <2>3, SameCover
  <2>. QED BY <2>4, <2>5, <2>6, <2>7, <2>8, <2>9, <2>10 DEF ChatsInv
<1>. QED BY <1>1, <1>2 DEF WorldStep

LEMMA ChatsInit == ASSUME Init PROVE ChatsInv
<1>1. OncePerEvent /\ FlightIsShort /\ NothingBeforeStart /\ LetThroughIsLater
  BY OnceInit DEF OnceInv
<1>2. \A s \in Slot : ~Flying(s) BY DEF Init, Flying
<1>3. \A a \in Alert, c \in Chat : ~Notified(a, c) BY DEF Init, Notified
<1>4. EnqueuedIsPrompt BY <1>2 DEF EnqueuedIsPrompt, At
<1>5. NotifiedHasHappened /\ NotifiedIsCovered
  BY <1>3 DEF NotifiedHasHappened, NotifiedIsCovered
<1>. QED BY <1>1, <1>4, <1>5 DEF ChatsInv

LEMMA ChatsStep ==
  ASSUME Careful, WavesApart
  PROVE  TypeInv /\ ToldInv /\ Prompt /\ ChatsInv /\ [Next]_vars => ChatsInv'
<1>1. ASSUME TypeInv, ChatsInv, UNCHANGED vars PROVE ChatsInv'
  BY <1>1, SameRowsKeep, ChatsSameFlight DEF vars, store, outbox, TypeInv
<1>. QED BY <1>1, SlotStepKeepsChats, PollerStepKeepsChats, WorldStepKeepsChats DEF Next, ToldInv

\* The same for any number of chats, each of which may have its row settled at another time,
\* so that two ingests at once may each get some: as long as waves with one text are apart
\* and what is let through has happened less than a window ago.
THEOREM PipelineEnqueuesOncePerChat ==
  ASSUME Careful, WavesApart
  PROVE  Spec /\ []Prompt => []OncePerEvent
<1>1. Init => ChatsInv BY ChatsInit
<1>2. TypeInv /\ ToldInv /\ Prompt /\ ChatsInv /\ [Next]_vars => ChatsInv' BY ChatsStep
<1>3. ChatsInv => OncePerEvent BY DEF ChatsInv
<1>. QED BY <1>1, <1>2, <1>3, ToldAlways, PTL DEF Spec
=============================================================================
