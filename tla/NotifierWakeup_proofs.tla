----------------------- MODULE NotifierWakeup_proofs -----------------------
(* A notifier worker's loop neither stalls nor forgets a wake-up, its supervisor is never  *)
(* stranded, and rows announced to a connection that lasts are looked up at once, for      *)
(* every batch and bound and any number of clients.                                        *)
EXTENDS NotifierWakeup, TLAPS

-----------------------------------------------------------------------------
(* The loop *)

\* Where a wake-up that was not yet served is remembered: the timer while the loop
\* is idle, the flag once the tick in flight is past its reserve.
WakeupPlace ==
  owed /\ ~halted =>
    IF InFlight THEN stage \in {"heartbeat", "recover", "reserve"} \/ immediate
                ELSE timer = "now"

LoopInv == TypeOK /\ waiting <= came /\ NeverStalls /\ WakeupPlace

Flags ==
  /\ mode \in {"down", "init", "started"} /\ stage \in Stages
  /\ immediate \in BOOLEAN /\ timer \in {"none", "now", "poll"}
  /\ heartbeatDue \in BOOLEAN /\ refreshDue \in BOOLEAN
  /\ halted \in BOOLEAN /\ owed \in BOOLEAN

Counters ==
  waiting \in 0..MaxWaiting /\ came \in 0..MaxWaiting /\ faults \in 0..MaxFaults /\ waiting <= came

LEMMA TypeParts == TypeOK /\ waiting <= came <=> Flags /\ Counters
BY DEF TypeOK, Flags, Counters

LEMMA LoopInit == Init => LoopInv
<1>. SUFFICES ASSUME Init PROVE LoopInv
  OBVIOUS
<1>1. Counters
  BY LoopAssumption DEF Init, Counters
<1>2. Flags /\ NeverStalls /\ WakeupPlace
  BY DEF Init, Flags, Stages, NeverStalls, WakeupPlace
<1>. QED BY <1>1, <1>2, TypeParts DEF LoopInv

LEMMA FlagsStay == Flags /\ [Next]_vars => Flags'
<1>. SUFFICES ASSUME Flags, [Next]_vars PROVE Flags'
  OBVIOUS
<1>. USE DEF Flags, Stages
<1>1. CASE Start \/ TimerFires
  BY <1>1 DEF Start, TimerFires
<1>2. CASE Heartbeat \/ Recover \/ Refresh \/ Reserve
  BY <1>2 DEF Heartbeat, Recover, Refresh, Reserve
<1>3. CASE NothingReserved \/ ReportRefresh \/ Processed
  BY <1>3 DEF NothingReserved, ReportRefresh, Processed, Finally
<1>4. CASE Stop \/ RequestImmediateTick
  BY <1>4 DEF Stop, RequestImmediateTick
<1>5. CASE Boot \/ Crash
  BY <1>5 DEF Boot, Crash, Fresh
<1>6. CASE ComeDue \/ PeriodEnds
  BY <1>6 DEF ComeDue, PeriodEnds
<1>7. CASE UNCHANGED vars
  BY <1>7 DEF vars
<1>. QED BY <1>1, <1>2, <1>3, <1>4, <1>5, <1>6, <1>7 DEF Next, LoopStep, TickStep

LEMMA CountersStay == Counters /\ [Next]_vars => Counters'
<1>. SUFFICES ASSUME Counters, [Next]_vars PROVE Counters'
  OBVIOUS
<1>1. ASSUME UNCHANGED <<waiting, came, faults>> PROVE Counters'
  BY <1>1 DEF Counters
<1>2. CASE Start \/ TimerFires \/ Stop \/ RequestImmediateTick \/ Boot \/ PeriodEnds
  BY <1>1, <1>2 DEF Start, TimerFires, Stop, RequestImmediateTick, Boot, PeriodEnds
<1>3. CASE Heartbeat \/ Recover \/ NothingReserved \/ Refresh \/ ReportRefresh \/ Processed
  BY <1>1, <1>3 DEF Heartbeat, Recover, NothingReserved, Refresh, ReportRefresh, Processed
<1>4. CASE Reserve
  <2>1. waiting' = waiting - Taken /\ came' = came /\ faults' = faults
    BY <1>4 DEF Reserve
  <2>2. Taken \in 0..waiting
    BY LoopAssumption DEF Counters, Taken
  <2>. QED BY <2>1, <2>2, LoopAssumption DEF Counters
<1>5. CASE Crash
  <2>1. faults < MaxFaults /\ faults' = faults + 1 /\ waiting' = waiting /\ came' = came
    BY <1>5 DEF Crash
  <2>. QED BY <2>1, LoopAssumption DEF Counters
<1>6. CASE ComeDue
  <2>1. /\ came < MaxWaiting /\ came' = came + 1 /\ waiting' = waiting + 1
        /\ faults' = faults
    BY <1>6 DEF ComeDue
  <2>. QED BY <2>1, LoopAssumption DEF Counters
<1>7. CASE UNCHANGED vars
  BY <1>1, <1>7 DEF vars
<1>. QED BY <1>2, <1>3, <1>4, <1>5, <1>6, <1>7 DEF Next, LoopStep, TickStep

LEMMA LoopTypes == TypeOK /\ waiting <= came /\ [Next]_vars => TypeOK' /\ (waiting <= came)'
<1>1. TypeOK' /\ (waiting <= came)' <=> Flags' /\ Counters'
  BY DEF TypeOK, Flags, Counters
<1>. QED BY <1>1, TypeParts, FlagsStay, CountersStay

LEMMA LoopGoesOn ==
  ASSUME TypeOK, NeverStalls, WakeupPlace, [Next]_vars
  PROVE  NeverStalls' /\ WakeupPlace'
<1>. USE DEF NeverStalls, WakeupPlace, InFlight, TypeOK, Stages
<1>1. CASE LoopStep
  <2>1. CASE Start
    BY <2>1 DEF Start
  <2>2. CASE TimerFires
    BY <2>2 DEF TimerFires
  <2>3. CASE Heartbeat \/ Recover \/ Refresh
    BY <2>3 DEF Heartbeat, Recover, Refresh
  <2>4. CASE Reserve
    BY <2>4 DEF Reserve
  <2>5. CASE NothingReserved \/ ReportRefresh \/ Processed
    BY <2>5 DEF NothingReserved, ReportRefresh, Processed, Finally
  <2>. QED BY <1>1, <2>1, <2>2, <2>3, <2>4, <2>5 DEF LoopStep, TickStep
<1>2. CASE Stop
  BY <1>2 DEF Stop
<1>3. CASE RequestImmediateTick
  BY <1>3 DEF RequestImmediateTick
<1>4. CASE Boot \/ Crash
  BY <1>4 DEF Boot, Crash, Fresh
<1>5. CASE ComeDue \/ PeriodEnds
  BY <1>5 DEF ComeDue, PeriodEnds
<1>6. CASE UNCHANGED vars
  BY <1>6 DEF vars
<1>. QED BY <1>1, <1>2, <1>3, <1>4, <1>5, <1>6 DEF Next

LEMMA LoopInvariant == Spec => []LoopInv
<1>1. LoopInv /\ [Next]_vars => LoopInv'
  BY LoopTypes, LoopGoesOn DEF LoopInv
<1>. QED BY LoopInit, <1>1, PTL DEF Spec

-----------------------------------------------------------------------------
(* The supervisor *)

LEMMA ListenerStarts == ListenerInit => ListenerTypeOK /\ ListenerInv
<1>. SUFFICES ASSUME ListenerInit PROVE ListenerTypeOK /\ ListenerInv
  OBVIOUS
<1>. USE ListenerAssumption DEF ListenerInit
<1>1. Client \subseteq Nat \ {0} /\ None \notin Client /\ 0 \in 0..MaxClients
  BY DEF Client, None
<1>2. Unused \in ClientState
  BY DEF Unused, ClientState
<1>3. ListenerTypeOK
  <2>1. client \in [Client -> ClientState]
    BY <1>2
  <2>2. \A c \in Client : ~client[c].handlers
    BY DEF Unused
  <2>. QED BY <1>1, <2>1, <2>2 DEF ListenerTypeOK
<1>4. ASSUME NEW c \in Client PROVE ClientShape(c)
  BY <1>1 DEF ClientShape, Unused, Linking
<1>5. OneReason
  BY DEF OneReason, LiveCurrent, Retrying, Unused
<1>6. NeverStranded
  BY DEF NeverStranded
<1>. QED BY <1>3, <1>4, <1>5, <1>6 DEF ListenerInv

LEMMA ListenerTypes == ListenerTypeOK /\ [ListenerNext]_listenerVars => ListenerTypeOK'
<1>. SUFFICES ASSUME ListenerTypeOK, [ListenerNext]_listenerVars PROVE ListenerTypeOK'
  OBVIOUS
<1>. USE ListenerAssumption DEF ListenerTypeOK, Client, None
<1>1. CASE StartListener
  BY <1>1 DEF StartListener
<1>2. CASE ReconnectFires
  BY <1>2 DEF ReconnectFires
<1>3. CASE StopListener
  BY <1>3 DEF StopListener, Closing, ClientState
<1>4. CASE ConnectFails
  BY <1>4 DEF ConnectFails, ScheduleReconnect
<1>5. CASE Acquire
  BY <1>5 DEF Acquire, ClientState
<1>6. ASSUME NEW c \in Client, ClientStep(c) PROVE ListenerTypeOK'
  <2>1. CASE ListenAnswered(c)
    BY <2>1 DEF ListenAnswered, ClientState
  <2>2. CASE ListenContinues(c)
    BY <2>2 DEF ListenContinues, ClientState
  <2>3. CASE ListenFails(c)
    BY <2>3 DEF ListenFails, ScheduleReconnect, ClientState
  <2>4. CASE Breaks(c)
    <3>1. CASE Handles(c) /\ client[c].at = "held"
      BY <2>4, <3>1 DEF Breaks, Handles, ClientState
    <3>2. CASE Handles(c) /\ client[c].at # "held"
      <4>1. client[c].at \in {"listen", "answered"} /\ client[c].handlers
        BY <2>4, <3>2 DEF Breaks, Handles
      <4>2. client' = [client EXCEPT ![c] = [at |-> client[c].at, alive |-> FALSE,
                                             handlers |-> TRUE, disconnecting |-> TRUE]]
        BY <2>4, <3>2, <4>1 DEF Breaks, Handles, ClientState
      <4>3. client' \in [Client -> ClientState]
        BY <4>1, <4>2 DEF ClientState
      <4>4. \A d \in Client : client'[d].handlers => client'[d].at \in {"listen", "answered", "held"}
        BY <4>1, <4>2
      <4>5. current' \in Client \cup {None} /\ reconnect' \in BOOLEAN
        BY <2>4, <3>2 DEF Breaks, ScheduleReconnect
      <4>6. started' \in BOOLEAN /\ stopped' \in BOOLEAN /\ connecting' \in BOOLEAN
            /\ active' \in 0..MaxClients
        BY <2>4 DEF Breaks
      <4>. QED BY <4>3, <4>4, <4>5, <4>6
    <3>3. CASE ~Handles(c)
      <4>1. /\ client' = [client EXCEPT ![c].alive = FALSE]
            /\ UNCHANGED <<started, stopped, connecting, reconnect, current, active>>
        BY <2>4, <3>3 DEF Breaks
      <4>. QED BY <4>1 DEF ClientState
    <3>. QED BY <3>1, <3>2, <3>3
  <2>5. CASE Release(c)
    BY <2>5 DEF Release, ScheduleReconnect, ClientState
  <2>. QED BY <1>6, <2>1, <2>2, <2>3, <2>4, <2>5 DEF ClientStep
<1>7. CASE ProcessEnds
  <2>1. Unused \in ClientState /\ ~Unused.handlers
    BY DEF Unused, ClientState
  <2>2. client' = [c \in Client |-> Unused] /\ 0 \in 0..MaxClients
    BY <1>7 DEF ProcessEnds
  <2>3. client' \in [Client -> ClientState] /\ \A c \in Client : ~client'[c].handlers
    BY <2>1, <2>2
  <2>. QED BY <1>7, <2>2, <2>3 DEF ProcessEnds
<1>8. CASE UNCHANGED listenerVars
  BY <1>8 DEF listenerVars
<1>. QED BY <1>1, <1>2, <1>3, <1>4, <1>5, <1>6, <1>7, <1>8 DEF ListenerNext

LEMMA ListenerStep ==
  ASSUME ListenerTypeOK, ListenerTypeOK', ListenerInv, [ListenerNext]_listenerVars
  PROVE  ListenerInv'
<1>. USE DEF ListenerInv, ClientShape, OneReason, NeverStranded, LiveCurrent, Linking,
            Retrying, None, ListenerTypeOK, Client, ClientState
<1>1. CASE StartListener
  BY <1>1 DEF StartListener
<1>2. CASE ReconnectFires
  BY <1>2 DEF ReconnectFires, Settled
<1>3. CASE StopListener
  BY <1>3 DEF StopListener, Closing, Settled
<1>4. CASE ConnectFails
  BY <1>4 DEF ConnectFails, ScheduleReconnect, Settled
<1>5. CASE Acquire
  BY <1>5 DEF Acquire, Settled
<1>6. ASSUME NEW c \in Client, ClientStep(c) PROVE ListenerInv'
  <2>1. CASE ListenAnswered(c)
    BY <2>1 DEF ListenAnswered, Settled
  <2>2. CASE ListenContinues(c)
    BY <2>2 DEF ListenContinues
  <2>3. CASE ListenFails(c)
    BY <2>3 DEF ListenFails, ScheduleReconnect, Settled
  <2>4. CASE Breaks(c)
    BY <2>4 DEF Breaks, ScheduleReconnect, Settled, Handles
  <2>5. CASE Release(c)
    BY <2>5 DEF Release, ScheduleReconnect, Settled
  <2>. QED BY <1>6, <2>1, <2>2, <2>3, <2>4, <2>5 DEF ClientStep
<1>7. CASE ProcessEnds
  BY <1>7 DEF ProcessEnds, Unused
<1>8. CASE UNCHANGED listenerVars
  BY <1>8 DEF listenerVars
<1>. QED BY <1>1, <1>2, <1>3, <1>4, <1>5, <1>6, <1>7, <1>8 DEF ListenerNext

LEMMA ListenerInvariant == ListenerSpec => [](ListenerTypeOK /\ ListenerInv)
<1>1. ListenerTypeOK /\ ListenerInv /\ [ListenerNext]_listenerVars => (ListenerTypeOK /\ ListenerInv)'
  BY ListenerTypes, ListenerStep
<1>. QED BY ListenerStarts, <1>1, PTL DEF ListenerSpec

LEMMA NotStranded == ListenerSpec => []NeverStranded
<1>1. ListenerTypeOK /\ ListenerInv => NeverStranded
  BY DEF ListenerInv
<1>. QED BY ListenerInvariant, <1>1, PTL

LEMMA HeldStep ==
  ASSUME ListenerTypeOK, ListenerTypeOK', ListenerInv, HeldIsCurrent, [ListenerNext]_listenerVars
  PROVE  HeldIsCurrent'
<1>. USE DEF HeldIsCurrent, NoClientLeak, ListenerInv, ClientShape, OneReason, LiveCurrent,
            Linking, Retrying, None, ListenerTypeOK, Client, ClientState
<1>1. CASE StartListener
  BY <1>1 DEF StartListener
<1>2. CASE ReconnectFires
  BY <1>2 DEF ReconnectFires, Settled
<1>3. CASE StopListener
  BY <1>3 DEF StopListener, Closing, Settled
<1>4. CASE ConnectFails
  BY <1>4 DEF ConnectFails, ScheduleReconnect, Settled
<1>5. CASE Acquire
  BY <1>5 DEF Acquire, Settled
<1>6. ASSUME NEW c \in Client, ClientStep(c) PROVE HeldIsCurrent'
  <2>1. CASE ListenAnswered(c)
    BY <2>1 DEF ListenAnswered, Settled
  <2>2. CASE ListenContinues(c)
    BY <2>2 DEF ListenContinues
  <2>3. CASE ListenFails(c)
    BY <2>3 DEF ListenFails, ScheduleReconnect, Settled
  <2>4. CASE Breaks(c)
    BY <2>4 DEF Breaks, ScheduleReconnect, Settled, Handles
  <2>5. CASE Release(c)
    BY <2>5 DEF Release, ScheduleReconnect, Settled
  <2>. QED BY <1>6, <2>1, <2>2, <2>3, <2>4, <2>5 DEF ClientStep
<1>7. CASE ProcessEnds
  BY <1>7 DEF ProcessEnds, Unused
<1>8. CASE UNCHANGED listenerVars
  BY <1>8 DEF listenerVars
<1>. QED BY <1>1, <1>2, <1>3, <1>4, <1>5, <1>6, <1>7, <1>8 DEF ListenerNext

LEMMA HeldInvariant == ListenerSpec => []HeldIsCurrent
<1>1. ListenerInit => HeldIsCurrent
  <2>. SUFFICES ASSUME ListenerInit PROVE HeldIsCurrent
    OBVIOUS
  <2>1. \A c \in Client : client[c].at = "unused"
    BY DEF ListenerInit, Unused
  <2>. QED BY <2>1 DEF HeldIsCurrent, NoClientLeak, Retrying, Linking
<1>2. ListenerTypeOK /\ ListenerInv /\ (ListenerTypeOK /\ ListenerInv)' /\ HeldIsCurrent /\ [ListenerNext]_listenerVars
      => HeldIsCurrent'
  BY HeldStep
<1>. QED BY <1>1, <1>2, ListenerInvariant, PTL DEF ListenerSpec

LEMMA NoneLeaks == ListenerSpec => []NoClientLeak
<1>1. HeldIsCurrent => NoClientLeak
  BY DEF HeldIsCurrent
<1>. QED BY HeldInvariant, <1>1, PTL

LEMMA AnswersStep ==
  ASSUME ~BreakOnAnswer, ListenerTypeOK, ListenerTypeOK', ListenerInv, AnswersHold, [ListenerNext]_listenerVars
  PROVE  AnswersHold'
<1>. USE DEF AnswersHold, ListenerInv, ClientShape, OneReason, LiveCurrent,
            Linking, Retrying, None, ListenerTypeOK, Client, ClientState
<1>1. CASE StartListener
  BY <1>1 DEF StartListener
<1>2. CASE ReconnectFires
  BY <1>2 DEF ReconnectFires, Settled
<1>3. CASE StopListener
  BY <1>3 DEF StopListener, Closing, Settled
<1>4. CASE ConnectFails
  BY <1>4 DEF ConnectFails, ScheduleReconnect, Settled
<1>5. CASE Acquire
  BY <1>5 DEF Acquire, Settled
<1>6. ASSUME NEW c \in Client, ClientStep(c) PROVE AnswersHold'
  <2>1. CASE ListenAnswered(c)
    BY <2>1 DEF ListenAnswered, Settled
  <2>2. CASE ListenContinues(c)
    BY <2>2 DEF ListenContinues
  <2>3. CASE ListenFails(c)
    BY <2>3 DEF ListenFails, ScheduleReconnect, Settled
  <2>4. CASE Breaks(c)
    BY <2>4 DEF Breaks, ScheduleReconnect, Settled, Handles
  <2>5. CASE Release(c)
    BY <2>5 DEF Release, ScheduleReconnect, Settled
  <2>. QED BY <1>6, <2>1, <2>2, <2>3, <2>4, <2>5 DEF ClientStep
<1>7. CASE ProcessEnds
  BY <1>7 DEF ProcessEnds, Unused
<1>8. CASE UNCHANGED listenerVars
  BY <1>8 DEF listenerVars
<1>. QED BY <1>1, <1>2, <1>3, <1>4, <1>5, <1>6, <1>7, <1>8 DEF ListenerNext

LEMMA LosesNothing ==
  ASSUME ~BreakOnAnswer
  PROVE  ListenerSpec => [](\A c \in Client : client[c].at = "held" => c = current)
<1>1. ListenerInit => AnswersHold
  <2>. SUFFICES ASSUME ListenerInit PROVE AnswersHold
    OBVIOUS
  <2>1. \A c \in Client : client[c].at = "unused"
    BY DEF ListenerInit, Unused
  <2>. QED BY <2>1 DEF AnswersHold
<1>2. ListenerTypeOK /\ ListenerInv /\ (ListenerTypeOK /\ ListenerInv)' /\ AnswersHold /\ [ListenerNext]_listenerVars
      => AnswersHold'
  BY AnswersStep
<1>3. NoClientLeak /\ AnswersHold => \A c \in Client : client[c].at = "held" => c = current
  BY DEF NoClientLeak, AnswersHold
<1>. QED BY <1>1, <1>2, <1>3, ListenerInvariant, NoneLeaks, PTL DEF ListenerSpec

\* No client is heard next to the one the supervisor holds or to one it is connecting.
OneHeard ==
  \A c \in Client :
    client[c].at = "held" /\ client[c].alive /\ client[c].handlers => c = current /\ ~connecting

LEMMA OneHeardStep ==
  ASSUME ListenerTypeOK, ListenerTypeOK', ListenerInv, OneHeard, [ListenerNext]_listenerVars
  PROVE  OneHeard'
<1>. USE DEF OneHeard, ListenerInv, ClientShape, OneReason, LiveCurrent,
            Linking, Retrying, None, ListenerTypeOK, Client, ClientState
<1>1. CASE StartListener
  BY <1>1 DEF StartListener
<1>2. CASE ReconnectFires
  BY <1>2 DEF ReconnectFires, Settled
<1>3. CASE StopListener
  BY <1>3 DEF StopListener, Closing, Settled
<1>4. CASE ConnectFails
  BY <1>4 DEF ConnectFails, ScheduleReconnect, Settled
<1>5. CASE Acquire
  BY <1>5 DEF Acquire, Settled
<1>6. ASSUME NEW c \in Client, ClientStep(c) PROVE OneHeard'
  <2>1. CASE ListenAnswered(c)
    BY <2>1 DEF ListenAnswered, Settled
  <2>2. CASE ListenContinues(c)
    BY <2>2 DEF ListenContinues
  <2>3. CASE ListenFails(c)
    BY <2>3 DEF ListenFails, ScheduleReconnect, Settled
  <2>4. CASE Breaks(c)
    BY <2>4 DEF Breaks, ScheduleReconnect, Settled, Handles
  <2>5. CASE Release(c)
    BY <2>5 DEF Release, ScheduleReconnect, Settled
  <2>. QED BY <1>6, <2>1, <2>2, <2>3, <2>4, <2>5 DEF ClientStep
<1>7. CASE ProcessEnds
  BY <1>7 DEF ProcessEnds, Unused
<1>8. CASE UNCHANGED listenerVars
  BY <1>8 DEF listenerVars
<1>. QED BY <1>1, <1>2, <1>3, <1>4, <1>5, <1>6, <1>7, <1>8 DEF ListenerNext

LEMMA HearsOnce == ListenerSpec => []OneListener
<1>1. ListenerInit => OneHeard
  <2>. SUFFICES ASSUME ListenerInit PROVE OneHeard
    OBVIOUS
  <2>1. \A c \in Client : client[c].at = "unused"
    BY DEF ListenerInit, Unused
  <2>. QED BY <2>1 DEF OneHeard
<1>2. ListenerTypeOK /\ ListenerInv /\ (ListenerTypeOK /\ ListenerInv)' /\ OneHeard /\ [ListenerNext]_listenerVars
      => OneHeard'
  BY OneHeardStep
<1>3. ListenerTypeOK /\ ListenerInv /\ OneHeard => OneListener
  <2>. SUFFICES ASSUME ListenerTypeOK, ListenerInv, OneHeard, NEW c \in Client, NEW d \in Client,
                       client[c].alive, client[c].handlers, client[d].alive, client[d].handlers
                PROVE  c = d
    BY DEF OneListener
  <2>1. \A e \in {c, d} : Linking(e) \/ client[e].at = "held" BY DEF ListenerTypeOK, Linking
  <2>2. \A e \in {c, d} : Linking(e) => connecting /\ e = active BY DEF ListenerInv, ClientShape
  <2>3. \A e \in {c, d} : client[e].at = "held" => e = current /\ ~connecting BY DEF OneHeard
  <2>. QED BY <2>1, <2>2, <2>3
<1>. QED BY <1>1, <1>2, <1>3, ListenerInvariant, PTL DEF ListenerSpec

-----------------------------------------------------------------------------
(* The process *)

LEMMA ProcessSteps ==
  [WakeupNext]_wakeupVars => [Next]_vars /\ [ListenerNext]_listenerVars
<1>. SUFFICES ASSUME [WakeupNext]_wakeupVars PROVE [Next]_vars /\ [ListenerNext]_listenerVars
  OBVIOUS
<1>1. CASE BootProcess
  BY <1>1 DEF BootProcess, Next
<1>2. CASE Dies
  BY <1>2 DEF Dies, Next, ListenerNext
<1>3. CASE StartSupervisor \/ StopSupervisor \/ Connect \/ Reconnect
  BY <1>3 DEF StartSupervisor, StopSupervisor, Connect, Reconnect, Supervise, ListenerNext
<1>4. CASE Link \/ Unlink
  BY <1>4 DEF Link, Unlink, Supervise, ListenerNext, ClientStep
<1>5. CASE StartLoop \/ StopLoop \/ Time \/ Ticks \/ Periods \/ DelayOver
  BY <1>5 DEF StartLoop, StopLoop, Time, Ticks, Periods, DelayOver, Loop, Next, LoopStep
<1>6. CASE Enqueue
  BY <1>6 DEF Enqueue, Next
<1>7. CASE \E c \in Client : Notified(c)
  BY <1>7 DEF Notified, Next
<1>8. CASE UNCHANGED wakeupVars
  BY <1>8 DEF wakeupVars
<1>. QED BY <1>1, <1>2, <1>3, <1>4, <1>5, <1>6, <1>7, <1>8 DEF WakeupNext, ProcessStep

\* The loop and the supervisor of a process, and the notifications between them, leave
\* each what it is alone: what holds of either holds in the process.
THEOREM ProcessKeepsParts == WakeupSpec => Spec /\ ListenerSpec
<1>1. WakeupInit => Init /\ ListenerInit
  BY DEF WakeupInit
<1>. QED BY <1>1, ProcessSteps, PTL DEF WakeupSpec, Spec, ListenerSpec

\* Once started and until stopped, the loop has a tick in flight or a timer set.
THEOREM LoopNeverStalls == WakeupSpec => []NeverStalls
<1>1. LoopInv => NeverStalls
  BY DEF LoopInv
<1>. QED BY ProcessKeepsParts, LoopInvariant, <1>1, PTL

\* A wake-up at any await of a tick leads to a reserve without a poll interval.
THEOREM LoopKeepsWakeups == WakeupSpec => []WakeupKept
<1>1. LoopInv => WakeupKept
  BY DEF LoopInv, WakeupPlace, WakeupKept
<1>. QED BY ProcessKeepsParts, LoopInvariant, <1>1, PTL

\* A supervisor that was not stopped always holds a live listener or will try again.
THEOREM ListenerNeverStranded == WakeupSpec => []NeverStranded
BY ProcessKeepsParts, NotStranded, PTL

\* No history of breaks, failed connects and stops loses a client of the pool, but for
\* one whose connection breaks between LISTEN's answer and its continuation.
THEOREM ListenerLeaksNoClient == WakeupSpec => []NoClientLeak
BY ProcessKeepsParts, NoneLeaks, PTL

\* And if no connection breaks there, none is ever lost.
THEOREM ListenerLosesNothing ==
  ASSUME ~BreakOnAnswer
  PROVE  WakeupSpec => [](\A c \in Client : client[c].at = "held" => c = current)
BY ProcessKeepsParts, LosesNothing, PTL

\* Through breaks, reconnects and a stop in the middle of a connect, a notification
\* reaches the handlers of one client at most.
THEOREM ListenerHearsOnce == WakeupSpec => []OneListener
BY ProcessKeepsParts, HearsOnce, PTL

-----------------------------------------------------------------------------
(* Announced rows *)

OwnTypeOK == awaited \in BOOLEAN /\ mail \in [Client -> 0..MaxMail] /\ told \subseteq Client

LEMMA OwnTypes ==
  ASSUME OwnTypeOK, ListenerTypeOK, ListenerTypeOK', [WakeupNext]_wakeupVars
  PROVE  OwnTypeOK'
<1>. USE WakeupAssumption DEF OwnTypeOK
<1>1. CASE BootProcess \/ Dies
  <2>1. NoMail \in [Client -> 0..MaxMail]
    BY DEF NoMail
  <2>. QED BY <1>1, <2>1 DEF BootProcess, Dies
<1>2. CASE StartSupervisor \/ StopSupervisor \/ Connect \/ Reconnect \/ Link \/ Unlink
  <2>1. /\ awaited' = (awaited \/ (connecting /\ ~connecting')) /\ told' = told
        /\ mail' = [c \in Client |->
                     IF client'[c].alive /\ client'[c].at # "released" THEN mail[c] ELSE 0]
    BY <1>2 DEF StartSupervisor, StopSupervisor, Connect, Reconnect, Link, Unlink, Supervise
  <2>. QED BY <2>1, ListenerAssumption DEF ListenerTypeOK
<1>3. CASE StartLoop \/ StopLoop \/ Time \/ Ticks \/ Periods \/ DelayOver
  BY <1>3 DEF StartLoop, StopLoop, Time, Ticks, Periods, DelayOver, Loop
<1>4. CASE Enqueue
  <2>1. PICK early \in SUBSET Client :
          mail' = [c \in Client |-> IF Subscribed(c) \/ c \in early THEN mail[c] + 1 ELSE mail[c]]
    BY <1>4 DEF Enqueue
  <2>2. \A c \in Client : mail[c] < MaxMail
    BY <1>4 DEF Enqueue
  <2>3. mail' \in [Client -> 0..MaxMail]
    BY <2>1, <2>2
  <2>4. told' = told \cup {c \in Client : Hears(c)} /\ awaited' = awaited
    BY <1>4 DEF Enqueue
  <2>. QED BY <2>3, <2>4
<1>5. ASSUME NEW c \in Client, Notified(c) PROVE OwnTypeOK'
  BY <1>5 DEF Notified
<1>6. CASE UNCHANGED wakeupVars
  BY <1>6 DEF wakeupVars
<1>. QED
  BY <1>1, <1>2, <1>3, <1>4, <1>5, <1>6 DEF WakeupNext, ProcessStep

\* The loop's own steps never lose sight of a lookup that is near, unless a reserve runs.
LEMMA LookupStays ==
  ASSUME TypeOK, LookupNear, ~halted', Start \/ TimerFires \/ TickStep \/ PeriodEnds \/ ComeDue,
         ~(stage = "reserve" /\ stage' # "reserve")
  PROVE  LookupNear'
<1>. USE DEF LookupNear, InFlight, TypeOK, Stages
<1>1. CASE Start \/ TimerFires
  BY <1>1 DEF Start, TimerFires
<1>2. CASE Heartbeat \/ Recover \/ Reserve \/ Refresh
  BY <1>2 DEF Heartbeat, Recover, Reserve, Refresh
<1>3. CASE NothingReserved \/ ReportRefresh \/ Processed
  BY <1>3 DEF NothingReserved, ReportRefresh, Processed, Finally
<1>4. CASE PeriodEnds \/ ComeDue
  BY <1>4 DEF PeriodEnds, ComeDue
<1>. QED BY <1>1, <1>2, <1>3, <1>4 DEF TickStep

\* A client that has handlers is not yet unused, and was not let go and taken again.
LEMMA HandlersStay ==
  ASSUME ListenerTypeOK, ListenerInv, NEW c \in Client, client[c].at # "unused",
         \/ StartListener \/ StopListener \/ ReconnectFires \/ ConnectFails \/ Acquire
         \/ \E d \in Client : ClientStep(d),
         client'[c].alive, client'[c].handlers
  PROVE  client[c].alive /\ client[c].handlers
<1>. USE DEF ListenerTypeOK, ClientState
<1>1. CASE StartListener \/ ReconnectFires \/ ConnectFails
  BY <1>1 DEF StartListener, ReconnectFires, ConnectFails
<1>2. CASE StopListener
  BY <1>2 DEF StopListener, Closing
<1>3. CASE Acquire
  BY <1>3 DEF Acquire, ListenerInv, ClientShape, Client
<1>4. ASSUME NEW d \in Client, ClientStep(d) PROVE client[c].alive /\ client[c].handlers
  <2>1. CASE ListenAnswered(d) \/ ListenContinues(d) \/ ListenFails(d) \/ Release(d)
    BY <2>1 DEF ListenAnswered, ListenContinues, ListenFails, Release
  <2>2. CASE Breaks(d) /\ Handles(d)
    BY <2>2 DEF Breaks
  <2>3. CASE Breaks(d) /\ ~Handles(d)
    BY <2>3 DEF Breaks
  <2>. QED BY <1>4, <2>1, <2>2, <2>3 DEF ClientStep
<1>. QED BY <1>1, <1>2, <1>3, <1>4

LEMMA UsedStays ==
  ASSUME ListenerTypeOK, NEW c \in Client, client[c].at # "unused",
         \/ StartListener \/ StopListener \/ ReconnectFires \/ ConnectFails \/ Acquire
         \/ \E d \in Client : ClientStep(d)
  PROVE  client'[c].at # "unused"
<1>. USE DEF ListenerTypeOK, ClientState
<1>1. CASE StartListener \/ ReconnectFires \/ ConnectFails
  BY <1>1 DEF StartListener, ReconnectFires, ConnectFails
<1>2. CASE StopListener \/ Acquire
  BY <1>2 DEF StopListener, Closing, Acquire
<1>3. ASSUME NEW d \in Client, ClientStep(d) PROVE client'[c].at # "unused"
  <2>1. CASE ListenAnswered(d) \/ ListenContinues(d) \/ ListenFails(d) \/ Release(d)
    BY <2>1 DEF ListenAnswered, ListenContinues, ListenFails, Release
  <2>2. CASE Breaks(d) /\ Handles(d)
    BY <2>2 DEF Breaks
  <2>3. CASE Breaks(d) /\ ~Handles(d)
    BY <2>3 DEF Breaks
  <2>. QED BY <1>3, <2>1, <2>2, <2>3 DEF ClientStep
<1>. QED BY <1>1, <1>2, <1>3

LEMMA ToldStep ==
  ASSUME TypeOK, ListenerTypeOK, ListenerTypeOK', ListenerInv, OwnTypeOK, OwnTypeOK', ToldInv,
         [WakeupNext]_wakeupVars
  PROVE  ToldInv'
<1>1. CASE BootProcess
  <2>1. mode = "down" /\ mode' = "init" /\ told' = told
    BY <1>1 DEF BootProcess, Boot, Fresh
  <2>. QED BY <2>1 DEF ToldInv, AnnouncedIsLookedUp
<1>2. CASE Dies
  BY <1>2 DEF Dies, ProcessEnds, ToldInv, AnnouncedIsLookedUp
<1>3. CASE StartSupervisor \/ StopSupervisor \/ Connect \/ Reconnect \/ Link \/ Unlink
  <2>1. /\ UNCHANGED vars /\ told' = told
        /\ mail' = [c \in Client |->
                     IF client'[c].alive /\ client'[c].at # "released" THEN mail[c] ELSE 0]
    BY <1>3 DEF StartSupervisor, StopSupervisor, Connect, Reconnect, Link, Unlink, Supervise
  <2>2. \/ StartListener \/ StopListener \/ ReconnectFires \/ ConnectFails \/ Acquire
        \/ \E d \in Client : ClientStep(d)
    BY <1>3 DEF StartSupervisor, StopSupervisor, Connect, Reconnect, Link, Unlink, Supervise,
                ClientStep
  <2>3. halted' = halted /\ mode' = mode /\ (LookupNear <=> LookupNear')
    BY <2>1 DEF vars, LookupNear, InFlight
  <2>4. ASSUME NEW c \in told', ~halted', client'[c].alive, client'[c].handlers
        PROVE  mail'[c] > 0 \/ LookupNear'
    <3>1. c \in told /\ c \in Client /\ client[c].at # "unused"
      BY <2>1, <2>4 DEF OwnTypeOK, ToldInv
    <3>2. client[c].alive /\ client[c].handlers
      BY <2>2, <2>4, <3>1, HandlersStay
    <3>3. mail[c] > 0 \/ LookupNear
      BY <2>3, <2>4, <3>1, <3>2 DEF ToldInv, AnnouncedIsLookedUp
    <3>4. client'[c].at # "released"
      BY <2>4, <3>1 DEF ListenerTypeOK
    <3>. QED BY <2>1, <2>3, <2>4, <3>1, <3>3, <3>4
  <2>5. \A c \in told' : client'[c].at # "unused"
    BY <2>1, <2>2, UsedStays DEF OwnTypeOK, ToldInv
  <2>6. mode = "down" => started' = started
    BY <1>3 DEF StartSupervisor, StopSupervisor, Connect, Reconnect, Link, Unlink, Supervise,
                StopListener, ConnectFails, Acquire, ReconnectFires, ListenAnswered,
                ListenContinues, ListenFails, Breaks, Release
  <2>. QED BY <2>1, <2>3, <2>4, <2>5, <2>6 DEF ToldInv, AnnouncedIsLookedUp
<1>4. CASE StartLoop \/ StopLoop \/ Time \/ Ticks \/ Periods \/ DelayOver
  <2>1. /\ told' = IF stage = "reserve" /\ stage' # "reserve" THEN {} ELSE told
        /\ mail' = mail /\ client' = client /\ started' = started
        /\ Stop \/ Start \/ TimerFires \/ TickStep \/ PeriodEnds \/ ComeDue
    BY <1>4 DEF StartLoop, StopLoop, Time, Ticks, Periods, DelayOver, Loop, listenerVars
  <2>2. mode' = "down" => mode = "down"
    BY <2>1 DEF Stop, Start, TimerFires, TickStep, Heartbeat, Recover, Reserve, NothingReserved,
                Refresh, ReportRefresh, Processed, PeriodEnds, ComeDue
  <2>3. ~halted' => ~halted
    BY <2>1 DEF Stop, Start, TimerFires, TickStep, Heartbeat, Recover, Reserve, NothingReserved,
                Refresh, ReportRefresh, Processed, PeriodEnds, ComeDue
  <2>4. ASSUME NEW c \in told', ~halted', client'[c].alive, client'[c].handlers
        PROVE  mail'[c] > 0 \/ LookupNear'
    <3>1. c \in told /\ ~(stage = "reserve" /\ stage' # "reserve")
      BY <2>1, <2>4
    <3>2. mail[c] > 0 \/ LookupNear
      BY <2>1, <2>3, <2>4, <3>1 DEF ToldInv, AnnouncedIsLookedUp
    <3>3. CASE mail[c] > 0
      BY <2>1, <3>3
    <3>4. CASE LookupNear /\ ~Stop
      BY <2>1, <2>4, <3>1, <3>4, LookupStays
    <3>5. CASE Stop
      BY <2>4, <3>5 DEF Stop
    <3>. QED BY <3>2, <3>3, <3>4, <3>5
  <2>. QED BY <2>1, <2>2, <2>4 DEF ToldInv, AnnouncedIsLookedUp
<1>5. CASE Enqueue
  <2>1. /\ told' = told \cup {c \in Client : Hears(c)}
        /\ client' = client /\ started' = started
        /\ ComeDue \/ UNCHANGED vars
    BY <1>5 DEF Enqueue, listenerVars
  <2>2. /\ mode' = mode /\ halted' = halted /\ (LookupNear <=> LookupNear')
    BY <2>1 DEF ComeDue, vars, LookupNear, InFlight
  <2>3. \A c \in Client : mail'[c] >= mail[c] /\ (Hears(c) => mail'[c] > 0)
    <3>1. PICK early \in SUBSET Client :
            mail' = [c \in Client |-> IF Subscribed(c) \/ c \in early THEN mail[c] + 1 ELSE mail[c]]
      BY <1>5 DEF Enqueue
    <3>. QED BY <3>1, WakeupAssumption DEF OwnTypeOK, Hears
  <2>4. mode = "down" => \A c \in Client : ~Hears(c)
    BY DEF ToldInv, ListenerInv, OneReason, ClientShape, Client, Hears, Subscribed
  <2>5. \A c \in told' : c \in Client /\ client[c].at # "unused" /\ (c \in told \/ Hears(c))
    BY <2>1 DEF OwnTypeOK, ToldInv, Hears, Subscribed
  <2>6. ASSUME NEW c \in told', ~halted', client'[c].alive, client'[c].handlers
        PROVE  mail'[c] > 0 \/ LookupNear'
    <3>1. CASE Hears(c)
      BY <2>3, <2>5, <3>1
    <3>2. CASE c \in told
      <4>1. mail[c] > 0 \/ LookupNear
        BY <2>1, <2>2, <2>6, <3>2 DEF ToldInv, AnnouncedIsLookedUp
      <4>2. mail[c] \in Nat /\ mail'[c] \in Nat /\ mail'[c] >= mail[c]
        BY <2>3, <2>5, WakeupAssumption DEF OwnTypeOK
      <4>. QED BY <2>2, <4>1, <4>2
    <3>. QED BY <2>5, <3>1, <3>2
  <2>. QED BY <2>1, <2>2, <2>4, <2>5, <2>6 DEF ToldInv, AnnouncedIsLookedUp
<1>6. ASSUME NEW c \in Client, Notified(c) PROVE ToldInv'
  <2>1. /\ mail' = [mail EXCEPT ![c] = mail[c] - 1] /\ told' = told
        /\ client' = client /\ started' = started
        /\ IF client[c].handlers THEN RequestImmediateTick ELSE UNCHANGED vars
    BY <1>6 DEF Notified, listenerVars
  <2>2. CASE client[c].handlers
    <3>1. LookupNear' /\ mode' = mode
      BY <2>1, <2>2 DEF RequestImmediateTick, LookupNear, InFlight
    <3>. QED BY <2>1, <3>1 DEF ToldInv, AnnouncedIsLookedUp
  <2>3. CASE ~client[c].handlers
    <3>1. mode' = mode /\ halted' = halted /\ (LookupNear <=> LookupNear')
      BY <2>1, <2>3 DEF vars, LookupNear, InFlight
    <3>2. \A d \in Client : d # c => mail'[d] = mail[d]
      BY <2>1 DEF OwnTypeOK
    <3>. QED BY <2>1, <2>3, <3>1, <3>2 DEF ToldInv, AnnouncedIsLookedUp, OwnTypeOK
  <2>. QED BY <2>2, <2>3
<1>7. CASE UNCHANGED wakeupVars
  BY <1>7 DEF wakeupVars, vars, listenerVars, ToldInv, AnnouncedIsLookedUp, LookupNear, InFlight
<1>. QED BY <1>1, <1>2, <1>3, <1>4, <1>5, <1>6, <1>7 DEF WakeupNext, ProcessStep

LEMMA ProcessInvariant ==
  WakeupSpec => [](TypeOK /\ ListenerTypeOK /\ ListenerInv /\ OwnTypeOK /\ ToldInv)
<1>1. WakeupInit => OwnTypeOK /\ ToldInv
  <2>. SUFFICES ASSUME WakeupInit PROVE OwnTypeOK /\ ToldInv
    OBVIOUS
  <2>1. NoMail \in [Client -> 0..MaxMail]
    BY WakeupAssumption DEF NoMail
  <2>. QED BY <2>1 DEF WakeupInit, ListenerInit, OwnTypeOK, ToldInv, AnnouncedIsLookedUp
<1>2. LoopInv => TypeOK
  BY DEF LoopInv
<1>3. ASSUME TypeOK, ListenerTypeOK, ListenerTypeOK', ListenerInv, OwnTypeOK, ToldInv,
             [WakeupNext]_wakeupVars
      PROVE  OwnTypeOK' /\ ToldInv'
  BY <1>3, OwnTypes, ToldStep
<1>. QED
  BY <1>1, <1>2, <1>3, ProcessKeepsParts, LoopInvariant, ListenerInvariant, PTL DEF WakeupSpec

\* Loop, supervisor and notifications keep their form.
THEOREM ProcessTypesHold == WakeupSpec => []WakeupTypeOK
<1>1. TypeOK /\ ListenerTypeOK /\ OwnTypeOK => WakeupTypeOK
  BY DEF WakeupTypeOK, OwnTypeOK
<1>. QED BY <1>1, ProcessInvariant, PTL

\* Rows announced to a connection that lasts wait for no poll interval: their notification
\* is under way or a reserve is near, whatever ticks, init(), breaks and reconnects do.
THEOREM AnnouncedRowsAreLookedUp == WakeupSpec => []AnnouncedIsLookedUp
<1>1. ToldInv => AnnouncedIsLookedUp
  BY DEF ToldInv
<1>. QED BY <1>1, ProcessInvariant, PTL
=============================================================================
