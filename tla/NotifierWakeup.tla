--------------------------- MODULE NotifierWakeup ---------------------------
(***************************************************************************)
(* A notifier worker's process: its loop (NotifierWorkerLoop), the         *)
(* listener that wakes it up (OutboxListener), and the notifications that  *)
(* enqueueMany's transactions send to whoever listens.  init() starts the  *)
(* supervisor, awaits its first connect(), and then starts the loop.       *)
(* PostgreSQL is external: from LISTEN on, a session gets the NOTIFYs      *)
(* committed while it lasts, in order.                                     *)
(***************************************************************************)
EXTENDS NotifierWorkerLoop, OutboxListener

CONSTANT MaxMail  \* bound: notifications on their way to a client

ASSUME WakeupAssumption == MaxMail \in Nat \ {0}

VARIABLES
  awaited,  \* init() is past its "await listener.start()"
  mail,     \* mail[c]: notifications on their way to client c
  told      \* clients that heard of rows since the last reserve, or will (history)

wakeupVars == <<vars, listenerVars, awaited, mail, told>>

NoMail == [c \in Client |-> 0]

WakeupTypeOK ==
  /\ TypeOK /\ ListenerTypeOK
  /\ awaited \in BOOLEAN /\ mail \in [Client -> 0..MaxMail] /\ told \subseteq Client

WakeupInit ==
  Init /\ ListenerInit /\ awaited = FALSE /\ mail = NoMail /\ told = {}

\* The session of c listens; before LISTEN is answered it may already.
Subscribed(c) == client[c].alive /\ client[c].at \in {"answered", "held", "closing"}

\* What the session of c gets will reach onNotify.
Hears(c) == Subscribed(c) /\ client[c].handlers

-----------------------------------------------------------------------------
(* The process *)

BootProcess == Boot /\ UNCHANGED <<listenerVars, awaited, mail, told>>

Dies ==
  /\ Crash /\ ProcessEnds
  /\ awaited' = FALSE /\ mail' = NoMail /\ told' = {}

\* The supervisor's steps.  What is on its way to a client ends with its session, or with
\* its UNLISTEN.
Supervise(A) ==
  /\ A
  /\ awaited' = (awaited \/ (connecting /\ ~connecting'))
  /\ mail' = [c \in Client |-> IF client'[c].alive /\ client'[c].at # "released" THEN mail[c] ELSE 0]
  /\ UNCHANGED <<vars, told>>

StartSupervisor == Supervise(mode = "init" /\ StartListener)
StopSupervisor == Supervise(StopListener)
Connect == Supervise(ConnectFails \/ Acquire)
Reconnect == Supervise(ReconnectFires)
Link == Supervise(\E c \in Client : ListenAnswered(c) \/ ListenContinues(c) \/ ListenFails(c))
Unlink == Supervise(\E c \in Client : Breaks(c) \/ Release(c))

\* The loop's steps: rows told of before a reserve ran are looked up.
Loop(A) ==
  /\ A
  /\ told' = IF stage = "reserve" /\ stage' # "reserve" THEN {} ELSE told
  /\ UNCHANGED <<listenerVars, awaited, mail>>

StartLoop == Loop(awaited /\ Start)
StopLoop == Loop(Stop)
Time == Loop(TimerFires)
Ticks == Loop(TickStep)
Periods == Loop(PeriodEnds)

-----------------------------------------------------------------------------
(* Rows and notifications *)

\* A row's delay is over, or its lease: nobody says so.
DelayOver == Loop(ComeDue)

\* enqueueMany commits rows, due at once or later, and notifies.
Enqueue ==
  /\ ComeDue \/ UNCHANGED vars
  /\ \A c \in Client : mail[c] < MaxMail
  /\ \E early \in SUBSET {c \in Client : client[c].alive /\ client[c].at = "listen"} :
       mail' = [c \in Client |-> IF Subscribed(c) \/ c \in early THEN mail[c] + 1 ELSE mail[c]]
  /\ told' = told \cup {c \in Client : Hears(c)}
  /\ UNCHANGED <<listenerVars, awaited>>

\* "notification": onNotify, unless cleanup() has taken the handlers away.
Notified(c) ==
  /\ mail[c] > 0 /\ Subscribed(c)
  /\ mail' = [mail EXCEPT ![c] = mail[c] - 1]
  /\ IF client[c].handlers THEN RequestImmediateTick ELSE UNCHANGED vars
  /\ UNCHANGED <<listenerVars, awaited, told>>

-----------------------------------------------------------------------------
ProcessStep ==
  \/ BootProcess \/ Dies
  \/ StartSupervisor \/ StopSupervisor \/ Connect \/ Reconnect \/ Link \/ Unlink
  \/ StartLoop \/ StopLoop \/ Time \/ Ticks \/ Periods

WakeupNext ==
  \/ ProcessStep \/ DelayOver \/ Enqueue
  \/ \E c \in Client : Notified(c)

WakeupSpec == WakeupInit /\ [][WakeupNext]_wakeupVars

\* Containers restart, init() goes on, connects and LISTENs end one way or the other,
\* timers fire and awaited calls end.  No notification has to arrive.
WakeupFairness ==
  /\ WF_wakeupVars(BootProcess) /\ WF_wakeupVars(StartSupervisor) /\ WF_wakeupVars(StartLoop)
  /\ WF_wakeupVars(Connect) /\ WF_wakeupVars(Link)
  /\ WF_wakeupVars(Time) /\ WF_wakeupVars(Ticks)

FairWakeupSpec == WakeupSpec /\ WakeupFairness

-----------------------------------------------------------------------------
LookupNear ==
  IF InFlight THEN stage \in {"heartbeat", "recover", "reserve"} \/ immediate
              ELSE timer = "now"

\* Rows announced to a connection that lasts are looked up without waiting for the poll
\* interval: the notification is under way, or a reserve is, whatever the tick, init(),
\* the supervisor and earlier connections were doing meanwhile.
AnnouncedIsLookedUp ==
  ~halted => \A c \in told : client[c].alive /\ client[c].handlers => mail[c] > 0 \/ LookupNear

\* Inductive, for AnnouncedIsLookedUp.
ToldInv ==
  /\ mode = "down" => told = {} /\ ~started
  /\ \A c \in told : client[c].at # "unused"
  /\ AnnouncedIsLookedUp
=============================================================================
