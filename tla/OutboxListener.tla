--------------------------- MODULE OutboxListener ---------------------------
(***************************************************************************)
(* The supervisor that keeps one database client LISTENing for outbox      *)
(* wake-ups (notifier-worker-wakeup.js).  A client is named by the         *)
(* connectionId the supervisor gives it.  pg is external: it rejects the   *)
(* queries of a broken connection before it emits "error" and then "end",  *)
(* and the continuation of an answered query runs before any timer.        *)
(***************************************************************************)
EXTENDS Naturals, FiniteSets

CONSTANTS
  MaxClients,   \* bound: clients taken from the pool (activeConnectionId)
  BreakOnAnswer \* may a connection break in the very chunk that answers LISTEN?

ASSUME ListenerAssumption == MaxClients \in Nat /\ BreakOnAnswer \in BOOLEAN

Client == 1..MaxClients
None == 0

VARIABLES
  started, stopped,  \* start() and stop() were called
  connecting,        \* connect() is running
  reconnect,             \* reconnectTimer is set
  current,           \* stopListening: the client whose cleanup it holds
  active,            \* activeConnectionId
  client             \* client[c]: what became of it

listenerVars == <<started, stopped, connecting, reconnect, current, active, client>>

\* at: "unused"; "listen" with LISTEN under way, "answered" once it is, "held" once
\* localStop is set; "closing" in cleanup(); "released" back to the pool.
\* handlers: attached to the client; disconnecting: handleDisconnect has run.
ClientState == [at: {"unused", "listen", "answered", "held", "closing", "released"},
                alive: BOOLEAN, handlers: BOOLEAN, disconnecting: BOOLEAN]

Unused == [at |-> "unused", alive |-> FALSE, handlers |-> FALSE, disconnecting |-> FALSE]

ListenerTypeOK ==
  /\ started \in BOOLEAN /\ stopped \in BOOLEAN /\ connecting \in BOOLEAN /\ reconnect \in BOOLEAN
  /\ current \in Client \cup {None} /\ active \in 0..MaxClients
  /\ client \in [Client -> ClientState]
  /\ \A c \in Client : client[c].handlers => client[c].at \in {"listen", "answered", "held"}

ListenerInit ==
  /\ started = FALSE /\ stopped = FALSE /\ connecting = FALSE /\ reconnect = FALSE
  /\ current = None /\ active = 0
  /\ client = [c \in Client |-> Unused]

\* Promise continuations run before the next event or timer.
Settled == \A c \in Client : client[c].at # "answered"

\* scheduleReconnectAttempt
ScheduleReconnect == reconnect' = (reconnect \/ ~stopped)

-----------------------------------------------------------------------------
(* start, stop and the reconnect timer *)

StartListener ==
  /\ Settled /\ ~started /\ started' = TRUE
  /\ stopped' = FALSE
  /\ connecting' = TRUE
  /\ UNCHANGED <<reconnect, current, active, client>>

\* connect() does nothing after stop() or while another connect() runs.
ReconnectFires ==
  /\ Settled /\ reconnect /\ reconnect' = FALSE
  /\ connecting' = (connecting \/ ~stopped)
  /\ UNCHANGED <<started, stopped, current, active, client>>

\* cleanup(): detaches the handlers, then UNLISTENs.
Closing(c) == [client EXCEPT ![c].at = "closing", ![c].handlers = FALSE]

StopListener ==
  /\ Settled /\ started /\ ~stopped /\ stopped' = TRUE
  /\ reconnect' = FALSE /\ current' = None
  /\ client' = IF current = None THEN client ELSE Closing(current)
  /\ UNCHANGED <<started, connecting, active>>

-----------------------------------------------------------------------------
(* connect() and listenForOutboxReady *)

ConnectFails ==
  /\ Settled /\ connecting /\ \A c \in Client : client[c].at # "listen"
  /\ connecting' = FALSE /\ ScheduleReconnect
  /\ UNCHANGED <<started, stopped, current, active, client>>

\* pool.connect() gives a client; its handlers are attached and LISTEN is sent.
Acquire ==
  /\ Settled /\ connecting /\ \A c \in Client : client[c].at # "listen"
  /\ active < MaxClients /\ active' = active + 1
  /\ client' = [client EXCEPT ![active + 1] =
       [at |-> "listen", alive |-> TRUE, handlers |-> TRUE, disconnecting |-> FALSE]]
  /\ UNCHANGED <<started, stopped, connecting, reconnect, current>>

ListenAnswered(c) ==
  /\ Settled /\ client[c].at = "listen" /\ client[c].alive
  /\ client' = [client EXCEPT ![c].at = "answered"]
  /\ UNCHANGED <<started, stopped, connecting, reconnect, current, active>>

\* Mutant: connect() ends without resetting "connecting".
ContinuesConnecting(c) ==
  /\ client[c].at = "answered"
  /\ client' = [client EXCEPT ![c].at = "held"]
  /\ current' = c
  /\ UNCHANGED <<started, stopped, connecting, reconnect, active>>

\* localStop and stopListening are set; nobody asks whether c is still connected.
ListenContinues(c) ==
  /\ client[c].at = "answered"
  /\ client' = [client EXCEPT ![c].at = "held"]
  /\ current' = c /\ connecting' = FALSE
  /\ UNCHANGED <<started, stopped, reconnect, active>>

\* Mutants: a client whose LISTEN failed is not released; the failure is
\* not followed by another attempt.
FailureKeepsClient(c) ==
  /\ Settled /\ client[c].at = "listen"
  /\ client' = [client EXCEPT ![c].at = "held"]
  /\ connecting' = FALSE /\ ScheduleReconnect
  /\ UNCHANGED <<started, stopped, current, active>>
FailureIsFinal(c) ==
  /\ Settled /\ client[c].at = "listen"
  /\ client' = [client EXCEPT ![c].at = "released", ![c].handlers = FALSE]
  /\ connecting' = FALSE
  /\ UNCHANGED <<started, stopped, reconnect, current, active>>

\* LISTEN is refused, or the connection broke: cleanup without UNLISTEN, release.
ListenFails(c) ==
  /\ Settled /\ client[c].at = "listen"
  /\ client' = [client EXCEPT ![c].at = "released", ![c].handlers = FALSE]
  /\ connecting' = FALSE /\ ScheduleReconnect
  /\ UNCHANGED <<started, stopped, current, active>>

-----------------------------------------------------------------------------
(* Disconnects *)

\* handleDisconnect gets past its first line.
Handles(c) ==
  client[c].handlers /\ ~client[c].disconnecting /\ ~stopped /\ c = active

\* The connection of c breaks and "error" or "end" reaches the handlers: with
\* localStop set the client is cleaned up first, without it the timer is set at once.
Breaks(c) ==
  /\ client[c].at \in {"listen", "held"} \cup (IF BreakOnAnswer THEN {"answered"} ELSE {})
  /\ Settled \/ client[c].at = "answered"
  /\ client[c].alive
  /\ IF Handles(c)
     THEN /\ client' = [client EXCEPT ![c].alive = FALSE, ![c].disconnecting = TRUE,
                          ![c].handlers = @ /\ client[c].at # "held",
                          ![c].at = IF @ = "held" THEN "closing" ELSE @]
          /\ current' = IF current = c THEN None ELSE current
          /\ IF client[c].at = "held" THEN reconnect' = reconnect ELSE ScheduleReconnect
     ELSE /\ client' = [client EXCEPT ![c].alive = FALSE]
          /\ UNCHANGED <<current, reconnect>>
  /\ UNCHANGED <<started, stopped, connecting, active>>

\* UNLISTEN ended, well or not: the client goes back, and the handler that waited
\* for it sets the timer.
Release(c) ==
  /\ Settled /\ client[c].at = "closing"
  /\ client' = [client EXCEPT ![c].at = "released"]
  /\ IF client[c].disconnecting THEN ScheduleReconnect ELSE reconnect' = reconnect
  /\ UNCHANGED <<started, stopped, connecting, current, active>>

\* The process ends, and with it every client: the next one starts afresh.
ProcessEnds ==
  /\ started' = FALSE /\ stopped' = FALSE /\ connecting' = FALSE /\ reconnect' = FALSE
  /\ current' = None /\ active' = 0
  /\ client' = [c \in Client |-> Unused]

-----------------------------------------------------------------------------
ClientStep(c) ==
  ListenAnswered(c) \/ ListenContinues(c) \/ ListenFails(c) \/ Breaks(c) \/ Release(c)

ListenerNext ==
  \/ StartListener \/ StopListener \/ ReconnectFires \/ ConnectFails \/ Acquire
  \/ \E c \in Client : ClientStep(c)
  \/ ProcessEnds

ListenerSpec == ListenerInit /\ [][ListenerNext]_listenerVars

-----------------------------------------------------------------------------
(* Properties *)

\* However breaks, failed connects, timers and cleanups interleave, a supervisor
\* that was not stopped holds a live listener or will try again.
NeverStranded ==
  started /\ ~stopped =>
    \/ connecting \/ reconnect
    \/ \E c \in Client : client[c].at = "closing" /\ client[c].disconnecting
    \/ current # None /\ client[current].alive

\* A wake-up is not heard twice: one live client at most has handlers.
OneListener ==
  \A c, d \in Client :
    /\ client[c].alive /\ client[c].handlers
    /\ client[d].alive /\ client[d].handlers
    => c = d

\* notifier-worker.test.js:150, over any history: a client taken from the pool is in use
\* or on its way back.  The one exception is a client whose disconnect was handled
\* before localStop was set: nobody will clean it up (see BreakOnAnswer).
NoClientLeak ==
  \A c \in Client : client[c].at = "held" => c = current \/ client[c].disconnecting

-----------------------------------------------------------------------------
(* Inductive strengthening of NeverStranded. *)

Linking(c) == client[c].at \in {"listen", "answered"}

Retrying(c) == client[c].at = "closing" /\ client[c].disconnecting

LiveCurrent == current # None /\ client[current].alive

\* What a client's place says of its flags and of the supervisor's.
ClientShape(c) ==
  /\ client[c].at = "unused" <=> c > active
  /\ Linking(c) => connecting /\ c = active /\ client[c].handlers
  /\ Linking(c) /\ client[c].alive => ~client[c].disconnecting
  /\ client[c].at = "answered" /\ ~client[c].alive /\ ~stopped => reconnect
  /\ client[c].at = "held" /\ client[c].alive /\ ~stopped => current = c

\* One reason to go on at a time: a live listener, a connect, a timer, or a cleanup
\* that will set one.  Only a client that broke before its LISTEN was answered
\* leaves a timer set under the running connect.
OneReason ==
  /\ current # None => client[current].at = "held"
  /\ ~started => ~connecting /\ ~reconnect /\ active = 0 /\ ~stopped
  /\ stopped => ~reconnect
  /\ LiveCurrent /\ ~stopped =>
       /\ ~connecting /\ ~reconnect /\ \A c \in Client : ~Retrying(c)
       /\ current = active /\ client[current].handlers /\ ~client[current].disconnecting
  /\ \A c \in Client : Retrying(c) /\ ~stopped =>
       ~connecting /\ ~reconnect /\ \A d \in Client : Retrying(d) => d = c
  /\ connecting /\ reconnect => \E c \in Client : Linking(c) /\ ~client[c].alive

\* Inductive, for NoClientLeak: while another listener may come, no client is held but
\* for those lost by a break between LISTEN's answer and its continuation.
HeldIsCurrent ==
  /\ \A c \in Client : Linking(c) /\ ~client[c].alive /\ ~stopped => client[c].disconnecting
  /\ connecting \/ reconnect \/ (\E c \in Client : Retrying(c) /\ ~stopped) =>
       \A c \in Client : client[c].at = "held" => client[c].disconnecting
  /\ NoClientLeak

\* Without such breaks there is no exception.
AnswersHold ==
  \A c \in Client :
    /\ client[c].at = "answered" => client[c].alive
    /\ client[c].at \in {"answered", "held"} => ~client[c].disconnecting

ListenerInv == (\A c \in Client : ClientShape(c)) /\ OneReason /\ NeverStranded
=============================================================================
